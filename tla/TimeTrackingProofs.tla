------------------------- MODULE TimeTrackingProofs -------------------------
(***************************************************************************)
(* Proofs about TimeTracking.                                              *)
(*                                                                         *)
(* Types: what a handler prepares is a well-formed write set, and what a   *)
(* well-formed write set commits is a well-formed table.                   *)
(*                                                                         *)
(* Safety of the tables: one induction, strengthened by what a write set   *)
(* still guarantees when it commits: its times have passed, the session it *)
(* updates was visible when it was read, it stops at most one timer, and   *)
(* the contract of its timer exists.  Everything else is decided at the    *)
(* commit.                                                                 *)
(*                                                                         *)
(* Overtaken requests: what a handler checked is so until another request  *)
(* overtakes it.  A commit is described by what it does to the rows that a *)
(* promise is about, and what it checked, when it still stands, forbids it *)
(* to break the promise.                                                   *)
(***************************************************************************)
EXTENDS Overtaking, TLAPS

EntriesTyped ==
    /\ DOMAIN entries \subseteq Entries
    /\ entries \in [DOMAIN entries -> EntryRow]

(* Time tracking adds sessions, all pending, and rebills none.             *)
BillingUntouched ==
    /\ \A e \in DOMAIN entries :
          /\ e \in DOMAIN entries'
          /\ entries'[e].billing = entries[e].billing
          /\ entries'[e].invoice = entries[e].invoice
    /\ \A e \in DOMAIN entries' \ DOMAIN entries :
          /\ entries'[e].billing = "pending_invoice"
          /\ entries'[e].invoice = NoInvoice

-----------------------------------------------------------------------------
(* What a write set holds, by its kind *)

LEMMA WriteFields ==
    ASSUME NEW w \in Writes
    PROVE  /\ w.op \in {"startTimer", "newEntry"} => w.row \in EntryRow
           /\ w.op = "updateEntry" =>
                 w.entry \in Entries /\ w.read \in EntryRow /\ w.write \in EntryRow
           /\ w.op = "newContract" => w.details \in Details
           /\ w.op = "editContract" => w.details \in Details
           /\ w.op = "setContract" => w.to \in {"active", "archived"}
           /\ w.op = "setEnabled" => w.to \in BOOLEAN /\ w.at \in Time
BY DEF Writes, EntryWrites, WorkspaceWrites, Idle

(* A request that prepares a well-formed write set keeps the tables typed. *)
LEMMA PrepareTyped ==
    ASSUME TrackingTypeOK, NEW t \in Threads, NEW w \in Writes, WriteOK(w),
           Prepare(t, w)
    PROVE  TrackingTypeOK'
BY DEF TrackingTypeOK, TablesOK, WritesOK, WriteOK, Prepare, tables

Released(t) == requests' = [requests EXCEPT ![t] = Idle] /\ UNCHANGED now

(* A commit leaves the thread idle and the other write sets well-formed.   *)
LEMMA FinishTyped ==
    ASSUME TrackingTypeOK, NEW t \in Threads, Released(t),
           DOMAIN entries \subseteq DOMAIN entries'
    PROVE  requests' \in [Threads -> Writes] /\ WritesOK' /\ now' \in Time
BY DEF TrackingTypeOK, TablesOK, WritesOK, WriteOK, Released, Writes, Idle

LEMMA TimeIsNotRunning == ASSUME NEW x \in Time PROVE x # Running
BY TimeAssumption DEF Time, Running

LEMMA PendingEntryTyped ==
    ASSUME NEW u \in Users, NEW k \in Tasks, NEW s \in Subtasks \cup {NoSubtask},
           NEW from \in Time, NEW to \in Time \cup {Running}
    PROVE  PendingEntry(u, k, s, from, to) \in EntryRow
BY DEF PendingEntry, EntryRow, BillingStatus

-----------------------------------------------------------------------------
(* The tables at the start *)

LEMMA InitTyped == Init => TrackingTypeOK
BY TimeAssumption
   DEF Init, TrackingTypeOK, TablesOK, WritesOK, WriteOK, Writes, Idle, RowState,
       ItemState, Time

-----------------------------------------------------------------------------
(* Requests *)

LEMMA EntryRequestTyped ==
    ASSUME TrackingTypeOK, NEW t \in Threads, EntryRequest(t)
    PROVE  TrackingTypeOK'
<1>0. /\ entries \in [DOMAIN entries -> EntryRow]
      /\ DOMAIN entries \subseteq Entries
      /\ now \in Time
  BY DEF TrackingTypeOK, TablesOK
<1>1. ASSUME NEW u \in Users, NEW k \in Tasks, NEW s \in Subtasks \cup {NoSubtask},
             StartTimer(t, u, k, s)
      PROVE  TrackingTypeOK'
  <2> DEFINE w == [op |-> "startTimer", row |-> PendingEntry(u, k, s, now, Running)]
  <2>1. w \in Writes
    BY <1>0, PendingEntryTyped DEF Writes, EntryWrites
  <2>2. WriteOK(w)
    BY DEF WriteOK, PendingEntry
  <2>3. Prepare(t, w)
    BY <1>1 DEF StartTimer
  <2> QED
    BY <2>1, <2>2, <2>3, PrepareTyped
<1>2. ASSUME NEW u \in Users, NEW k \in Tasks, NEW s \in Subtasks \cup {NoSubtask},
             NEW from \in Time, NEW to \in Time, NewTimeEntry(t, u, k, s, from, to)
      PROVE  TrackingTypeOK'
  <2> DEFINE w == [op |-> "newEntry", row |-> PendingEntry(u, k, s, from, to)]
  <2>1. w \in Writes
    BY PendingEntryTyped DEF Writes, EntryWrites
  <2>2. WriteOK(w)
    BY DEF WriteOK, PendingEntry
  <2>3. Prepare(t, w)
    BY <1>2 DEF NewTimeEntry
  <2> QED
    BY <2>1, <2>2, <2>3, PrepareTyped
<1>3. ASSUME NEW u \in Users, NEW k \in Tasks, NEW s \in Subtasks \cup {NoSubtask},
             NEW from \in Time, NEW to \in Time, NEW e \in DOMAIN entries,
             EditTimeEntry(t, e, u, k, s, from, to)
      PROVE  TrackingTypeOK'
  <2> DEFINE row == [entries[e] EXCEPT !.user = u, !.task = k,
                        !.subtask = AssignedSubtask(e, s), !.start = from, !.stop = to]
             w == [op |-> "updateEntry", entry |-> e, read |-> entries[e], write |-> row]
  <2>1. /\ row \in EntryRow
        /\ row.billing = entries[e].billing
        /\ row.invoice = entries[e].invoice
        /\ row.stop = to
    <3>1. AssignedSubtask(e, s) \in Subtasks \cup {NoSubtask}
      BY <1>0 DEF AssignedSubtask, EntryRow
    <3> QED
      BY <1>0, <3>1 DEF EntryRow
  <2>2. w \in Writes
    BY <1>0, <2>1 DEF Writes, EntryWrites
  <2>3. WriteOK(w)
    BY <2>1, TimeIsNotRunning DEF WriteOK
  <2>4. Prepare(t, w)
    BY <1>3 DEF EditTimeEntry
  <2> QED
    BY <2>2, <2>3, <2>4, PrepareTyped
<1>4. ASSUME NEW e \in DOMAIN entries, StopTimer(t, e)
      PROVE  TrackingTypeOK'
  <2> DEFINE row == [entries[e] EXCEPT !.stop = Later(now, entries[e].start)]
             w == [op |-> "updateEntry", entry |-> e, read |-> entries[e], write |-> row]
  <2>1. Later(now, entries[e].start) \in Time
    BY <1>0 DEF Later, EntryRow
  <2>2. /\ row \in EntryRow
        /\ row.billing = entries[e].billing
        /\ row.invoice = entries[e].invoice
        /\ row.stop \in Time
    BY <1>0, <2>1 DEF EntryRow
  <2>3. w \in Writes
    BY <1>0, <2>2 DEF Writes, EntryWrites
  <2>4. WriteOK(w)
    BY <2>2, TimeIsNotRunning DEF WriteOK
  <2>5. Prepare(t, w)
    BY <1>4 DEF StopTimer
  <2> QED
    BY <2>3, <2>4, <2>5, PrepareTyped
<1>5. ASSUME NEW e \in DOMAIN entries, DeleteTimeEntry(t, e)
      PROVE  TrackingTypeOK'
  <2> DEFINE row == [entries[e] EXCEPT !.visible = FALSE]
             w == [op |-> "updateEntry", entry |-> e, read |-> entries[e], write |-> row]
  <2>1. /\ row \in EntryRow
        /\ row.billing = entries[e].billing
        /\ row.invoice = entries[e].invoice
        /\ row.stop = entries[e].stop
    BY <1>0 DEF EntryRow
  <2>2. w \in Writes
    BY <1>0, <2>1 DEF Writes, EntryWrites
  <2>3. WriteOK(w)
    BY <1>5, <2>1 DEF WriteOK, DeleteTimeEntry, Correctable
  <2>4. Prepare(t, w)
    BY <1>5 DEF DeleteTimeEntry
  <2> QED
    BY <2>2, <2>3, <2>4, PrepareTyped
<1> QED
  BY <1>1, <1>2, <1>3, <1>4, <1>5 DEF EntryRequest

LEMMA WorkspaceRequestTyped ==
    ASSUME TrackingTypeOK, NEW t \in Threads, WorkspaceRequest(t)
    PROVE  TrackingTypeOK'
<1>0. now \in Time /\ enabled \in [Users -> BOOLEAN] /\ DOMAIN entries \subseteq Entries
  BY DEF TrackingTypeOK, TablesOK
<1> DEFINE Prepares(w) == w \in Writes /\ WriteOK(w) /\ Prepare(t, w)
<1>1. ASSUME NEW w, Prepares(w) PROVE TrackingTypeOK'
  BY <1>1, PrepareTyped
<1>2. ASSUME NewClient(t) PROVE TrackingTypeOK'
  <2>1. Prepares([op |-> "newClient"])
    BY <1>2 DEF NewClient, Writes, WorkspaceWrites, WriteOK
  <2> QED BY <2>1, <1>1
<1>3. ASSUME NEW c \in Clients, NEW d \in Details, NewContract(t, c, d)
      PROVE  TrackingTypeOK'
  <2>1. Prepares([op |-> "newContract", client |-> c, details |-> d])
    BY <1>3 DEF NewContract, Writes, WorkspaceWrites, WriteOK
  <2> QED BY <2>1, <1>1
<1>4. ASSUME NEW c \in Clients, ArchiveClient(t, c) PROVE TrackingTypeOK'
  <2>1. Prepares([op |-> "archiveClient", client |-> c,
                  contracts |-> {k \in ContractsOf(c) : contracts[k] = "active"}])
    BY <1>4 DEF ArchiveClient, ContractsOf, Writes, WorkspaceWrites, WriteOK
  <2> QED BY <2>1, <1>1
<1>5. ASSUME NEW c \in Clients, ActivateClient(t, c) PROVE TrackingTypeOK'
  <2>1. Prepares([op |-> "activateClient", client |-> c])
    BY <1>5 DEF ActivateClient, Writes, WorkspaceWrites, WriteOK
  <2> QED BY <2>1, <1>1
<1>6. ASSUME NEW c \in Contracts, NEW d \in Details, EditContract(t, c, d)
      PROVE  TrackingTypeOK'
  <2>0. details[c] \in Details
    BY DEF TrackingTypeOK, TablesOK
  <2>1. Prepares([op |-> "editContract", contract |-> c,
                  read |-> details[c], details |-> d])
    BY <1>6, <2>0 DEF EditContract, Writes, WorkspaceWrites, WriteOK
  <2> QED BY <2>1, <1>1
<1>7. ASSUME NEW c \in Contracts, ArchiveContract(t, c) PROVE TrackingTypeOK'
  <2>1. Prepares([op |-> "setContract", contract |-> c, to |-> "archived"])
    BY <1>7 DEF ArchiveContract, Writes, WorkspaceWrites, WriteOK
  <2> QED BY <2>1, <1>1
<1>8. ASSUME NEW c \in Contracts, ActivateContract(t, c) PROVE TrackingTypeOK'
  <2>1. Prepares([op |-> "setContract", contract |-> c, to |-> "active"])
    BY <1>8 DEF ActivateContract, Writes, WorkspaceWrites, WriteOK
  <2> QED BY <2>1, <1>1
<1>9. ASSUME NEW c \in Contracts, NewTask(t, c) PROVE TrackingTypeOK'
  <2>1. Prepares([op |-> "newTask", contract |-> c])
    BY <1>9 DEF NewTask, Writes, WorkspaceWrites, WriteOK
  <2> QED BY <2>1, <1>1
<1>10. ASSUME NEW k \in Tasks, NewSubtask(t, k) PROVE TrackingTypeOK'
  <2>1. Prepares([op |-> "newSubtask", task |-> k])
    BY <1>10 DEF NewSubtask, Writes, WorkspaceWrites, WriteOK
  <2> QED BY <2>1, <1>1
<1>11. ASSUME NEW k \in Tasks, DeleteTask(t, k) PROVE TrackingTypeOK'
  <2>1. Prepares([op |-> "deleteTask", task |-> k])
    BY <1>11 DEF DeleteTask, Writes, WorkspaceWrites, WriteOK
  <2> QED BY <2>1, <1>1
<1>12. ASSUME NEW s \in Subtasks, DeleteSubtask(t, s) PROVE TrackingTypeOK'
  <2>1. Prepares([op |-> "deleteSubtask", subtask |-> s])
    BY <1>12 DEF DeleteSubtask, Writes, WorkspaceWrites, WriteOK
  <2> QED BY <2>1, <1>1
<1>13. ASSUME NEW u \in Users, ToggleUserEnabled(t, u) PROVE TrackingTypeOK'
  <2> DEFINE stopped == IF enabled[u] THEN ActiveTimersOf(u) ELSE {}
  <2>1. stopped \subseteq DOMAIN entries
    BY DEF ActiveTimersOf, VisibleEntries
  <2>2. (~enabled[u]) \in BOOLEAN
    OBVIOUS
  <2> HIDE DEF stopped
  <2>3. Prepares([op |-> "setEnabled", user |-> u, to |-> ~enabled[u], at |-> now,
                  stopped |-> stopped])
    <3>1. Prepare(t, [op |-> "setEnabled", user |-> u, to |-> ~enabled[u], at |-> now,
                      stopped |-> stopped])
      BY <1>13 DEF ToggleUserEnabled, stopped
    <3> QED
      BY <1>0, <2>1, <2>2, <3>1 DEF Writes, WorkspaceWrites, WriteOK
  <2> QED BY <2>3, <1>1
<1> HIDE DEF Prepares
<1> QED
  BY <1>2, <1>3, <1>4, <1>5, <1>6, <1>7, <1>8, <1>9, <1>10, <1>11, <1>12, <1>13
     DEF WorkspaceRequest

-----------------------------------------------------------------------------
(* Commits *)

(* A commit that leaves the sessions alone *)
LEMMA SameEntries ==
    ASSUME TrackingTypeOK, UNCHANGED entries
    PROVE  EntriesTyped' /\ BillingUntouched
BY DEF TrackingTypeOK, TablesOK, EntriesTyped, BillingUntouched

LEMMA InsertTyped ==
    ASSUME TrackingTypeOK, NEW row \in EntryRow, Insert(row),
           row.billing = "pending_invoice", row.invoice = NoInvoice
    PROVE  EntriesTyped' /\ BillingUntouched
<1>1. PICK e \in Entries \ DOMAIN entries : entries' = Put(entries, e, row)
  BY DEF Insert
<1>2. /\ DOMAIN entries' = DOMAIN entries \cup {e}
      /\ entries'[e] = row
      /\ \A f \in DOMAIN entries : entries'[f] = entries[f]
  BY <1>1 DEF Put
<1>3. entries' = [f \in DOMAIN entries' |-> entries'[f]]
  BY <1>1 DEF Put
<1> QED
  BY <1>2, <1>3 DEF TrackingTypeOK, TablesOK, EntriesTyped, BillingUntouched

(* A commit that changes columns of sessions other than the billing ones   *)
LEMMA RewriteTyped ==
    ASSUME TrackingTypeOK,
           entries' = [e \in DOMAIN entries |-> entries'[e]],
           \A e \in DOMAIN entries : /\ entries'[e] \in EntryRow
                                     /\ entries'[e].billing = entries[e].billing
                                     /\ entries'[e].invoice = entries[e].invoice
    PROVE  EntriesTyped' /\ BillingUntouched
<1>1. DOMAIN entries' = DOMAIN entries
  OBVIOUS
<1> QED
  BY <1>1 DEF TrackingTypeOK, TablesOK, EntriesTyped, BillingUntouched

LEMMA MergeTyped ==
    ASSUME NEW row \in EntryRow, NEW read \in EntryRow, NEW write \in EntryRow,
           read.billing = write.billing, read.invoice = write.invoice
    PROVE  /\ Merge(row, read, write) \in EntryRow
           /\ Merge(row, read, write).billing = row.billing
           /\ Merge(row, read, write).invoice = row.invoice
<1> DEFINE merged == Merge(row, read, write)
<1>1. merged = [column \in {"user", "task", "subtask", "start", "stop", "visible",
                              "billing", "invoice"} |->
                   Column(row[column], read[column], write[column])]
  BY DEF Merge, EntryRow
<1>2. /\ merged.user \in Users
      /\ merged.task \in Tasks
      /\ merged.subtask \in Subtasks \cup {NoSubtask}
      /\ merged.start \in Time
      /\ merged.stop \in Time \cup {Running}
      /\ merged.visible \in BOOLEAN
      /\ merged.billing = row.billing
      /\ merged.invoice = row.invoice
  BY <1>1 DEF Column, EntryRow
<1>3. merged = [user |-> merged.user, task |-> merged.task,
                subtask |-> merged.subtask, start |-> merged.start,
                stop |-> merged.stop, visible |-> merged.visible,
                billing |-> merged.billing, invoice |-> merged.invoice]
  BY <1>1
<1> HIDE DEF merged
<1>4. merged \in EntryRow
  BY <1>2, <1>3 DEF EntryRow
<1> QED
  BY <1>2, <1>4 DEF merged

LEMMA EntryCommitEntries ==
    ASSUME TrackingTypeOK, NEW t \in Threads, EntryCommit(t)
    PROVE  EntriesTyped' /\ BillingUntouched
<1>0. /\ entries \in [DOMAIN entries -> EntryRow]
      /\ requests[t] \in Writes
      /\ WriteOK(requests[t])
  BY DEF TrackingTypeOK, TablesOK, WritesOK
<1>1. CASE CommitStartTimer(t)
  <2>1. requests[t].op = "startTimer"
    BY <1>1 DEF CommitStartTimer, Finish
  <2>2. Insert(requests[t].row) \/ UNCHANGED entries
    BY <1>1 DEF CommitStartTimer
  <2> QED
    BY <1>0, <2>1, <2>2, WriteFields, InsertTyped, SameEntries DEF WriteOK
<1>2. CASE CommitNewTimeEntry(t)
  <2>1. requests[t].op = "newEntry"
    BY <1>2 DEF CommitNewTimeEntry, Finish
  <2>2. Insert(requests[t].row) \/ UNCHANGED entries
    BY <1>2 DEF CommitNewTimeEntry
  <2> QED
    BY <1>0, <2>1, <2>2, WriteFields, InsertTyped, SameEntries DEF WriteOK
<1>3. CASE CommitUpdateTimeEntry(t)
  <2> DEFINE w == requests[t]
             row == Merge(entries[w.entry], w.read, w.write)
  <2>1. w.op = "updateEntry"
    BY <1>3 DEF CommitUpdateTimeEntry, Finish
  <2>2. /\ w.entry \in DOMAIN entries
        /\ w.read \in EntryRow /\ w.write \in EntryRow
        /\ w.read.billing = w.write.billing /\ w.read.invoice = w.write.invoice
    BY <1>0, <2>1, WriteFields DEF WriteOK
  <2>3. /\ row \in EntryRow
        /\ row.billing = entries[w.entry].billing
        /\ row.invoice = entries[w.entry].invoice
    BY <1>0, <2>2, MergeTyped
  <2>4. entries' = [entries EXCEPT ![w.entry] = row] \/ UNCHANGED entries
    BY <1>3 DEF CommitUpdateTimeEntry
  <2> HIDE DEF row, w
  <2>5. ASSUME entries' = [entries EXCEPT ![w.entry] = row]
        PROVE  EntriesTyped' /\ BillingUntouched
    <3>1. entries' = [e \in DOMAIN entries |-> entries'[e]]
      BY <1>0, <2>5
    <3>2. \A e \in DOMAIN entries : /\ entries'[e] \in EntryRow
                                    /\ entries'[e].billing = entries[e].billing
                                    /\ entries'[e].invoice = entries[e].invoice
      BY <1>0, <2>2, <2>3, <2>5
    <3> QED
      BY <3>1, <3>2, RewriteTyped
  <2> QED
    BY <2>4, <2>5, SameEntries
<1> QED
  BY <1>1, <1>2, <1>3 DEF EntryCommit

LEMMA HideTyped ==
    ASSUME TrackingTypeOK, NEW work, Hide(work)
    PROVE  EntriesTyped' /\ BillingUntouched
<1>1. entries' = [e \in DOMAIN entries |-> entries'[e]]
  BY DEF Hide
<1>2. \A e \in DOMAIN entries :
         entries'[e] = entries[e] \/ entries'[e] = [entries[e] EXCEPT !.visible = FALSE]
  BY DEF Hide
<1>3. ASSUME NEW row \in EntryRow
      PROVE  LET hidden == [row EXCEPT !.visible = FALSE]
             IN  /\ hidden \in EntryRow
                 /\ hidden.billing = row.billing
                 /\ hidden.invoice = row.invoice
  BY DEF EntryRow
<1>4. \A e \in DOMAIN entries : /\ entries'[e] \in EntryRow
                                /\ entries'[e].billing = entries[e].billing
                                /\ entries'[e].invoice = entries[e].invoice
  BY <1>2, <1>3 DEF TrackingTypeOK, TablesOK
<1> QED
  BY <1>1, <1>4, RewriteTyped

LEMMA WorkspaceCommitEntries ==
    ASSUME TrackingTypeOK, NEW t \in Threads, WorkspaceCommit(t)
    PROVE  EntriesTyped' /\ BillingUntouched
<1>0. /\ entries \in [DOMAIN entries -> EntryRow]
      /\ requests[t] \in Writes
      /\ WriteOK(requests[t])
  BY DEF TrackingTypeOK, TablesOK, WritesOK
<1>1. CASE \/ CommitNewClient(t) \/ CommitNewContract(t) \/ CommitEditContract(t)
           \/ CommitSetContract(t) \/ CommitArchiveClient(t) \/ CommitActivateClient(t)
           \/ CommitNewTask(t) \/ CommitNewSubtask(t)
  BY <1>1, SameEntries
     DEF CommitNewClient, CommitNewContract, CommitEditContract, CommitSetContract,
         CommitArchiveClient, CommitActivateClient, CommitNewTask, CommitNewSubtask
<1>2. CASE CommitDeleteTask(t)
  BY <1>2, HideTyped DEF CommitDeleteTask
<1>3. CASE CommitDeleteSubtask(t)
  BY <1>3, HideTyped DEF CommitDeleteSubtask
<1>4. CASE CommitSetEnabled(t)
  <2> DEFINE w == requests[t]
             Stopped(e) == [entries[e] EXCEPT !.stop = w.at]
  <2>1. w.at \in Time
    BY <1>0, <1>4, WriteFields DEF CommitSetEnabled, Finish
  <2>2. \/ UNCHANGED entries
        \/ entries' = [e \in DOMAIN entries |->
                          IF e \in w.stopped THEN Stopped(e) ELSE entries[e]]
    BY <1>4 DEF CommitSetEnabled
  <2>3. \A e \in DOMAIN entries : /\ Stopped(e) \in EntryRow
                                  /\ Stopped(e).billing = entries[e].billing
                                  /\ Stopped(e).invoice = entries[e].invoice
    BY <1>0, <2>1 DEF EntryRow
  <2> HIDE DEF Stopped
  <2> QED
    BY <1>0, <2>2, <2>3, SameEntries, RewriteTyped
<1> QED
  BY <1>1, <1>2, <1>3, <1>4 DEF WorkspaceCommit

(* The other tables after a commit *)
LEMMA EntryCommitTables ==
    ASSUME NEW t \in Threads, EntryCommit(t)
    PROVE  /\ UNCHANGED <<clients, contracts, tasks, subtasks, details, enabled>>
           /\ Released(t)
BY DEF Released, Finish, EntryCommit, CommitStartTimer, CommitNewTimeEntry, CommitUpdateTimeEntry

LEMMA WorkspaceCommitTables ==
    ASSUME TrackingTypeOK, NEW t \in Threads, WorkspaceCommit(t)
    PROVE  /\ clients' \in [Clients -> RowState]
           /\ contracts' \in [Contracts -> RowState]
           /\ tasks' \in [Tasks -> ItemState]
           /\ subtasks' \in [Subtasks -> ItemState]
           /\ details' \in [Contracts -> Details]
           /\ enabled' \in [Users -> BOOLEAN]
           /\ Released(t)
<1> USE DEF RowState, ItemState, Finish, Released
<1>0. /\ clients \in [Clients -> RowState] /\ contracts \in [Contracts -> RowState]
      /\ tasks \in [Tasks -> ItemState] /\ subtasks \in [Subtasks -> ItemState]
      /\ details \in [Contracts -> Details] /\ enabled \in [Users -> BOOLEAN]
      /\ requests[t] \in Writes
  BY DEF TrackingTypeOK, TablesOK
<1>1. CASE CommitNewClient(t)
  BY <1>0, <1>1 DEF CommitNewClient
<1>2. CASE CommitNewContract(t)
  <2>1. requests[t].details \in Details
    BY <1>0, <1>2, WriteFields DEF CommitNewContract, Finish
  <2> QED BY <1>0, <1>2, <2>1 DEF CommitNewContract
<1>3. CASE CommitEditContract(t)
  <2>1. requests[t].details \in Details
    BY <1>0, <1>3, WriteFields DEF CommitEditContract, Finish
  <2> QED BY <1>0, <1>3, <2>1 DEF CommitEditContract, Column
<1>4. CASE CommitSetContract(t)
  <2>1. requests[t].to \in {"active", "archived"}
    BY <1>0, <1>4, WriteFields DEF CommitSetContract, Finish
  <2> QED BY <1>0, <1>4, <2>1 DEF CommitSetContract
<1>5. CASE CommitArchiveClient(t)
  BY <1>0, <1>5 DEF CommitArchiveClient
<1>6. CASE CommitActivateClient(t)
  BY <1>0, <1>6 DEF CommitActivateClient
<1>7. CASE CommitNewTask(t)
  BY <1>0, <1>7 DEF CommitNewTask
<1>8. CASE CommitNewSubtask(t)
  BY <1>0, <1>8 DEF CommitNewSubtask
<1>9. CASE CommitDeleteTask(t)
  BY <1>0, <1>9 DEF CommitDeleteTask
<1>10. CASE CommitDeleteSubtask(t)
  BY <1>0, <1>10 DEF CommitDeleteSubtask
<1>11. CASE CommitSetEnabled(t)
  <2>1. requests[t].to \in BOOLEAN
    BY <1>0, <1>11, WriteFields DEF CommitSetEnabled, Finish
  <2>2. enabled' = [enabled EXCEPT ![requests[t].user] = requests[t].to]
           \/ UNCHANGED enabled
    BY <1>11 DEF CommitSetEnabled
  <2>3. enabled' \in [Users -> BOOLEAN]
    BY <1>0, <2>1, <2>2
  <2> QED BY <1>0, <1>11, <2>3 DEF CommitSetEnabled
<1> QED
  BY <1>1, <1>2, <1>3, <1>4, <1>5, <1>6, <1>7, <1>8, <1>9, <1>10, <1>11
     DEF WorkspaceCommit

-----------------------------------------------------------------------------
LEMMA RequestsWriteNothing ==
    ASSUME NEW t \in Threads, EntryRequest(t) \/ WorkspaceRequest(t)
    PROVE  UNCHANGED tables
<1> SUFFICES \E w : Prepare(t, w)
  BY DEF Prepare
<1>1. CASE EntryRequest(t)
  <2>1. ASSUME NEW u, NEW k, NEW s, StartTimer(t, u, k, s) PROVE \E w : Prepare(t, w)
    BY <2>1 DEF StartTimer
  <2>2. ASSUME NEW u, NEW k, NEW s, NEW from, NEW to, NewTimeEntry(t, u, k, s, from, to)
        PROVE  \E w : Prepare(t, w)
    BY <2>2 DEF NewTimeEntry
  <2>3. ASSUME NEW e, NEW u, NEW k, NEW s, NEW from, NEW to,
               EditTimeEntry(t, e, u, k, s, from, to)
        PROVE  \E w : Prepare(t, w)
    BY <2>3 DEF EditTimeEntry
  <2>4. ASSUME NEW e, StopTimer(t, e) \/ DeleteTimeEntry(t, e)
        PROVE  \E w : Prepare(t, w)
    BY <2>4 DEF StopTimer, DeleteTimeEntry
  <2> QED
    BY <1>1, <2>1, <2>2, <2>3, <2>4 DEF EntryRequest
<1>2. CASE WorkspaceRequest(t)
  BY <1>2 DEF WorkspaceRequest, NewClient, NewContract, ArchiveClient, ActivateClient,
              EditContract, ArchiveContract, ActivateContract, NewTask, NewSubtask,
              DeleteTask, DeleteSubtask, ToggleUserEnabled
<1> QED
  BY <1>1, <1>2

(* Every step of time tracking keeps the tables typed and rebills nothing. *)
LEMMA TrackingStep ==
    ASSUME TrackingTypeOK, [TrackingNext]_dbVars
    PROVE  TrackingTypeOK' /\ BillingUntouched
<1>1. CASE UNCHANGED dbVars
  BY <1>1 DEF dbVars, tables, TrackingTypeOK, TablesOK, WritesOK, WriteOK,
              BillingUntouched
<1>2. CASE Tick
  <2>1. now' \in Time
    BY <1>2, TimeAssumption DEF Tick, Time, TrackingTypeOK, TablesOK
  <2> QED
    BY <1>2, <2>1 DEF Tick, tables, TrackingTypeOK, TablesOK, WritesOK, WriteOK,
                      BillingUntouched
<1>3. ASSUME NEW t \in Threads, EntryRequest(t) \/ WorkspaceRequest(t)
      PROVE  TrackingTypeOK' /\ BillingUntouched
  <2>1. UNCHANGED entries
    BY <1>3, RequestsWriteNothing DEF tables
  <2> QED
    BY <1>3, <2>1, EntryRequestTyped, WorkspaceRequestTyped DEF BillingUntouched
<1>4. ASSUME NEW t \in Threads, EntryCommit(t) \/ WorkspaceCommit(t)
      PROVE  TrackingTypeOK' /\ BillingUntouched
  <2>1. EntriesTyped' /\ BillingUntouched
    BY <1>4, EntryCommitEntries, WorkspaceCommitEntries
  <2>2. Released(t)
    BY <1>4, EntryCommitTables, WorkspaceCommitTables
  <2>3. requests' \in [Threads -> Writes] /\ WritesOK' /\ now' \in Time
    BY <2>1, <2>2, FinishTyped DEF BillingUntouched
  <2>4. /\ clients' \in [Clients -> RowState]
        /\ contracts' \in [Contracts -> RowState]
        /\ tasks' \in [Tasks -> ItemState]
        /\ subtasks' \in [Subtasks -> ItemState]
        /\ details' \in [Contracts -> Details]
        /\ enabled' \in [Users -> BOOLEAN]
    BY <1>4, EntryCommitTables, WorkspaceCommitTables DEF TrackingTypeOK, TablesOK
  <2> QED
    BY <2>1, <2>3, <2>4 DEF TrackingTypeOK, TablesOK, EntriesTyped
<1>5. ASSUME NEW t \in Threads, Abandon(t)
      PROVE  TrackingTypeOK' /\ BillingUntouched
  BY <1>5 DEF Abandon, tables, TrackingTypeOK, TablesOK, WritesOK, WriteOK, Writes,
              Idle, BillingUntouched
<1> QED
  BY <1>1, <1>2, <1>3, <1>4, <1>5 DEF TrackingNext

(* Whatever requests overlap or are lost, every table row and pending      *)
(* write set has its type, and no time tracking handler writes a billing   *)
(* column.                                                                 *)
THEOREM TrackingTypeCorrect == TrackingSpec => []TrackingTypeOK
<1>1. TrackingTypeOK /\ [TrackingNext]_dbVars => TrackingTypeOK'
  BY TrackingStep
<1> QED
  BY InitTyped, <1>1, PTL DEF TrackingSpec

-----------------------------------------------------------------------------
(* The safety of the tables *)

PendingOK(w) ==
    /\ w.op = "startTimer" =>
          /\ w.row.start <= now /\ w.row.stop <= now
          /\ contracts[ContractOf[w.row.task]] # "absent"
    /\ w.op = "newEntry" =>
          /\ w.row.start <= now /\ w.row.stop <= now
          /\ w.row.stop # Running
    /\ w.op = "updateEntry" =>
          /\ w.write.start <= now /\ w.write.stop <= now
          /\ w.read.visible
    /\ w.op = "setEnabled" =>
          /\ w.at <= now
          /\ \A e, f \in w.stopped : e = f

RowsOK == NoOverlap /\ TimesInOrder /\ SubtaskOfItsTask

SafeInv ==
    /\ TrackingTypeOK
    /\ RowsOK
    /\ \A t \in Threads : PendingOK(requests[t])

-----------------------------------------------------------------------------
(* Rows *)

LEMMA OverlapIsSymmetric ==
    ASSUME NEW a \in EntryRow, NEW b \in EntryRow
    PROVE  Overlap(a, b) <=> Overlap(b, a)
<1>1. /\ a.start \in Int /\ b.start \in Int
      /\ EndOf(a) \in Int /\ EndOf(b) \in Int
  BY TimeAssumption DEF EntryRow, Time, EndOf, Forever, Running
<1> QED
  BY <1>1 DEF Overlap

(* Two running timers of one worker would overlap.                         *)
LEMMA RunningTimersOverlap ==
    ASSUME NEW a \in EntryRow, NEW b \in EntryRow, a.stop = Running, b.stop = Running
    PROVE  Overlap(a, b)
<1>1. a.start \in 0..MaxTime /\ b.start \in 0..MaxTime
  BY DEF EntryRow, Time
<1> QED
  BY <1>1, TimeAssumption DEF Overlap, EndOf, Forever

LEMMA InsertKeepsRows ==
    ASSUME TrackingTypeOK, RowsOK, NEW row \in EntryRow, Insert(row), Insertable(row),
           row.visible, row.start <= now, row.stop <= now, UNCHANGED now
    PROVE  RowsOK'
<1>1. PICK e \in Entries \ DOMAIN entries : entries' = Put(entries, e, row)
  BY DEF Insert
<1>2. /\ DOMAIN entries' = DOMAIN entries \cup {e}
      /\ entries'[e] = row
      /\ \A f \in DOMAIN entries : entries'[f] = entries[f]
  BY <1>1 DEF Put
<1>3. VisibleEntries' = VisibleEntries \cup {e}
  BY <1>2 DEF VisibleEntries
<1>4. ASSUME NEW f \in VisibleEntries, entries[f].user = row.user
      PROVE  ~Overlap(row, entries[f]) /\ ~Overlap(entries[f], row)
  <2>1. ~Overlap(row, entries[f])
    BY <1>4 DEF Insertable, OverlapsAny, VisibleEntries
  <2>2. entries[f] \in EntryRow
    BY DEF VisibleEntries, TrackingTypeOK, TablesOK
  <2> QED
    BY <2>1, <2>2, OverlapIsSymmetric
<1>5. NoOverlap'
  <2> SUFFICES ASSUME NEW f \in VisibleEntries', NEW g \in VisibleEntries',
                      f # g, entries'[f].user = entries'[g].user
               PROVE  ~Overlap(entries'[f], entries'[g])
    BY DEF NoOverlap, Overlap, EndOf
  <2>1. CASE f = e
    BY <1>2, <1>3, <1>4, <2>1 DEF VisibleEntries
  <2>2. CASE g = e
    BY <1>2, <1>3, <1>4, <2>2 DEF VisibleEntries
  <2>3. CASE f # e /\ g # e
    BY <1>2, <1>3, <2>3 DEF RowsOK, NoOverlap, VisibleEntries
  <2> QED
    BY <2>1, <2>2, <2>3
<1>6. TimesInOrder'
  BY <1>2 DEF RowsOK, TimesInOrder, Insertable, StopsAfterStart
<1>7. SubtaskOfItsTask'
  BY <1>2 DEF RowsOK, SubtaskOfItsTask, Insertable, SubtaskBelongs
<1> QED
  BY <1>5, <1>6, <1>7 DEF RowsOK

LEMMA OneRowKeepsRows ==
    ASSUME TrackingTypeOK, RowsOK, NEW e \in DOMAIN entries, NEW row \in EntryRow,
           entries' = [entries EXCEPT ![e] = row], UNCHANGED now,
           StopsAfterStart(row), SubtaskBelongs(row), row.start <= now, row.stop <= now,
           row.visible => ~OverlapsAny(row, DOMAIN entries \ {e})
    PROVE  RowsOK'
<1>1. /\ DOMAIN entries' = DOMAIN entries
      /\ entries'[e] = row
      /\ \A f \in DOMAIN entries : f # e => entries'[f] = entries[f]
  OBVIOUS
<1>2. ASSUME row.visible, NEW f \in VisibleEntries, f # e, entries[f].user = row.user
      PROVE  ~Overlap(row, entries[f]) /\ ~Overlap(entries[f], row)
  <2>1. ~Overlap(row, entries[f])
    BY <1>2 DEF OverlapsAny, VisibleEntries
  <2>2. entries[f] \in EntryRow
    BY DEF VisibleEntries, TrackingTypeOK, TablesOK
  <2> QED
    BY <2>1, <2>2, OverlapIsSymmetric
<1>3. NoOverlap'
  <2> SUFFICES ASSUME NEW f \in VisibleEntries', NEW g \in VisibleEntries',
                      f # g, entries'[f].user = entries'[g].user
               PROVE  ~Overlap(entries'[f], entries'[g])
    BY DEF NoOverlap, Overlap, EndOf
  <2>0. \A h \in VisibleEntries' : IF h = e THEN row.visible ELSE h \in VisibleEntries
    BY <1>1 DEF VisibleEntries
  <2>1. CASE f = e
    BY <1>1, <1>2, <2>0, <2>1 DEF VisibleEntries
  <2>2. CASE g = e
    BY <1>1, <1>2, <2>0, <2>2 DEF VisibleEntries
  <2>3. CASE f # e /\ g # e
    BY <1>1, <2>0, <2>3 DEF RowsOK, NoOverlap, VisibleEntries
  <2> QED
    BY <2>1, <2>2, <2>3
<1>4. TimesInOrder'
  BY <1>1 DEF RowsOK, TimesInOrder, StopsAfterStart
<1>5. SubtaskOfItsTask'
  BY <1>1 DEF RowsOK, SubtaskOfItsTask, SubtaskBelongs
<1> QED
  BY <1>3, <1>4, <1>5 DEF RowsOK

LEMMA HideKeepsRows ==
    ASSUME TrackingTypeOK, RowsOK, NEW work, Hide(work), UNCHANGED now
    PROVE  RowsOK'
<1>1. ASSUME NEW row \in EntryRow
      PROVE  LET hidden == [row EXCEPT !.visible = FALSE]
             IN  /\ hidden.start = row.start /\ hidden.stop = row.stop
                 /\ hidden.task = row.task /\ hidden.subtask = row.subtask
                 /\ ~hidden.visible
  BY DEF EntryRow
<1>2. /\ DOMAIN entries' = DOMAIN entries
      /\ \A e \in DOMAIN entries :
            \/ entries'[e] = entries[e]
            \/ /\ entries'[e].start = entries[e].start
               /\ entries'[e].stop = entries[e].stop
               /\ entries'[e].task = entries[e].task
               /\ entries'[e].subtask = entries[e].subtask
               /\ ~entries'[e].visible
  BY <1>1 DEF Hide, TrackingTypeOK, TablesOK
<1>3. NoOverlap'
  <2>1. \A e \in VisibleEntries' : e \in VisibleEntries /\ entries'[e] = entries[e]
    BY <1>2 DEF VisibleEntries
  <2> QED
    BY <2>1 DEF RowsOK, NoOverlap, Overlap, EndOf
<1>4. TimesInOrder'
  BY <1>2 DEF RowsOK, TimesInOrder, StopsAfterStart
<1>5. SubtaskOfItsTask'
  BY <1>2 DEF RowsOK, SubtaskOfItsTask, SubtaskBelongs
<1> QED
  BY <1>3, <1>4, <1>5 DEF RowsOK

LEMMA SameRows ==
    ASSUME RowsOK, UNCHANGED <<entries, now>>
    PROVE  RowsOK'
BY DEF RowsOK, NoOverlap, TimesInOrder, SubtaskOfItsTask, VisibleEntries, Overlap,
       EndOf, StopsAfterStart, SubtaskBelongs

-----------------------------------------------------------------------------
(* Requests *)

LEMMA PrepareIsSafe ==
    ASSUME SafeInv, TrackingTypeOK', NEW t \in Threads, NEW w, PendingOK(w), Prepare(t, w)
    PROVE  SafeInv'
<1>1. RowsOK'
  BY SameRows DEF SafeInv, Prepare, tables
<1>2. \A u \in Threads : requests'[u] = w \/ requests'[u] = requests[u]
  BY DEF Prepare, SafeInv, TrackingTypeOK, TablesOK
<1>3. UNCHANGED <<now, contracts>>
  BY DEF Prepare, tables
<1>4. \A u \in Threads : PendingOK(requests[u])'
  BY <1>2, <1>3 DEF SafeInv, PendingOK
<1> QED
  BY <1>1, <1>4 DEF SafeInv

LEMMA EntryRequestIsSafe ==
    ASSUME SafeInv, NEW t \in Threads, EntryRequest(t)
    PROVE  SafeInv'
<1>0. /\ TrackingTypeOK /\ TrackingTypeOK'
      /\ entries \in [DOMAIN entries -> EntryRow]
      /\ now \in Int
      /\ Running \notin Time /\ Running <= now
      /\ Time \subseteq Int
  BY EntryRequestTyped, TimeAssumption
     DEF SafeInv, TrackingTypeOK, TablesOK, Time, Running
<1>1. ASSUME NEW u \in Users, NEW k \in Tasks, NEW s \in Subtasks \cup {NoSubtask},
             StartTimer(t, u, k, s)
      PROVE  SafeInv'
  <2> DEFINE w == [op |-> "startTimer", row |-> PendingEntry(u, k, s, now, Running)]
  <2>1. Prepare(t, w)
    BY <1>1 DEF StartTimer
  <2>2. PendingOK(w)
    BY <1>0, <1>1 DEF StartTimer, Operational, PendingEntry, PendingOK
  <2> QED
    BY <1>0, <2>1, <2>2, PrepareIsSafe
<1>2. ASSUME NEW u \in Users, NEW k \in Tasks, NEW s \in Subtasks \cup {NoSubtask},
             NEW from \in Time, NEW to \in Time, NewTimeEntry(t, u, k, s, from, to)
      PROVE  SafeInv'
  <2> DEFINE w == [op |-> "newEntry", row |-> PendingEntry(u, k, s, from, to)]
  <2>1. Prepare(t, w)
    BY <1>2 DEF NewTimeEntry
  <2>2. from <= now /\ to <= now
    BY <1>0, <1>2 DEF NewTimeEntry
  <2>3. PendingOK(w)
    BY <1>0, <2>2 DEF PendingEntry, PendingOK
  <2> QED
    BY <1>0, <2>1, <2>3, PrepareIsSafe
<1>3. ASSUME NEW e \in DOMAIN entries, NEW write,
             entries[e].visible, write.start <= now, write.stop <= now,
             Prepare(t, [op |-> "updateEntry", entry |-> e, read |-> entries[e],
                         write |-> write])
      PROVE  SafeInv'
  BY <1>0, <1>3, PrepareIsSafe DEF PendingOK
<1>4. ASSUME NEW u \in Users, NEW k \in Tasks, NEW s \in Subtasks \cup {NoSubtask},
             NEW from \in Time, NEW to \in Time, NEW e \in DOMAIN entries,
             EditTimeEntry(t, e, u, k, s, from, to)
      PROVE  SafeInv'
  <2> DEFINE write == [entries[e] EXCEPT !.user = u, !.task = k,
                          !.subtask = AssignedSubtask(e, s), !.start = from, !.stop = to]
  <2>1. write.start = from /\ write.stop = to
    BY <1>0 DEF EntryRow
  <2>2. /\ from <= now /\ to <= now
        /\ entries[e].visible
        /\ Prepare(t, [op |-> "updateEntry", entry |-> e, read |-> entries[e],
                       write |-> write])
    BY <1>0, <1>4 DEF EditTimeEntry, Correctable, VisibleEntries
  <2> HIDE DEF write
  <2> QED
    BY <1>3, <2>1, <2>2
<1>5. ASSUME NEW e \in DOMAIN entries, StopTimer(t, e) PROVE SafeInv'
  <2> DEFINE write == [entries[e] EXCEPT !.stop = Later(now, entries[e].start)]
  <2>1. write.start = entries[e].start /\ write.stop = Later(now, entries[e].start)
    BY <1>0 DEF EntryRow
  <2>2. entries[e].start <= now
    BY DEF SafeInv, RowsOK, TimesInOrder
  <2>3. Later(now, entries[e].start) <= now
    BY <1>0, <2>2 DEF Later
  <2>4. /\ entries[e].visible
        /\ Prepare(t, [op |-> "updateEntry", entry |-> e, read |-> entries[e],
                       write |-> write])
    BY <1>5 DEF StopTimer, VisibleEntries
  <2> HIDE DEF write
  <2> QED
    BY <1>3, <2>1, <2>2, <2>3, <2>4
<1>6. ASSUME NEW e \in DOMAIN entries, DeleteTimeEntry(t, e) PROVE SafeInv'
  <2> DEFINE write == [entries[e] EXCEPT !.visible = FALSE]
  <2>1. write.start = entries[e].start /\ write.stop = entries[e].stop
    BY <1>0 DEF EntryRow
  <2>2. entries[e].start <= now /\ entries[e].stop <= now
    BY DEF SafeInv, RowsOK, TimesInOrder
  <2>3. /\ entries[e].visible
        /\ Prepare(t, [op |-> "updateEntry", entry |-> e, read |-> entries[e],
                       write |-> write])
    BY <1>6 DEF DeleteTimeEntry, Correctable, VisibleEntries
  <2> HIDE DEF write
  <2> QED
    BY <1>3, <2>1, <2>2, <2>3
<1> QED
  BY <1>1, <1>2, <1>4, <1>5, <1>6 DEF EntryRequest

LEMMA WorkspaceRequestIsSafe ==
    ASSUME SafeInv, NEW t \in Threads, WorkspaceRequest(t)
    PROVE  SafeInv'
<1>0. TrackingTypeOK' /\ now \in Int
  BY WorkspaceRequestTyped, TimeAssumption DEF SafeInv, TrackingTypeOK, TablesOK, Time
<1>1. ASSUME NEW w, Prepare(t, w),
             w.op \notin {"startTimer", "newEntry", "updateEntry", "setEnabled"}
      PROVE  SafeInv'
  BY <1>0, <1>1, PrepareIsSafe DEF PendingOK
<1>2. ASSUME NEW u \in Users, ToggleUserEnabled(t, u) PROVE SafeInv'
  <2> DEFINE stopped == IF enabled[u] THEN ActiveTimersOf(u) ELSE {}
             w == [op |-> "setEnabled", user |-> u, to |-> ~enabled[u], at |-> now,
                   stopped |-> stopped]
  <2>1. Prepare(t, w)
    BY <1>2 DEF ToggleUserEnabled
  <2>2. ASSUME NEW e \in ActiveTimersOf(u), NEW f \in ActiveTimersOf(u), e # f
        PROVE  FALSE
    <3>1. /\ e \in VisibleEntries /\ f \in VisibleEntries
          /\ entries[e].user = entries[f].user
          /\ entries[e].stop = Running /\ entries[f].stop = Running
      BY DEF ActiveTimersOf
    <3>2. entries[e] \in EntryRow /\ entries[f] \in EntryRow
      BY <3>1 DEF VisibleEntries, SafeInv, TrackingTypeOK, TablesOK
    <3>3. Overlap(entries[e], entries[f])
      BY <3>1, <3>2, RunningTimersOverlap
    <3> QED
      BY <2>2, <3>1, <3>3 DEF SafeInv, RowsOK, NoOverlap
  <2>3. PendingOK(w)
    <3>1. \A e, f \in stopped : e = f
      BY <2>2
    <3> HIDE DEF stopped
    <3> QED
      BY <1>0, <3>1 DEF PendingOK
  <2> HIDE DEF w
  <2> QED
    BY <1>0, <2>1, <2>3, PrepareIsSafe
<1>3. ASSUME NEW c \in Clients, NEW d \in Details,
             NewContract(t, c, d)
      PROVE  SafeInv'
  BY <1>1, <1>3 DEF NewContract
<1>4. ASSUME NEW c \in Contracts, NEW d \in Details,
             EditContract(t, c, d)
      PROVE  SafeInv'
  BY <1>1, <1>4 DEF EditContract
<1>5. ASSUME NEW k \in Tasks, NewSubtask(t, k) \/ DeleteTask(t, k) PROVE SafeInv'
  BY <1>1, <1>5 DEF NewSubtask, DeleteTask
<1>6. ASSUME NEW s \in Subtasks, DeleteSubtask(t, s) PROVE SafeInv'
  BY <1>1, <1>6 DEF DeleteSubtask
<1>7. ASSUME NewClient(t) PROVE SafeInv'
  BY <1>1, <1>7 DEF NewClient
<1>8. ASSUME NEW c \in Clients, ArchiveClient(t, c) \/ ActivateClient(t, c) PROVE SafeInv'
  BY <1>1, <1>8 DEF ArchiveClient, ActivateClient
<1>9. ASSUME NEW c \in Contracts,
             ArchiveContract(t, c) \/ ActivateContract(t, c) \/ NewTask(t, c)
      PROVE  SafeInv'
  BY <1>1, <1>9 DEF ArchiveContract, ActivateContract, NewTask
<1> QED
  BY <1>2, <1>3, <1>4, <1>5, <1>6, <1>7, <1>8, <1>9 DEF WorkspaceRequest

-----------------------------------------------------------------------------
(* Commits *)

LEMMA EntryCommitKeepsRows ==
    ASSUME SafeInv, NEW t \in Threads, EntryCommit(t)
    PROVE  RowsOK'
<1>0. /\ TrackingTypeOK /\ RowsOK
      /\ entries \in [DOMAIN entries -> EntryRow]
      /\ requests[t] \in Writes
      /\ WriteOK(requests[t]) /\ PendingOK(requests[t])
      /\ UNCHANGED now
  BY EntryCommitTables DEF SafeInv, TrackingTypeOK, TablesOK, WritesOK, Released
<1>1. CASE CommitStartTimer(t)
  <2>1. requests[t].op = "startTimer"
    BY <1>1 DEF CommitStartTimer, Finish
  <2>2. (Insert(requests[t].row) /\ Insertable(requests[t].row)) \/ UNCHANGED entries
    BY <1>1 DEF CommitStartTimer, TimerAccepted
  <2> QED
    BY <1>0, <2>1, <2>2, WriteFields, InsertKeepsRows, SameRows DEF WriteOK, PendingOK
<1>2. CASE CommitNewTimeEntry(t)
  <2>1. requests[t].op = "newEntry"
    BY <1>2 DEF CommitNewTimeEntry, Finish
  <2>2. (Insert(requests[t].row) /\ Insertable(requests[t].row)) \/ UNCHANGED entries
    BY <1>2 DEF CommitNewTimeEntry
  <2> QED
    BY <1>0, <2>1, <2>2, WriteFields, InsertKeepsRows, SameRows DEF WriteOK, PendingOK
<1>3. CASE CommitUpdateTimeEntry(t)
  <2> DEFINE w == requests[t]
             e == w.entry
             row == Merge(entries[e], w.read, w.write)
  <2>1. w.op = "updateEntry"
    BY <1>3 DEF CommitUpdateTimeEntry, Finish
  <2>2. /\ e \in DOMAIN entries
        /\ w.read \in EntryRow /\ w.write \in EntryRow
        /\ w.read.billing = w.write.billing /\ w.read.invoice = w.write.invoice
        /\ w.read.visible
        /\ w.write.start <= now /\ w.write.stop <= now
    BY <1>0, <2>1, WriteFields DEF WriteOK, PendingOK
  <2>3. /\ row \in EntryRow
        /\ \A column \in {"user", "task", "subtask", "start", "stop", "visible"} :
              row[column] = Column(entries[e][column], w.read[column], w.write[column])
    BY <1>0, <2>2, MergeTyped DEF Merge, EntryRow
  <2>4. \/ /\ entries' = [entries EXCEPT ![e] = row]
           /\ Updatable(e, w.read, w.write, row)
        \/ UNCHANGED entries
    BY <1>3 DEF CommitUpdateTimeEntry
  <2> HIDE DEF row, w, e
  <2>5. ASSUME entries' = [entries EXCEPT ![e] = row], Updatable(e, w.read, w.write, row)
        PROVE  RowsOK'
    <3>1. row.start <= now /\ row.stop <= now
      <4>1. entries[e].start <= now /\ entries[e].stop <= now
        BY <1>0, <2>2 DEF RowsOK, TimesInOrder
      <4> QED
        BY <2>2, <2>3, <4>1 DEF Column
    <3>2. SubtaskBelongs(row)
      <4>1. CASE w.read.task # w.write.task \/ w.read.subtask # w.write.subtask
        BY <2>5, <4>1 DEF Updatable
      <4>2. CASE w.read.task = w.write.task /\ w.read.subtask = w.write.subtask
        <5>1. row.task = entries[e].task /\ row.subtask = entries[e].subtask
          BY <2>3, <4>2 DEF Column
        <5> QED
          BY <1>0, <2>2, <5>1 DEF RowsOK, SubtaskOfItsTask, SubtaskBelongs
      <4> QED
        BY <4>1, <4>2
    <3>3. ASSUME row.visible PROVE ~OverlapsAny(row, DOMAIN entries \ {e})
      <4>1. CASE \/ w.read.user # w.write.user \/ w.read.start # w.write.start
                 \/ w.read.stop # w.write.stop
        BY <2>5, <4>1 DEF Updatable
      <4>2. CASE /\ w.read.user = w.write.user /\ w.read.start = w.write.start
                 /\ w.read.stop = w.write.stop
        <5>1. /\ row.user = entries[e].user /\ row.start = entries[e].start
              /\ row.stop = entries[e].stop
          BY <2>3, <4>2 DEF Column
        <5>2. entries[e].visible
          BY <2>2, <2>3, <3>3 DEF Column
        <5> QED
          BY <1>0, <2>2, <5>1, <5>2
             DEF RowsOK, NoOverlap, VisibleEntries, OverlapsAny, Overlap, EndOf
      <4> QED
        BY <4>1, <4>2
    <3>4. StopsAfterStart(row)
      BY <2>5 DEF Updatable
    <3> QED
      BY <1>0, <2>2, <2>3, <2>5, <3>1, <3>2, <3>3, <3>4, OneRowKeepsRows
  <2> QED
    BY <1>0, <2>4, <2>5, SameRows
<1> QED
  BY <1>1, <1>2, <1>3 DEF EntryCommit

LEMMA WorkspaceCommitKeepsRows ==
    ASSUME SafeInv, NEW t \in Threads, WorkspaceCommit(t)
    PROVE  RowsOK'
<1>0. /\ TrackingTypeOK /\ RowsOK
      /\ entries \in [DOMAIN entries -> EntryRow]
      /\ requests[t] \in Writes
      /\ WriteOK(requests[t]) /\ PendingOK(requests[t])
      /\ UNCHANGED now
  BY WorkspaceCommitTables DEF SafeInv, TrackingTypeOK, TablesOK, WritesOK, Released
<1>1. CASE \/ CommitNewClient(t) \/ CommitNewContract(t) \/ CommitEditContract(t)
           \/ CommitSetContract(t) \/ CommitArchiveClient(t) \/ CommitActivateClient(t)
           \/ CommitNewTask(t) \/ CommitNewSubtask(t)
  BY <1>0, <1>1, SameRows
     DEF CommitNewClient, CommitNewContract, CommitEditContract, CommitSetContract,
         CommitArchiveClient, CommitActivateClient, CommitNewTask, CommitNewSubtask
<1>2. CASE CommitDeleteTask(t) \/ CommitDeleteSubtask(t)
  BY <1>0, <1>2, HideKeepsRows DEF CommitDeleteTask, CommitDeleteSubtask
<1>3. CASE CommitSetEnabled(t)
  <2> DEFINE w == requests[t]
             Stopped(e) == [entries[e] EXCEPT !.stop = w.at]
  <2>1. /\ w.at \in Time /\ w.at <= now
        /\ w.stopped \subseteq DOMAIN entries
        /\ \A e, f \in w.stopped : e = f
    BY <1>0, <1>3, WriteFields DEF CommitSetEnabled, Finish, WriteOK, PendingOK
  <2>2. \/ UNCHANGED entries
        \/ /\ entries' = [e \in DOMAIN entries |->
                             IF e \in w.stopped THEN Stopped(e) ELSE entries[e]]
           /\ \A e \in w.stopped : /\ StopsAfterStart(Stopped(e))
                                   /\ ~OverlapsAny(Stopped(e), DOMAIN entries \ {e})
    BY <1>3 DEF CommitSetEnabled
  <2>3. ASSUME NEW e \in w.stopped,
               entries' = [f \in DOMAIN entries |->
                              IF f \in w.stopped THEN Stopped(f) ELSE entries[f]],
               StopsAfterStart(Stopped(e)),
               ~OverlapsAny(Stopped(e), DOMAIN entries \ {e})
        PROVE  RowsOK'
    <3> DEFINE row == Stopped(e)
    <3>1. e \in DOMAIN entries
      BY <2>1
    <3>2. /\ row \in EntryRow
          /\ row.start = entries[e].start /\ row.stop = w.at
          /\ row.task = entries[e].task /\ row.subtask = entries[e].subtask
      BY <1>0, <2>1, <3>1 DEF EntryRow
    <3>3. entries' = [entries EXCEPT ![e] = row]
      BY <1>0, <2>1, <2>3
    <3>4. StopsAfterStart(row) /\ ~OverlapsAny(row, DOMAIN entries \ {e})
      BY <2>3
    <3> HIDE DEF row
    <3>5. SubtaskBelongs(row) /\ row.start <= now /\ row.stop <= now
      BY <1>0, <2>1, <3>1, <3>2 DEF RowsOK, SubtaskOfItsTask, SubtaskBelongs, TimesInOrder
    <3> QED
      BY <1>0, <3>1, <3>2, <3>3, <3>4, <3>5, OneRowKeepsRows
  <2>4. ASSUME w.stopped = {},
               entries' = [f \in DOMAIN entries |->
                              IF f \in w.stopped THEN Stopped(f) ELSE entries[f]]
        PROVE  RowsOK'
    <3>1. UNCHANGED entries
      BY <1>0, <2>4
    <3> QED
      BY <1>0, <3>1, SameRows
  <2> HIDE DEF Stopped, w
  <2> QED
    BY <1>0, <2>2, <2>3, <2>4, SameRows
<1> QED
  BY <1>1, <1>2, <1>3 DEF WorkspaceCommit

(* No contract ceases to exist, and only the archive is left for active.   *)
LEMMA ContractsRemain ==
    ASSUME TrackingTypeOK, NEW t \in Threads, EntryCommit(t) \/ WorkspaceCommit(t)
    PROVE  \A c \in Contracts : contracts[c] # "absent" => contracts'[c] # "absent"
<1>0. contracts \in [Contracts -> RowState] /\ requests[t] \in Writes
  BY DEF TrackingTypeOK, TablesOK
<1>1. CASE CommitNewContract(t)
  BY <1>0, <1>1 DEF CommitNewContract
<1>2. CASE CommitSetContract(t)
  <2>1. requests[t].to \in {"active", "archived"}
    BY <1>0, <1>2, WriteFields DEF CommitSetContract, Finish
  <2> QED
    BY <1>0, <1>2, <2>1 DEF CommitSetContract
<1>3. CASE CommitArchiveClient(t)
  BY <1>0, <1>3 DEF CommitArchiveClient
<1>4. CASE EntryCommit(t)
  BY <1>4, EntryCommitTables
<1>5. CASE \/ CommitNewClient(t) \/ CommitEditContract(t) \/ CommitActivateClient(t)
           \/ CommitNewTask(t) \/ CommitNewSubtask(t)
           \/ CommitDeleteTask(t) \/ CommitDeleteSubtask(t) \/ CommitSetEnabled(t)
  BY <1>5 DEF CommitNewClient, CommitEditContract, CommitActivateClient, CommitNewTask,
              CommitNewSubtask, CommitDeleteTask, CommitDeleteSubtask, CommitSetEnabled
<1> QED
  BY <1>1, <1>2, <1>3, <1>4, <1>5 DEF WorkspaceCommit

-----------------------------------------------------------------------------
(* The induction *)

LEMMA InitIsSafe == Init => SafeInv
<1> SUFFICES ASSUME Init PROVE SafeInv
  OBVIOUS
<1>1. DOMAIN entries = {} /\ \A t \in Threads : requests[t].op = "idle"
  BY DEF Init, Idle
<1>2. RowsOK
  BY <1>1 DEF RowsOK, NoOverlap, TimesInOrder, SubtaskOfItsTask, VisibleEntries
<1>3. \A t \in Threads : PendingOK(requests[t])
  BY <1>1 DEF PendingOK
<1> QED
  BY <1>2, <1>3, InitTyped DEF SafeInv

LEMMA StepIsSafe ==
    ASSUME SafeInv, [TrackingNext]_dbVars PROVE SafeInv'
<1>0. TrackingTypeOK'
  BY TrackingStep DEF SafeInv
<1>1. CASE UNCHANGED dbVars
  BY <1>0, <1>1, SameRows DEF SafeInv, PendingOK, dbVars, tables
<1>2. CASE Tick
  <2>0. /\ now \in Int /\ now' = now + 1 /\ UNCHANGED <<tables, requests>>
        /\ entries \in [DOMAIN entries -> EntryRow] /\ Time \subseteq Int
        /\ \A t \in Threads : requests[t] \in Writes
    BY <1>2, TimeAssumption DEF Tick, SafeInv, TrackingTypeOK, TablesOK, Time
  <2>1. NoOverlap' /\ SubtaskOfItsTask'
    BY <2>0 DEF SafeInv, RowsOK, NoOverlap, SubtaskOfItsTask, VisibleEntries, Overlap,
                EndOf, SubtaskBelongs, tables
  <2>2. TimesInOrder'
    <3>1. \A e \in DOMAIN entries : entries[e].start \in Int /\ entries[e].stop \in Int
      BY <2>0 DEF EntryRow, Running
    <3> QED
      BY <2>0, <3>1 DEF SafeInv, RowsOK, TimesInOrder, StopsAfterStart, tables
  <2>3. ASSUME NEW t \in Threads PROVE PendingOK(requests[t])'
    <3> DEFINE w == requests[t]
    <3>1. PendingOK(w) /\ w \in Writes
      BY <2>0 DEF SafeInv
    <3>2. /\ w.op \in {"startTimer", "newEntry"} => w.row.start \in Int /\ w.row.stop \in Int
          /\ w.op = "updateEntry" => w.write.start \in Int /\ w.write.stop \in Int
          /\ w.op = "setEnabled" => w.at \in Int
      BY <2>0, <3>1, WriteFields DEF EntryRow, Running
    <3>3. requests'[t] = w /\ contracts' = contracts
      BY <2>0 DEF tables
    <3> HIDE DEF w
    <3> QED
      BY <2>0, <3>1, <3>2, <3>3 DEF PendingOK
  <2> QED
    BY <1>0, <2>1, <2>2, <2>3 DEF SafeInv, RowsOK
<1>3. ASSUME NEW t \in Threads, EntryRequest(t) \/ WorkspaceRequest(t)
      PROVE  SafeInv'
  BY <1>3, EntryRequestIsSafe, WorkspaceRequestIsSafe
<1>4. ASSUME NEW t \in Threads, EntryCommit(t) \/ WorkspaceCommit(t)
      PROVE  SafeInv'
  <2>1. RowsOK'
    BY <1>4, EntryCommitKeepsRows, WorkspaceCommitKeepsRows
  <2>2. requests' = [requests EXCEPT ![t] = Idle] /\ UNCHANGED now
    BY <1>4, EntryCommitTables, WorkspaceCommitTables DEF SafeInv, Released
  <2>3. ASSUME NEW u \in Threads PROVE PendingOK(requests[u])'
    <3>1. CASE u = t
      BY <2>2, <3>1 DEF PendingOK, Idle, SafeInv, TrackingTypeOK, TablesOK
    <3>2. CASE u # t
      <4> DEFINE w == requests[u]
      <4>1. requests'[u] = w /\ PendingOK(w) /\ w \in Writes
        BY <2>2, <3>2 DEF SafeInv, TrackingTypeOK, TablesOK
      <4>2. w.op = "startTimer" => ContractOf[w.row.task] \in Contracts
        BY <4>1, WriteFields, ParentAssumption DEF EntryRow
      <4>3. \A c \in Contracts : contracts[c] # "absent" => contracts'[c] # "absent"
        BY <1>4, ContractsRemain DEF SafeInv
      <4> HIDE DEF w
      <4> QED
        BY <2>2, <4>1, <4>2, <4>3 DEF PendingOK
    <3> QED
      BY <3>1, <3>2
  <2> QED
    BY <1>0, <2>1, <2>3 DEF SafeInv
<1>5. ASSUME NEW t \in Threads, Abandon(t)
      PROVE  SafeInv'
  <2>1. RowsOK'
    BY <1>5, SameRows DEF Abandon, SafeInv, tables
  <2>2. \A u \in Threads : requests'[u] = Idle \/ requests'[u] = requests[u]
    BY <1>5 DEF Abandon, SafeInv, TrackingTypeOK, TablesOK
  <2>3. \A u \in Threads : PendingOK(requests[u])'
    BY <1>5, <2>2 DEF Abandon, SafeInv, PendingOK, Idle, tables
  <2> QED
    BY <1>0, <2>1, <2>3 DEF SafeInv
<1> QED
  BY <1>1, <1>2, <1>3, <1>4, <1>5 DEF TrackingNext

LEMMA AlwaysSafe == TrackingSpec => []SafeInv
<1>1. SafeInv /\ [TrackingNext]_dbVars => SafeInv'
  BY StepIsSafe
<1> QED
  BY InitIsSafe, <1>1, PTL DEF TrackingSpec

(* Whatever requests overlap, and however many threads there are, no two   *)
(* visible sessions of one worker overlap.                                 *)
THEOREM SessionsNeverOverlap == TrackingSpec => []NoOverlap
<1>1. SafeInv => NoOverlap
  BY DEF SafeInv, RowsOK
<1> QED
  BY AlwaysSafe, <1>1, PTL

(* Every session ends no earlier than it started and never in the future.  *)
THEOREM TimesStayInOrder == TrackingSpec => []TimesInOrder
<1>1. SafeInv => TimesInOrder
  BY DEF SafeInv, RowsOK
<1> QED
  BY AlwaysSafe, <1>1, PTL

(* Every session's subtask always belongs to its task.                     *)
THEOREM SubtasksStayWithTheirTask == TrackingSpec => []SubtaskOfItsTask
<1>1. SafeInv => SubtaskOfItsTask
  BY DEF SafeInv, RowsOK
<1> QED
  BY AlwaysSafe, <1>1, PTL

-----------------------------------------------------------------------------
(* Action properties *)

(* What a commit does to a session that is there or that it adds           *)
SessionsKept ==
    /\ \A e \in DOMAIN entries : ~entries[e].visible => ~entries'[e].visible
    /\ \A e \in DOMAIN entries' \ DOMAIN entries :
          entries'[e].stop = Running
              => contracts[ContractOf[entries'[e].task]] = "active"

LEMMA UnchangedSessionsKept ==
    ASSUME UNCHANGED entries PROVE SessionsKept
BY DEF SessionsKept

LEMMA EntryCommitKeepsSessions ==
    ASSUME SafeInv, NEW t \in Threads, EntryCommit(t)
    PROVE  SessionsKept
<1>0. /\ entries \in [DOMAIN entries -> EntryRow]
      /\ contracts \in [Contracts -> RowState]
      /\ requests[t] \in Writes
      /\ WriteOK(requests[t]) /\ PendingOK(requests[t])
  BY DEF SafeInv, TrackingTypeOK, TablesOK, WritesOK
<1>1. ASSUME NEW row \in EntryRow, Insert(row),
             row.stop = Running => contracts[ContractOf[row.task]] = "active"
      PROVE  SessionsKept
  <2>1. PICK e \in Entries \ DOMAIN entries : entries' = Put(entries, e, row)
    BY <1>1 DEF Insert
  <2>2. /\ DOMAIN entries' = DOMAIN entries \cup {e}
        /\ entries'[e] = row
        /\ \A f \in DOMAIN entries : entries'[f] = entries[f]
    BY <2>1 DEF Put
  <2> QED
    BY <1>1, <2>2 DEF SessionsKept
<1>2. CASE CommitStartTimer(t)
  <2> DEFINE row == requests[t].row
             c == ContractOf[row.task]
  <2>1. requests[t].op = "startTimer"
    BY <1>2 DEF CommitStartTimer, Finish
  <2>2. row \in EntryRow /\ contracts[c] # "absent"
    BY <1>0, <2>1, WriteFields DEF PendingOK
  <2>3. c \in Contracts
    BY <2>2, ParentAssumption DEF EntryRow
  <2>4. (Insert(row) /\ contracts[c] # "archived") \/ UNCHANGED entries
    BY <1>2 DEF CommitStartTimer, TimerAccepted
  <2>5. contracts[c] # "archived" => contracts[c] = "active"
    BY <1>0, <2>2, <2>3 DEF RowState
  <2> HIDE DEF c
  <2> QED
    BY <1>1, <2>2, <2>4, <2>5, UnchangedSessionsKept DEF c
<1>3. CASE CommitNewTimeEntry(t)
  <2>1. requests[t].op = "newEntry"
    BY <1>3 DEF CommitNewTimeEntry, Finish
  <2>2. requests[t].row \in EntryRow /\ requests[t].row.stop # Running
    BY <1>0, <2>1, WriteFields DEF PendingOK
  <2>3. Insert(requests[t].row) \/ UNCHANGED entries
    BY <1>3 DEF CommitNewTimeEntry
  <2> QED
    BY <1>1, <2>2, <2>3, UnchangedSessionsKept
<1>4. CASE CommitUpdateTimeEntry(t)
  <2> DEFINE w == requests[t]
             row == Merge(entries[w.entry], w.read, w.write)
  <2>1. w.op = "updateEntry"
    BY <1>4 DEF CommitUpdateTimeEntry, Finish
  <2>2. /\ w.entry \in DOMAIN entries
        /\ w.read \in EntryRow /\ w.write \in EntryRow
        /\ w.read.visible
    BY <1>0, <2>1, WriteFields DEF WriteOK, PendingOK
  <2>3. row.visible = Column(entries[w.entry].visible, w.read.visible, w.write.visible)
    BY <1>0, <2>2 DEF Merge, EntryRow
  <2>4. row.visible => entries[w.entry].visible
    <3>1. w.write.visible \in BOOLEAN /\ w.read.visible \in BOOLEAN
      BY <2>2 DEF EntryRow
    <3>2. CASE w.read.visible = w.write.visible
      BY <2>3, <3>2 DEF Column
    <3>3. CASE w.read.visible # w.write.visible
      <4>1. row.visible = w.write.visible
        BY <2>3, <3>3 DEF Column
      <4>2. ~w.write.visible
        BY <2>2, <3>1, <3>3
      <4> QED
        BY <4>1, <4>2
    <3> QED
      BY <3>2, <3>3
  <2>5. entries' = [entries EXCEPT ![w.entry] = row] \/ UNCHANGED entries
    BY <1>4 DEF CommitUpdateTimeEntry
  <2> HIDE DEF row
  <2> QED
    BY <1>0, <2>2, <2>4, <2>5, UnchangedSessionsKept DEF SessionsKept
<1> QED
  BY <1>2, <1>3, <1>4 DEF EntryCommit

LEMMA WorkspaceCommitKeepsSessions ==
    ASSUME SafeInv, NEW t \in Threads, WorkspaceCommit(t)
    PROVE  SessionsKept
<1>0. entries \in [DOMAIN entries -> EntryRow]
  BY DEF SafeInv, TrackingTypeOK, TablesOK
<1>1. CASE \/ CommitNewClient(t) \/ CommitNewContract(t) \/ CommitEditContract(t)
           \/ CommitSetContract(t) \/ CommitArchiveClient(t) \/ CommitActivateClient(t)
           \/ CommitNewTask(t) \/ CommitNewSubtask(t)
  BY <1>1, UnchangedSessionsKept
     DEF CommitNewClient, CommitNewContract, CommitEditContract, CommitSetContract,
         CommitArchiveClient, CommitActivateClient, CommitNewTask, CommitNewSubtask
<1>2. ASSUME NEW work, Hide(work) PROVE SessionsKept
  <2>1. DOMAIN entries' = DOMAIN entries
    BY <1>2 DEF Hide
  <2>2. ASSUME NEW e \in DOMAIN entries, ~entries[e].visible PROVE ~entries'[e].visible
    BY <1>0, <1>2, <2>2 DEF Hide, EntryRow
  <2> QED
    BY <2>1, <2>2 DEF SessionsKept
<1>3. CASE CommitDeleteTask(t) \/ CommitDeleteSubtask(t)
  BY <1>2, <1>3 DEF CommitDeleteTask, CommitDeleteSubtask
<1>4. CASE CommitSetEnabled(t)
  <2> DEFINE w == requests[t]
             Stopped(e) == [entries[e] EXCEPT !.stop = w.at]
  <2>1. \/ UNCHANGED entries
        \/ entries' = [e \in DOMAIN entries |->
                          IF e \in w.stopped THEN Stopped(e) ELSE entries[e]]
    BY <1>4 DEF CommitSetEnabled
  <2>2. \A e \in DOMAIN entries : Stopped(e).visible = entries[e].visible
    BY <1>0 DEF EntryRow
  <2> HIDE DEF Stopped, w
  <2> QED
    BY <2>1, <2>2, UnchangedSessionsKept DEF SessionsKept
<1> QED
  BY <1>1, <1>3, <1>4 DEF WorkspaceCommit

ItemsKept ==
    /\ \A k \in Tasks : tasks[k] = "hidden" => tasks'[k] = "hidden"
    /\ \A s \in Subtasks : subtasks[s] = "hidden" => subtasks'[s] = "hidden"

LEMMA WorkspaceCommitKeepsItems ==
    ASSUME SafeInv, NEW t \in Threads, WorkspaceCommit(t)
    PROVE  ItemsKept
<1>0. tasks \in [Tasks -> ItemState] /\ subtasks \in [Subtasks -> ItemState]
  BY DEF SafeInv, TrackingTypeOK, TablesOK
<1>1. CASE CommitNewTask(t)
  BY <1>0, <1>1 DEF CommitNewTask, ItemsKept
<1>2. CASE CommitNewSubtask(t)
  BY <1>0, <1>2 DEF CommitNewSubtask, ItemsKept
<1>3. CASE CommitDeleteTask(t)
  BY <1>0, <1>3 DEF CommitDeleteTask, ItemsKept
<1>4. CASE CommitDeleteSubtask(t)
  BY <1>0, <1>4 DEF CommitDeleteSubtask, ItemsKept
<1>5. CASE \/ CommitNewClient(t) \/ CommitNewContract(t) \/ CommitEditContract(t)
           \/ CommitSetContract(t) \/ CommitArchiveClient(t) \/ CommitActivateClient(t)
           \/ CommitSetEnabled(t)
  BY <1>5 DEF CommitNewClient, CommitNewContract, CommitEditContract, CommitSetContract,
              CommitArchiveClient, CommitActivateClient, CommitSetEnabled, ItemsKept
<1> QED
  BY <1>1, <1>2, <1>3, <1>4, <1>5 DEF WorkspaceCommit

LEMMA StepKeeps ==
    ASSUME SafeInv, [TrackingNext]_dbVars PROVE SessionsKept /\ ItemsKept
<1>1. CASE UNCHANGED tables
  BY <1>1, UnchangedSessionsKept DEF tables, ItemsKept
<1>2. ASSUME NEW t \in Threads, EntryRequest(t) \/ WorkspaceRequest(t) PROVE UNCHANGED tables
  BY <1>2, RequestsWriteNothing
<1>3. ASSUME NEW t \in Threads, EntryCommit(t) PROVE SessionsKept /\ ItemsKept
  BY <1>3, EntryCommitKeepsSessions, EntryCommitTables DEF ItemsKept
<1>4. ASSUME NEW t \in Threads, WorkspaceCommit(t) PROVE SessionsKept /\ ItemsKept
  BY <1>4, WorkspaceCommitKeepsSessions, WorkspaceCommitKeepsItems
<1> QED
  BY <1>1, <1>2, <1>3, <1>4 DEF TrackingNext, Tick, Abandon, dbVars

(* What was deleted stays deleted: a request that read a session before it *)
(* was deleted cannot bring it back, nor can any other.                    *)
THEOREM DeletionIsFinal == TrackingSpec => DeletedStaysDeleted
<1> DEFINE Kept ==
      /\ \A e \in DOMAIN entries : ~entries[e].visible => ~entries'[e].visible
      /\ \A k \in Tasks : tasks[k] = "hidden" => tasks'[k] = "hidden"
      /\ \A s \in Subtasks : subtasks[s] = "hidden" => subtasks'[s] = "hidden"
<1>1. SafeInv /\ [TrackingNext]_dbVars => [Kept]_dbVars
  BY StepKeeps DEF SessionsKept, ItemsKept
<1> QED
  BY AlwaysSafe, <1>1, PTL DEF TrackingSpec, DeletedStaysDeleted

(* No timer ever starts on a contract that is archived when it is stored,  *)
(* however long ago the handler looked at the contract.                    *)
THEOREM NoTimerStartsOnAnArchive == TrackingSpec => TimersStartOnActiveContracts
<1> DEFINE Started ==
      \A e \in DOMAIN entries' :
          e \notin DOMAIN entries /\ entries'[e].stop = Running
              => contracts[ContractOf[entries'[e].task]] = "active"
<1>1. SafeInv /\ [TrackingNext]_dbVars => [Started]_dbVars
  BY StepKeeps DEF SessionsKept
<1> QED
  BY AlwaysSafe, <1>1, PTL DEF TrackingSpec, TimersStartOnActiveContracts

-----------------------------------------------------------------------------
(* What requests that overlap leave of archiving, disabling and deleting   *)

(* What the handler of w saw of the rows that w refers to, and that no     *)
(* other request changes                                                   *)
RequestKnown(w) ==
    /\ w.op \in {"startTimer", "newEntry"} => tasks[w.row.task] # "absent"
    /\ w.op = "updateEntry" =>
          /\ tasks[w.write.task] # "absent"
          /\ w.read.stop # Running => entries[w.entry].stop # Running
          /\ ~Edits(w) /\ w.write.visible => w.write.task = w.read.task
    /\ w.op = "archiveClient" => w.contracts \subseteq ContractsOf(w.client)

RowsKnown == \A e \in VisibleEntries : tasks[entries[e].task] # "absent"

WatchInv ==
    /\ SafeInv
    /\ RowsKnown
    /\ \A t \in Threads : RequestKnown(requests[t])
    /\ \A t \in Threads : t \notin overtaken => Stands(requests[t])

-----------------------------------------------------------------------------
(* Requests *)

LEMMA IdleStands == RequestKnown(Idle) /\ Stands(Idle) /\ Stands(Idle)'
BY DEF RequestKnown, Stands, Edits, Idle

(* What is prepared stands *)
LEMMA PreparedStands ==
    ASSUME SafeInv, RowsKnown, NEW t \in Threads, EntryRequest(t) \/ WorkspaceRequest(t)
    PROVE  \E w : Prepare(t, w) /\ RequestKnown(w) /\ Stands(w)
<1> DEFINE Sound(w) == Prepare(t, w) /\ RequestKnown(w) /\ Stands(w)
<1>0. entries \in [DOMAIN entries -> EntryRow] /\ enabled \in [Users -> BOOLEAN]
  BY DEF SafeInv, TrackingTypeOK, TablesOK
<1>1. ASSUME NEW u \in Users, NEW k \in Tasks, NEW s \in Subtasks \cup {NoSubtask},
             StartTimer(t, u, k, s)
      PROVE  \E w : Sound(w)
  <2> DEFINE w == [op |-> "startTimer", row |-> PendingEntry(u, k, s, now, Running)]
  <2>1. w.op = "startTimer" /\ w.row.task = k /\ w.row.user = u
    BY DEF PendingEntry
  <2>2. RequestKnown(w) /\ Stands(w)
    BY <1>1, <2>1 DEF StartTimer, Assignable, Workable, RequestKnown, Stands, Edits
  <2>3. Prepare(t, w)
    BY <1>1 DEF StartTimer
  <2> HIDE DEF w
  <2> QED
    BY <2>2, <2>3
<1>2. ASSUME NEW u \in Users, NEW k \in Tasks, NEW s \in Subtasks \cup {NoSubtask},
             NEW from \in Time, NEW to \in Time, NewTimeEntry(t, u, k, s, from, to)
      PROVE  \E w : Sound(w)
  <2> DEFINE w == [op |-> "newEntry", row |-> PendingEntry(u, k, s, from, to)]
  <2>1. w.op = "newEntry" /\ w.row.task = k
    BY DEF PendingEntry
  <2>2. RequestKnown(w) /\ Stands(w)
    BY <1>2, <2>1 DEF NewTimeEntry, Assignable, Workable, RequestKnown, Stands, Edits
  <2>3. Prepare(t, w)
    BY <1>2 DEF NewTimeEntry
  <2> HIDE DEF w
  <2> QED
    BY <2>2, <2>3
<1>3. ASSUME NEW e \in DOMAIN entries, NEW write, tasks[write.task] # "absent",
             entries[e].stop # Running /\ write.visible => Workable(write),
             entries[e].stop = Running /\ write.visible => write.task = entries[e].task,
             Prepare(t, [op |-> "updateEntry", entry |-> e, read |-> entries[e],
                         write |-> write])
      PROVE  \E w : Sound(w)
  <2> DEFINE w == [op |-> "updateEntry", entry |-> e, read |-> entries[e], write |-> write]
  <2>1. RequestKnown(w) /\ Stands(w)
    BY <1>3 DEF RequestKnown, Stands, Edits
  <2> HIDE DEF w
  <2> QED
    BY <1>3, <2>1 DEF w
<1>4. ASSUME NEW u \in Users, NEW k \in Tasks, NEW s \in Subtasks \cup {NoSubtask},
             NEW from \in Time, NEW to \in Time, NEW e \in DOMAIN entries,
             EditTimeEntry(t, e, u, k, s, from, to)
      PROVE  \E w : Sound(w)
  <2> DEFINE write == [entries[e] EXCEPT !.user = u, !.task = k,
                          !.subtask = AssignedSubtask(e, s), !.start = from, !.stop = to]
  <2>1. write.task = k
    BY <1>0 DEF EntryRow
  <2>2. tasks[k] = "visible" /\ Operational(ContractOf[k]) /\ entries[e].stop # Running
    BY <1>4 DEF EditTimeEntry, Assignable, Correctable
  <2>3. Prepare(t, [op |-> "updateEntry", entry |-> e, read |-> entries[e],
                    write |-> write])
    BY <1>4 DEF EditTimeEntry
  <2> HIDE DEF write
  <2> QED
    BY <1>3, <2>1, <2>2, <2>3 DEF Workable
<1>5. ASSUME NEW e \in DOMAIN entries, StopTimer(t, e) PROVE \E w : Sound(w)
  <2> DEFINE write == [entries[e] EXCEPT !.stop = Later(now, entries[e].start)]
  <2>1. write.task = entries[e].task
    BY <1>0 DEF EntryRow
  <2>2. tasks[entries[e].task] # "absent" /\ entries[e].stop = Running
    BY <1>5 DEF StopTimer, RowsKnown
  <2>3. Prepare(t, [op |-> "updateEntry", entry |-> e, read |-> entries[e],
                    write |-> write])
    BY <1>5 DEF StopTimer
  <2> HIDE DEF write
  <2> QED
    BY <1>3, <2>1, <2>2, <2>3
<1>6. ASSUME NEW e \in DOMAIN entries, DeleteTimeEntry(t, e) PROVE \E w : Sound(w)
  <2> DEFINE write == [entries[e] EXCEPT !.visible = FALSE]
  <2>1. ~write.visible /\ write.task = entries[e].task
    BY <1>0 DEF EntryRow
  <2>2. tasks[entries[e].task] # "absent"
    BY <1>6 DEF DeleteTimeEntry, Correctable
  <2>3. Prepare(t, [op |-> "updateEntry", entry |-> e, read |-> entries[e],
                    write |-> write])
    BY <1>6 DEF DeleteTimeEntry
  <2> HIDE DEF write
  <2> QED
    BY <1>3, <2>1, <2>2, <2>3
<1>7. ASSUME NEW w, Prepare(t, w),
             w.op \in {"newClient", "editContract", "activateClient", "newTask",
                       "deleteTask", "deleteSubtask"}
      PROVE  \E v : Sound(v)
  BY <1>7 DEF RequestKnown, Stands, Edits
<1>8. ASSUME NEW c \in Clients, NEW d \in Details, NewContract(t, c, d)
      PROVE  \E w : Sound(w)
  <2> DEFINE w == [op |-> "newContract", client |-> c, details |-> d]
  <2>1. Sound(w)
    BY <1>8 DEF NewContract, RequestKnown, Stands, Edits
  <2> QED
    BY <2>1
<1>9. ASSUME NEW c \in Clients, ArchiveClient(t, c) PROVE \E w : Sound(w)
  <2> DEFINE active == {k \in ContractsOf(c) : contracts[k] = "active"}
             w == [op |-> "archiveClient", client |-> c, contracts |-> active]
  <2>1. Sound(w)
    BY <1>9 DEF ArchiveClient, RequestKnown, Stands, Edits
  <2> QED
    BY <2>1
<1>10. ASSUME NEW c \in Contracts, ArchiveContract(t, c) \/ ActivateContract(t, c)
       PROVE  \E w : Sound(w)
  BY <1>10 DEF ArchiveContract, ActivateContract, RequestKnown, Stands, Edits
<1>11. ASSUME NEW k \in Tasks, NewSubtask(t, k) PROVE \E w : Sound(w)
  <2> DEFINE w == [op |-> "newSubtask", task |-> k]
  <2>1. Sound(w)
    BY <1>11 DEF NewSubtask, RequestKnown, Stands, Edits
  <2> QED
    BY <2>1
<1>12. ASSUME NEW u \in Users, ToggleUserEnabled(t, u) PROVE \E w : Sound(w)
  <2> DEFINE stopped == IF enabled[u] THEN ActiveTimersOf(u) ELSE {}
             w == [op |-> "setEnabled", user |-> u, to |-> ~enabled[u], at |-> now,
                   stopped |-> stopped]
  <2>1. RequestKnown(w) /\ Stands(w)
    BY <1>0 DEF RequestKnown, Stands, Edits
  <2>2. Prepare(t, w)
    BY <1>12 DEF ToggleUserEnabled
  <2> HIDE DEF w
  <2> QED
    BY <2>1, <2>2
<1>13. CASE EntryRequest(t)
  BY <1>13, <1>1, <1>2, <1>4, <1>5, <1>6 DEF EntryRequest
<1>14. CASE WorkspaceRequest(t)
  BY <1>14, <1>7, <1>8, <1>9, <1>10, <1>11, <1>12
     DEF WorkspaceRequest, NewClient, EditContract, ActivateClient, NewTask, DeleteTask,
         DeleteSubtask
<1> QED
  BY <1>13, <1>14

-----------------------------------------------------------------------------
(* Commits, by what they do to a row *)

(* A session that a commit leaves visible was there: it keeps its task and *)
(* its billing, and its user while it runs.                                *)
RowKept(e) ==
    entries'[e].visible =>
        /\ e \in VisibleEntries
        /\ entries'[e].task = entries[e].task
        /\ entries'[e].billing = entries[e].billing
        /\ entries'[e].stop = Running => entries[e].stop = Running
                                        /\ entries'[e].user = entries[e].user

(* ... or w has added it, or moved it *)
RowWritten(e, w) ==
    \/ w.op = "startTimer" /\ entries'[e] = w.row
          /\ contracts[ContractOf[w.row.task]] # "archived"
    \/ w.op = "newEntry" /\ entries'[e] = w.row /\ w.row.stop # Running
    \/ Edits(w) /\ entries'[e].task = w.write.task /\ entries'[e].stop # Running

StopsKept ==
    \A e \in DOMAIN entries :
        e \in DOMAIN entries' /\ (entries[e].stop # Running => entries'[e].stop # Running)

LEMMA EntryCommitRows ==
    ASSUME SafeInv, NEW t \in Threads, RequestKnown(requests[t]), EntryCommit(t)
    PROVE  /\ \A e \in DOMAIN entries' : RowKept(e) \/ RowWritten(e, requests[t])
           /\ StopsKept
<1> DEFINE w == requests[t]
<1>0. /\ entries \in [DOMAIN entries -> EntryRow]
      /\ w \in Writes /\ WriteOK(w) /\ PendingOK(w)
  BY DEF SafeInv, TrackingTypeOK, TablesOK, WritesOK
<1>1. ASSUME NEW e \in DOMAIN entries, entries'[e] = entries[e] PROVE RowKept(e)
  BY <1>1 DEF RowKept, VisibleEntries
<1>2. ASSUME NEW row, Insert(row)
      PROVE  /\ \A e \in DOMAIN entries' :
                    entries'[e] = row \/ (e \in DOMAIN entries /\ entries'[e] = entries[e])
             /\ StopsKept
  BY <1>2 DEF Insert, Put, StopsKept
<1>3. CASE UNCHANGED entries
  BY <1>1, <1>3 DEF StopsKept
<1>4. CASE CommitStartTimer(t) /\ ~UNCHANGED entries
  <2>1. /\ w.op = "startTimer" /\ Insert(w.row)
        /\ contracts[ContractOf[w.row.task]] # "archived"
    BY <1>4 DEF CommitStartTimer, Finish, TimerAccepted
  <2> QED
    BY <1>1, <1>2, <2>1 DEF RowWritten
<1>5. CASE CommitNewTimeEntry(t) /\ ~UNCHANGED entries
  <2>1. w.op = "newEntry" /\ Insert(w.row) /\ w.row.stop # Running
    BY <1>0, <1>5 DEF CommitNewTimeEntry, Finish, PendingOK
  <2> QED
    BY <1>1, <1>2, <2>1 DEF RowWritten
<1>6. CASE CommitUpdateTimeEntry(t) /\ ~UNCHANGED entries
  <2> DEFINE row == Merge(entries[w.entry], w.read, w.write)
  <2>1. w.op = "updateEntry" /\ entries' = [entries EXCEPT ![w.entry] = row]
    BY <1>6 DEF CommitUpdateTimeEntry, Finish
  <2>2. /\ w.entry \in DOMAIN entries
        /\ w.read \in EntryRow /\ w.write \in EntryRow
        /\ w.read.billing = w.write.billing /\ w.write.stop # Running
        /\ w.read.visible
    BY <1>0, <2>1, WriteFields DEF WriteOK, PendingOK
  <2>3. /\ row.task = Column(entries[w.entry].task, w.read.task, w.write.task)
        /\ row.stop = Column(entries[w.entry].stop, w.read.stop, w.write.stop)
        /\ row.billing = Column(entries[w.entry].billing, w.read.billing, w.write.billing)
        /\ row.visible = Column(entries[w.entry].visible, w.read.visible, w.write.visible)
    BY <1>0, <2>2 DEF Merge, EntryRow
  <2> HIDE DEF row
  <2>4. entries'[w.entry] = row
        /\ DOMAIN entries' = DOMAIN entries
        /\ \A e \in DOMAIN entries : e # w.entry => entries'[e] = entries[e]
    BY <2>1, <2>2
  <2>5. row.stop # Running
    BY <2>1, <2>2, <2>3 DEF Column, RequestKnown
  <2>6. row.billing = entries[w.entry].billing
    BY <2>2, <2>3 DEF Column
  <2>7. row.visible => entries[w.entry].visible /\ w.write.visible
    BY <1>0, <2>2, <2>3 DEF Column, EntryRow
  <2>8. row.visible => row.task = entries[w.entry].task
                        \/ (Edits(w) /\ row.task = w.write.task)
    BY <2>1, <2>3, <2>7 DEF Column, RequestKnown
  <2>9. RowKept(w.entry) \/ RowWritten(w.entry, w)
    BY <2>2, <2>4, <2>5, <2>6, <2>7, <2>8 DEF RowKept, RowWritten, VisibleEntries
  <2>10. StopsKept
    BY <2>4, <2>5 DEF StopsKept
  <2> HIDE DEF w
  <2> QED
    BY <1>1, <2>4, <2>9, <2>10 DEF w
<1> QED
  BY <1>3, <1>4, <1>5, <1>6 DEF EntryCommit

LEMMA WorkspaceCommitRows ==
    ASSUME SafeInv, NEW t \in Threads, WorkspaceCommit(t)
    PROVE  /\ DOMAIN entries' = DOMAIN entries
           /\ \A e \in DOMAIN entries : RowKept(e)
           /\ StopsKept
<1>0. entries \in [DOMAIN entries -> EntryRow] /\ requests[t] \in Writes
  BY DEF SafeInv, TrackingTypeOK, TablesOK
<1>1. CASE UNCHANGED entries
  BY <1>1 DEF RowKept, StopsKept, VisibleEntries
<1>2. ASSUME NEW work, Hide(work)
      PROVE  /\ DOMAIN entries' = DOMAIN entries
             /\ \A e \in DOMAIN entries : RowKept(e)
             /\ StopsKept
  <2>1. \A row \in EntryRow : /\ ~[row EXCEPT !.visible = FALSE].visible
                              /\ [row EXCEPT !.visible = FALSE].stop = row.stop
    BY DEF EntryRow
  <2> QED
    BY <1>0, <1>2, <2>1 DEF Hide, RowKept, StopsKept, VisibleEntries
<1>3. CASE CommitDeleteTask(t) \/ CommitDeleteSubtask(t)
  BY <1>2, <1>3 DEF CommitDeleteTask, CommitDeleteSubtask
<1>4. CASE CommitSetEnabled(t) /\ ~UNCHANGED entries
  <2> DEFINE w == requests[t]
             Stopped(e) == [entries[e] EXCEPT !.stop = w.at]
  <2>1. w.op = "setEnabled"
        /\ entries' = [e \in DOMAIN entries |->
                          IF e \in w.stopped THEN Stopped(e) ELSE entries[e]]
    BY <1>4 DEF CommitSetEnabled, Finish
  <2>2. w.at # Running
    BY <1>0, <2>1, WriteFields, TimeIsNotRunning
  <2>3. \A e \in DOMAIN entries :
           /\ Stopped(e).stop = w.at /\ Stopped(e).visible = entries[e].visible
           /\ Stopped(e).task = entries[e].task /\ Stopped(e).billing = entries[e].billing
    BY <1>0 DEF EntryRow
  <2> HIDE DEF w, Stopped
  <2> QED
    BY <2>1, <2>2, <2>3 DEF RowKept, StopsKept, VisibleEntries
<1>5. CASE \/ CommitNewClient(t) \/ CommitNewContract(t) \/ CommitEditContract(t)
           \/ CommitSetContract(t) \/ CommitArchiveClient(t) \/ CommitActivateClient(t)
           \/ CommitNewTask(t) \/ CommitNewSubtask(t)
  BY <1>1, <1>5 DEF CommitNewClient, CommitNewContract, CommitEditContract,
     CommitSetContract, CommitArchiveClient, CommitActivateClient, CommitNewTask,
     CommitNewSubtask
<1> QED
  BY <1>1, <1>3, <1>4, <1>5 DEF WorkspaceCommit

(* Which commit archives, activates, disables, deletes or adds             *)
LEMMA WorkspaceCommitItems ==
    ASSUME SafeInv, NEW t \in Threads, RequestKnown(requests[t]), WorkspaceCommit(t)
    PROVE  LET w == requests[t] IN
           /\ \A c \in Contracts : contracts'[c] = "archived" /\ contracts[c] # "archived" =>
                 \/ w.op = "setContract" /\ w.contract = c /\ w.to = "archived"
                 \/ w.op = "archiveClient" /\ c \in ContractsOf(w.client)
           /\ \A c \in Contracts : contracts'[c] = "active" /\ contracts[c] # "active" =>
                 \/ w.op = "newContract" /\ ClientOf[c] = w.client
                 \/ w.op = "setContract" /\ w.contract = c /\ w.to = "active"
           /\ \A c \in Clients : clients'[c] = "archived" /\ clients[c] # "archived" =>
                 /\ w.op = "archiveClient" /\ w.client = c
                 /\ \A k \in Contracts : contracts'[k] = "active"
                       => contracts[k] = "active" /\ k \notin w.contracts
           /\ \A u \in Users : ~enabled'[u] /\ enabled[u] =>
                 /\ w.op = "setEnabled" /\ w.user = u /\ ~w.to
                 /\ \A e \in w.stopped : entries'[e].stop # Running
           /\ \A k \in Tasks : tasks'[k] = "hidden" /\ tasks[k] # "hidden" =>
                 /\ \A e \in DOMAIN entries : entries'[e].visible => entries[e].task # k
                 /\ \A s \in Subtasks : TaskOf[s] = k => subtasks'[s] # "visible"
           /\ \A s \in Subtasks : subtasks'[s] = "visible" /\ subtasks[s] # "visible" =>
                 w.op = "newSubtask" /\ TaskOf[s] = w.task
<1> DEFINE w == requests[t]
<1>0. /\ entries \in [DOMAIN entries -> EntryRow]
      /\ w \in Writes /\ WriteOK(w)
      /\ clients \in [Clients -> RowState] /\ contracts \in [Contracts -> RowState]
      /\ tasks \in [Tasks -> ItemState] /\ subtasks \in [Subtasks -> ItemState]
      /\ enabled \in [Users -> BOOLEAN]
  BY DEF SafeInv, TrackingTypeOK, TablesOK, WritesOK
<1> USE DEF Finish
<1>1. CASE CommitNewClient(t) \/ CommitActivateClient(t)
  BY <1>0, <1>1 DEF CommitNewClient, CommitActivateClient
<1>2. CASE CommitEditContract(t)
  BY <1>2 DEF CommitEditContract
<1>3. CASE CommitNewContract(t)
  BY <1>0, <1>3 DEF CommitNewContract
<1>4. CASE CommitSetContract(t)
  BY <1>0, <1>4 DEF CommitSetContract
<1>5. CASE CommitArchiveClient(t)
  <2>1. w.op = "archiveClient" /\ w.contracts \subseteq ContractsOf(w.client)
    BY <1>5 DEF CommitArchiveClient, RequestKnown
  <2>2. /\ \A k \in Contracts : contracts'[k] = IF k \in w.contracts THEN "archived"
                                                                  ELSE contracts[k]
        /\ \A c \in Clients : clients'[c] = IF c = w.client THEN "archived" ELSE clients[c]
        /\ UNCHANGED <<tasks, subtasks, enabled, entries>>
    BY <1>0, <1>5 DEF CommitArchiveClient
  <2> HIDE DEF w
  <2> QED
    BY <2>1, <2>2 DEF w
<1>6. CASE CommitNewTask(t)
  BY <1>0, <1>6 DEF CommitNewTask
<1>7. CASE CommitNewSubtask(t)
  BY <1>0, <1>7 DEF CommitNewSubtask
<1>8. CASE CommitDeleteTask(t)
  <2> DEFINE work == {e \in VisibleEntries : entries[e].task = w.task}
  <2>1. /\ UNCHANGED <<clients, contracts, enabled>>
        /\ Hide(work)
        /\ \A s \in Subtasks : subtasks'[s] = IF TaskOf[s] = w.task /\ subtasks[s] # "absent"
                                               THEN "hidden" ELSE subtasks[s]
        /\ \A k \in Tasks : tasks'[k] = IF k = w.task THEN "hidden" ELSE tasks[k]
    BY <1>0, <1>8 DEF CommitDeleteTask
  <2>2. \A e \in DOMAIN entries : entries'[e].visible => e \notin work /\ entries[e].visible
    BY <1>0, <2>1 DEF Hide, EntryRow
  <2>3. \A e \in DOMAIN entries : entries'[e].visible => entries[e].task # w.task
    BY <2>2 DEF VisibleEntries
  <2> HIDE DEF w, work
  <2> QED
    BY <2>1, <2>3 DEF w
<1>9. CASE CommitDeleteSubtask(t)
  BY <1>0, <1>9 DEF CommitDeleteSubtask
<1>10. CASE CommitSetEnabled(t)
  <2>1. w.op = "setEnabled" /\ UNCHANGED <<clients, contracts, tasks, subtasks>>
    BY <1>10 DEF CommitSetEnabled
  <2>2. w.at # Running /\ w.stopped \subseteq DOMAIN entries
    BY <1>0, <2>1, WriteFields, TimeIsNotRunning DEF WriteOK
  <2>3. CASE UNCHANGED <<enabled, entries>>
    BY <2>1, <2>3
  <2>4. CASE /\ enabled' = [enabled EXCEPT ![w.user] = w.to]
             /\ entries' = [e \in DOMAIN entries |->
                               IF e \in w.stopped THEN [entries[e] EXCEPT !.stop = w.at]
                                                  ELSE entries[e]]
    <3>1. \A u \in Users : ~enabled'[u] /\ enabled[u] => w.user = u /\ ~w.to
      BY <1>0, <2>4
    <3>2. \A e \in w.stopped : entries'[e].stop = w.at
      BY <1>0, <2>2, <2>4 DEF EntryRow
    <3> HIDE DEF w
    <3> QED
      BY <2>1, <2>2, <3>1, <3>2 DEF w
  <2> QED
    BY <1>10, <2>3, <2>4 DEF CommitSetEnabled
<1> QED
  BY <1>1, <1>2, <1>3, <1>4, <1>5, <1>6, <1>7, <1>8, <1>9, <1>10 DEF WorkspaceCommit

-----------------------------------------------------------------------------
(* What each commit keeps of the four promises *)

LEMMA ResolvedKept ==
    ASSUME SafeInv, RowsKnown, NEW t \in Threads, RequestKnown(requests[t]),
           EntryCommit(t) \/ WorkspaceCommit(t), NEW c \in Contracts, Resolved(c),
           Stands(requests[t])
             \/ requests[t].op \notin {"setContract", "archiveClient", "newEntry", "updateEntry"}
    PROVE  Resolved(c)'
<1> DEFINE w == requests[t]
<1>0. /\ w \in Writes /\ ParentAssumption
      /\ entries \in [DOMAIN entries -> EntryRow]
      /\ entries' \in [DOMAIN entries' -> EntryRow]
      /\ tasks \in [Tasks -> ItemState]
  BY ParentAssumption, EntryCommitEntries, WorkspaceCommitEntries
     DEF SafeInv, TrackingTypeOK, TablesOK, EntriesTyped
<1> SUFFICES ASSUME contracts'[c] = "archived", NEW e \in DOMAIN entries',
                    entries'[e].visible, ContractOf[entries'[e].task] = c,
                    tasks'[entries'[e].task] = "visible",
                    entries'[e].billing = "pending_invoice"
             PROVE  FALSE
  BY DEF Resolved, WorkOf, VisibleEntries
<1>1. ASSUME RowKept(e), ItemsKept
      PROVE  e \in WorkOf(c) /\ entries[e].billing = "pending_invoice"
  <2>1. /\ e \in VisibleEntries /\ entries'[e].task = entries[e].task
        /\ entries[e].billing = "pending_invoice"
    BY <1>1 DEF RowKept
  <2>2. entries[e].task \in Tasks
    BY <1>0, <2>1 DEF VisibleEntries, EntryRow
  <2>3. tasks[entries[e].task] = "visible"
    BY <1>0, <1>1, <2>1, <2>2 DEF ItemsKept, RowsKnown, ItemState
  <2> QED
    BY <2>1, <2>3 DEF WorkOf
<1>2. CASE EntryCommit(t)
  <2>1. UNCHANGED <<clients, contracts, tasks, subtasks>>
    BY <1>2, EntryCommitTables
  <2>2. RowKept(e) \/ RowWritten(e, w)
    BY <1>2, EntryCommitRows
  <2>3. ~RowKept(e)
    BY <1>1, <2>1 DEF ItemsKept, Resolved
  <2>4. CASE w.op = "startTimer"
    BY <2>1, <2>2, <2>3, <2>4 DEF RowWritten, Edits
  <2>5. CASE w.op = "newEntry"
    BY <2>1, <2>2, <2>3, <2>5 DEF RowWritten, Edits, Stands, Workable, Operational
  <2>6. CASE Edits(w)
    BY <2>1, <2>2, <2>3, <2>6 DEF RowWritten, Edits, Stands, Workable, Operational
  <2> QED
    BY <2>2, <2>3, <2>4, <2>5, <2>6 DEF RowWritten
<1>3. CASE WorkspaceCommit(t)
  <2>1. RowKept(e) /\ ItemsKept
    BY <1>3, WorkspaceCommitRows, WorkspaceCommitKeepsItems
  <2>2. e \in WorkOf(c) /\ entries[e].billing = "pending_invoice"
    BY <1>1, <2>1
  <2>3. contracts[c] # "archived"
    BY <2>2 DEF Resolved
  <2>4. \/ w.op = "setContract" /\ w.contract = c /\ w.to = "archived"
        \/ w.op = "archiveClient" /\ c \in ContractsOf(w.client)
    BY <1>3, <2>3, WorkspaceCommitItems
  <2>5. ~HasPendingInvoiceSessions(c)
    BY <2>4 DEF Stands
  <2> QED
    BY <2>2, <2>5 DEF HasPendingInvoiceSessions
<1> QED
  BY <1>2, <1>3

LEMMA ContractsStillFollow ==
    ASSUME SafeInv, NEW t \in Threads, RequestKnown(requests[t]),
           EntryCommit(t) \/ WorkspaceCommit(t), NEW c \in Clients, ContractsFollow(c),
           Stands(requests[t])
             \/ requests[t].op \notin {"newContract", "setContract", "archiveClient"}
    PROVE  ContractsFollow(c)'
<1> DEFINE w == requests[t]
<1> SUFFICES ASSUME clients'[c] = "archived", NEW k \in ContractsOf(c),
                    contracts'[k] = "active"
             PROVE  FALSE
  BY DEF ContractsFollow, ContractsOf
<1>0. k \in Contracts /\ ClientOf[k] = c
  BY DEF ContractsOf
<1>1. CASE EntryCommit(t)
  BY <1>1, EntryCommitTables DEF ContractsFollow
<1>2. CASE WorkspaceCommit(t) /\ clients[c] # "archived"
  <2>1. /\ w.op = "archiveClient" /\ w.client = c
        /\ contracts[k] = "active" /\ k \notin w.contracts
    BY <1>0, <1>2, WorkspaceCommitItems
  <2> QED
    BY <2>1 DEF Stands
<1>3. CASE WorkspaceCommit(t) /\ clients[c] = "archived"
  <2>1. contracts[k] # "active"
    BY <1>3 DEF ContractsFollow
  <2>2. \/ w.op = "newContract" /\ w.client = c
        \/ w.op = "setContract" /\ w.contract = k /\ w.to = "active"
    BY <1>0, <1>3, <2>1, WorkspaceCommitItems
  <2> QED
    BY <1>0, <1>3, <2>2 DEF Stands
<1> QED
  BY <1>1, <1>2, <1>3

LEMMA TimersStayStopped ==
    ASSUME SafeInv, NEW t \in Threads, RequestKnown(requests[t]),
           EntryCommit(t) \/ WorkspaceCommit(t), NEW u \in Users, TimersStopped(u),
           Stands(requests[t]) \/ requests[t].op \notin {"setEnabled", "startTimer"}
    PROVE  TimersStopped(u)'
<1> DEFINE w == requests[t]
<1> SUFFICES ASSUME ~enabled'[u], NEW e \in DOMAIN entries', entries'[e].visible,
                    entries'[e].user = u, entries'[e].stop = Running
             PROVE  FALSE
  BY DEF TimersStopped, ActiveTimersOf, VisibleEntries
<1>1. RowKept(e) => e \in ActiveTimersOf(u)
  BY DEF RowKept, ActiveTimersOf
<1>2. CASE EntryCommit(t)
  <2>1. ~enabled[u]
    BY <1>2, EntryCommitTables
  <2>2. ~RowKept(e)
    BY <1>1, <2>1 DEF TimersStopped
  <2>3. RowWritten(e, w)
    BY <1>2, <2>2, EntryCommitRows
  <2>4. w.op = "startTimer" /\ entries'[e] = w.row
    BY <2>3 DEF RowWritten
  <2> QED
    BY <2>1, <2>4 DEF Stands
<1>3. CASE WorkspaceCommit(t)
  <2>1. e \in ActiveTimersOf(u)
    BY <1>1, <1>3, WorkspaceCommitRows
  <2>2. enabled[u]
    BY <2>1 DEF TimersStopped
  <2>3. /\ w.op = "setEnabled" /\ w.user = u /\ ~w.to
        /\ \A f \in w.stopped : entries'[f].stop # Running
    BY <1>3, <2>2, WorkspaceCommitItems
  <2>4. e \in w.stopped
    BY <2>1, <2>3 DEF Stands
  <2> QED
    BY <2>3, <2>4
<1> QED
  BY <1>2, <1>3

LEMMA NothingComesBack ==
    ASSUME SafeInv, NEW t \in Threads, RequestKnown(requests[t]),
           EntryCommit(t) \/ WorkspaceCommit(t), NEW k \in Tasks, NothingLeftOf(k),
           Stands(requests[t])
             \/ requests[t].op \notin {"newEntry", "startTimer", "updateEntry", "newSubtask"}
    PROVE  NothingLeftOf(k)'
<1> DEFINE w == requests[t]
<1> SUFFICES ASSUME tasks'[k] = "hidden"
             PROVE  /\ \A e \in DOMAIN entries' : entries'[e].visible => entries'[e].task # k
                    /\ \A s \in Subtasks : TaskOf[s] = k => subtasks'[s] # "visible"
  BY DEF NothingLeftOf, VisibleEntries
<1>1. CASE EntryCommit(t)
  <2>1. UNCHANGED <<tasks, subtasks>>
    BY <1>1, EntryCommitTables
  <2>2. ASSUME NEW e \in DOMAIN entries', entries'[e].visible, entries'[e].task = k
        PROVE  FALSE
    <3>1. ~RowKept(e)
      BY <2>1, <2>2 DEF RowKept, NothingLeftOf
    <3>2. RowWritten(e, w)
      BY <1>1, <3>1, EntryCommitRows
    <3>3. CASE w.op \in {"startTimer", "newEntry"}
      BY <2>1, <2>2, <3>2, <3>3 DEF RowWritten, Edits, Stands, Workable
    <3>4. CASE Edits(w)
      BY <2>1, <2>2, <3>2, <3>4 DEF RowWritten, Edits, Stands, Workable
    <3> QED
      BY <3>2, <3>3, <3>4 DEF RowWritten
  <2> QED
    BY <2>1, <2>2 DEF NothingLeftOf
<1>2. CASE WorkspaceCommit(t) /\ tasks[k] # "hidden"
  <2>1. /\ \A e \in DOMAIN entries : entries'[e].visible => entries[e].task # k
        /\ \A s \in Subtasks : TaskOf[s] = k => subtasks'[s] # "visible"
    BY <1>2, WorkspaceCommitItems
  <2> QED
    BY <1>2, <2>1, WorkspaceCommitRows DEF RowKept
<1>3. CASE WorkspaceCommit(t) /\ tasks[k] = "hidden"
  <2>1. \A e \in DOMAIN entries' : entries'[e].visible => entries'[e].task # k
    BY <1>3, WorkspaceCommitRows DEF RowKept, NothingLeftOf
  <2>2. ASSUME NEW s \in Subtasks, TaskOf[s] = k, subtasks'[s] = "visible" PROVE FALSE
    <3>1. subtasks[s] # "visible"
      BY <1>3, <2>2 DEF NothingLeftOf
    <3>2. w.op = "newSubtask" /\ w.task = k
      BY <1>3, <2>2, <3>1, WorkspaceCommitItems
    <3> QED
      BY <1>3, <3>2 DEF Stands
  <2> QED
    BY <2>1, <2>2
<1> QED
  BY <1>1, <1>2, <1>3

-----------------------------------------------------------------------------
(* The induction *)

LEMMA KnownKept ==
    ASSUME SafeInv, RowsKnown, NEW t \in Threads, RequestKnown(requests[t]),
           EntryCommit(t) \/ WorkspaceCommit(t)
    PROVE  /\ RowsKnown'
           /\ \A u \in Threads : RequestKnown(requests[u]) => RequestKnown(requests[u])'
<1> DEFINE w == requests[t]
<1>0. /\ entries \in [DOMAIN entries -> EntryRow]
      /\ requests \in [Threads -> Writes] /\ WritesOK
      /\ tasks \in [Tasks -> ItemState]
  BY DEF SafeInv, TrackingTypeOK, TablesOK
<1>1. \A k \in Tasks : tasks[k] # "absent" => tasks'[k] # "absent"
  BY <1>0, EntryCommitTables
     DEF WorkspaceCommit, CommitNewClient, CommitNewContract, CommitEditContract,
         CommitSetContract, CommitArchiveClient, CommitActivateClient, CommitNewTask,
         CommitNewSubtask, CommitDeleteTask, CommitDeleteSubtask, CommitSetEnabled
<1>2. StopsKept
  BY EntryCommitRows, WorkspaceCommitRows
<1>3. Released(t)
  BY EntryCommitTables, WorkspaceCommitTables DEF SafeInv
<1>4. ASSUME NEW e \in DOMAIN entries', entries'[e].visible
      PROVE  tasks'[entries'[e].task] # "absent"
  <2>1. CASE RowKept(e)
    <3>1. e \in VisibleEntries /\ entries'[e].task = entries[e].task
      BY <1>4, <2>1 DEF RowKept
    <3>2. entries[e].task \in Tasks
      BY <1>0, <3>1 DEF VisibleEntries, EntryRow
    <3> QED
      BY <1>1, <3>1, <3>2 DEF RowsKnown
  <2>2. CASE RowWritten(e, w)
    <3>1. /\ w.op \in {"startTimer", "newEntry"} => w.row.task \in Tasks
          /\ w.op = "updateEntry" => w.write.task \in Tasks
      BY <1>0, WriteFields DEF EntryRow
    <3> HIDE DEF w
    <3>2. RequestKnown(w)
      BY DEF w
    <3>3. CASE w.op \in {"startTimer", "newEntry"} /\ entries'[e] = w.row
      <4>1. tasks[w.row.task] # "absent"
        BY <3>2, <3>3 DEF RequestKnown
      <4> QED
        BY <1>1, <3>1, <3>3, <4>1
    <3>4. CASE w.op = "updateEntry" /\ entries'[e].task = w.write.task
      <4>1. tasks[w.write.task] # "absent"
        BY <3>2, <3>4 DEF RequestKnown
      <4> QED
        BY <1>1, <3>1, <3>4, <4>1
    <3> QED
      BY <2>2, <3>3, <3>4 DEF RowWritten, Edits
  <2> QED
    BY <2>1, <2>2, EntryCommitRows, WorkspaceCommitRows
<1>5. ASSUME NEW u \in Threads, RequestKnown(requests[u]) PROVE RequestKnown(requests[u])'
  <2>1. CASE u = t
    <3>1. requests'[u] = Idle
      BY <1>0, <1>3, <2>1 DEF Released
    <3> QED
      BY <3>1 DEF RequestKnown, Idle
  <2>2. CASE u # t
    <3>1. PICK v : v = requests[u]
      OBVIOUS
    <3>2. requests'[u] = v
      BY <1>0, <1>3, <2>2, <3>1 DEF Released
    <3>3. /\ v.op \in {"startTimer", "newEntry"} => v.row.task \in Tasks
          /\ v.op = "updateEntry" => v.write.task \in Tasks /\ v.entry \in DOMAIN entries
      BY <1>0, <3>1, WriteFields DEF EntryRow, WritesOK, WriteOK
    <3>4. RequestKnown(v)
      BY <1>5, <3>1
    <3>5. RequestKnown(v)'
      BY <1>1, <1>2, <3>3, <3>4 DEF RequestKnown, StopsKept, Edits, ContractsOf
    <3> QED
      BY <3>2, <3>5 DEF RequestKnown, Edits, ContractsOf
  <2> QED
    BY <2>1, <2>2
<1> QED
  BY <1>4, <1>5 DEF RowsKnown, VisibleEntries

(* What stands is not overtaken by a step that leaves the tables alone     *)
LEMMA StandsStill ==
    ASSUME NEW w, UNCHANGED tables
    PROVE  (RequestKnown(w) <=> RequestKnown(w)') /\ (Stands(w) <=> Stands(w)')
BY DEF tables, RequestKnown, Stands, Edits, Workable, Operational, ContractsOf, WorkOf,
       VisibleEntries, HasPendingInvoiceSessions, ActiveTimersOf

(* The request of a thread is what it was, or done with, or prepared now.  *)
LEMMA RequestsMove ==
    ASSUME SafeInv, RowsKnown, [TrackingNext]_dbVars, NEW t \in Threads
    PROVE  \/ requests'[t] = requests[t]
           \/ requests'[t] = Idle
           \/ UNCHANGED tables /\ RequestKnown(requests'[t]) /\ Stands(requests'[t])
<1>0. requests \in [Threads -> Writes]
  BY DEF SafeInv, TrackingTypeOK, TablesOK
<1>1. CASE UNCHANGED dbVars \/ Tick
  BY <1>1 DEF dbVars, Tick
<1>2. ASSUME NEW u \in Threads, EntryRequest(u) \/ WorkspaceRequest(u)
      PROVE  \/ requests'[t] = requests[t]
             \/ UNCHANGED tables /\ RequestKnown(requests'[t]) /\ Stands(requests'[t])
  <2>1. PICK w : Prepare(u, w) /\ RequestKnown(w) /\ Stands(w)
    BY <1>2, PreparedStands
  <2>2. requests'[t] = IF t = u THEN w ELSE requests[t]
    BY <1>0, <2>1 DEF Prepare
  <2> QED
    BY <2>1, <2>2 DEF Prepare
<1>3. ASSUME NEW u \in Threads, EntryCommit(u) \/ WorkspaceCommit(u)
      PROVE  requests'[t] = requests[t] \/ requests'[t] = Idle
  <2>1. Released(u)
    BY <1>3, EntryCommitTables, WorkspaceCommitTables DEF SafeInv
  <2> QED
    BY <1>0, <2>1 DEF Released
<1>4. ASSUME NEW u \in Threads, Abandon(u)
      PROVE  requests'[t] = requests[t] \/ requests'[t] = Idle
  BY <1>0, <1>4 DEF Abandon
<1> QED
  BY <1>1, <1>2, <1>3, <1>4 DEF TrackingNext

(* Only a commit changes a table. *)
LEMMA OnlyCommitsWrite ==
    ASSUME [TrackingNext]_dbVars, ~UNCHANGED tables
    PROVE  \E t \in Threads : EntryCommit(t) \/ WorkspaceCommit(t)
BY RequestsWriteNothing DEF TrackingNext, Tick, Abandon, dbVars

LEMMA WatchInitially == WatchedInit => WatchInv
<1> SUFFICES ASSUME WatchedInit PROVE WatchInv
  OBVIOUS
<1>1. \A t \in Threads : requests[t] = Idle
  BY DEF WatchedInit, Init
<1>2. VisibleEntries = {}
  BY DEF WatchedInit, Init, VisibleEntries
<1> QED
  BY <1>1, <1>2, IdleStands, InitIsSafe DEF WatchedInit, WatchInv, RowsKnown

LEMMA WatchStep ==
    ASSUME WatchInv, [TrackingNext /\ Watch]_watchedVars PROVE WatchInv'
<1>0. SafeInv /\ RowsKnown /\ [TrackingNext]_dbVars
  BY DEF WatchInv, watchedVars
<1>1. SafeInv'
  BY <1>0, StepIsSafe
<1>2. CASE UNCHANGED tables
  <2>1. RowsKnown'
    BY <1>0, <1>2 DEF tables, RowsKnown, VisibleEntries
  <2>2. ASSUME NEW t \in Threads
        PROVE  RequestKnown(requests[t])' /\ (t \notin overtaken' => Stands(requests[t])')
    <3>1. PICK v : v = requests'[t]
      OBVIOUS
    <3>2. (RequestKnown(v) <=> RequestKnown(v)') /\ (Stands(v) <=> Stands(v)')
      BY <1>2, StandsStill
    <3>3. CASE v = requests[t]
      <4>1. t \notin overtaken' => Stands(v) \/ v = Idle
        BY <3>1, <3>3 DEF WatchInv, Watch, Waits, watchedVars
      <4>2. RequestKnown(v)
        BY <3>3 DEF WatchInv
      <4>3. RequestKnown(v)' /\ (t \notin overtaken' => Stands(v)')
        BY <3>2, <4>1, <4>2, IdleStands
      <4> QED
        BY <3>1, <4>3
    <3>4. CASE v # requests[t]
      <4>1. RequestKnown(v) /\ Stands(v)
        BY <1>0, <3>1, <3>4, RequestsMove, IdleStands
      <4> QED
        BY <3>1, <3>2, <4>1
    <3> QED
      BY <3>3, <3>4
  <2> QED
    BY <1>1, <2>1, <2>2 DEF WatchInv
<1>3. CASE ~UNCHANGED tables
  <2>1. PICK c \in Threads : EntryCommit(c) \/ WorkspaceCommit(c)
    BY <1>0, <1>3, OnlyCommitsWrite
  <2>2. /\ RowsKnown'
        /\ \A u \in Threads : RequestKnown(requests[u])'
    BY <1>0, <2>1, KnownKept DEF WatchInv
  <2>3. ASSUME NEW t \in Threads, t \notin overtaken' PROVE Stands(requests[t])'
    <3>1. PICK v : v = requests'[t]
      OBVIOUS
    <3>2. v = Idle \/ v = requests[t]
      BY <1>0, <1>3, <3>1, RequestsMove
    <3>3. CASE v = Idle
      BY <3>1, <3>3, IdleStands
    <3>4. CASE v # Idle
      BY <1>3, <2>3, <3>1, <3>2, <3>4 DEF WatchInv, Watch, Waits, watchedVars, dbVars
    <3> QED
      BY <3>3, <3>4
  <2> QED
    BY <1>1, <2>2, <2>3 DEF WatchInv
<1> QED
  BY <1>2, <1>3

LEMMA AlwaysWatched == WatchedSpec => []WatchInv
<1>1. WatchInv /\ [TrackingNext /\ Watch]_watchedVars => WatchInv'
  BY WatchStep
<1> QED
  BY WatchInitially, <1>1, PTL DEF WatchedSpec

(* What a step changes that is no commit, or the commit of a request whose *)
(* checks stand, breaks none of the promises.                              *)
LEMMA BreaksBySlipping ==
    ASSUME WatchInv, [TrackingNext]_dbVars, NEW ops,
           NEW t \in Threads, EntryCommit(t) \/ WorkspaceCommit(t), ~Slips(ops)
    PROVE  Stands(requests[t]) \/ requests[t].op \notin ops
<1>1. requests'[t] = Idle
  <2>1. Released(t) /\ requests \in [Threads -> Writes]
    BY EntryCommitTables, WorkspaceCommitTables DEF WatchInv, SafeInv, TrackingTypeOK, TablesOK
  <2> QED
    BY <2>1 DEF Released
<1> QED
  BY <1>1 DEF Slips, WatchInv

-----------------------------------------------------------------------------
(* The promises of archiving, disabling and deleting, for every number of  *)
(* threads                                                                 *)

(* An archived contract keeps no uninvoiced work, and none appears on it,  *)
(* but for what an archiving or an entry of time brings that commits after *)
(* another request has falsified what its handler had checked.             *)
THEOREM ArchivingResolvesContracts == WatchedSpec => ArchivedContractsAreResolved
<1> DEFINE Ops == {"setContract", "archiveClient", "newEntry", "updateEntry"}
           Kept == \A c \in Contracts : Resolved(c) /\ ~Resolved(c)' => Slips(Ops)
<1>1. WatchInv /\ [TrackingNext /\ Watch]_watchedVars => [Kept]_watchedVars
  <2> SUFFICES ASSUME WatchInv, [TrackingNext /\ Watch]_watchedVars, ~Slips(Ops),
                      NEW c \in Contracts, Resolved(c)
               PROVE  Resolved(c)'
    OBVIOUS
  <2>1. [TrackingNext]_dbVars
    BY DEF watchedVars
  <2>2. CASE UNCHANGED tables
    BY <2>2 DEF tables, Resolved, WorkOf, VisibleEntries
  <2>3. CASE ~UNCHANGED tables
    <3>1. PICK t \in Threads : EntryCommit(t) \/ WorkspaceCommit(t)
      BY <2>1, <2>3, OnlyCommitsWrite
    <3>2. Stands(requests[t]) \/ requests[t].op \notin Ops
      BY <2>1, <3>1, BreaksBySlipping
    <3> QED
      BY <3>1, <3>2, ResolvedKept DEF WatchInv
  <2> QED
    BY <2>2, <2>3
<1> QED
  BY AlwaysWatched, <1>1, PTL DEF WatchedSpec, ArchivedContractsAreResolved

(* The contracts of an archived client stay inactive, but for an archiving,*)
(* a new contract or an activation whose checks were overtaken.            *)
THEOREM ArchivingClientsArchivesContracts == WatchedSpec => ArchivedClientsHaveNoActiveContracts
<1> DEFINE Ops == {"newContract", "setContract", "archiveClient"}
           Kept == \A c \in Clients : ContractsFollow(c) /\ ~ContractsFollow(c)' => Slips(Ops)
<1>1. WatchInv /\ [TrackingNext /\ Watch]_watchedVars => [Kept]_watchedVars
  <2> SUFFICES ASSUME WatchInv, [TrackingNext /\ Watch]_watchedVars, ~Slips(Ops),
                      NEW c \in Clients, ContractsFollow(c)
               PROVE  ContractsFollow(c)'
    OBVIOUS
  <2>1. [TrackingNext]_dbVars
    BY DEF watchedVars
  <2>2. CASE UNCHANGED tables
    BY <2>2 DEF tables, ContractsFollow, ContractsOf
  <2>3. CASE ~UNCHANGED tables
    <3>1. PICK t \in Threads : EntryCommit(t) \/ WorkspaceCommit(t)
      BY <2>1, <2>3, OnlyCommitsWrite
    <3>2. Stands(requests[t]) \/ requests[t].op \notin Ops
      BY <2>1, <3>1, BreaksBySlipping
    <3> QED
      BY <3>1, <3>2, ContractsStillFollow DEF WatchInv
  <2> QED
    BY <2>2, <2>3
<1> QED
  BY AlwaysWatched, <1>1, PTL DEF WatchedSpec, ArchivedClientsHaveNoActiveContracts

(* A disabled user has no timer, but for a disabling and a start that have *)
(* overtaken each other.                                                   *)
THEOREM DisablingStopsTimers == WatchedSpec => DisabledUsersHaveNoTimers
<1> DEFINE Ops == {"setEnabled", "startTimer"}
           Kept == \A u \in Users : TimersStopped(u) /\ ~TimersStopped(u)' => Slips(Ops)
<1>1. WatchInv /\ [TrackingNext /\ Watch]_watchedVars => [Kept]_watchedVars
  <2> SUFFICES ASSUME WatchInv, [TrackingNext /\ Watch]_watchedVars, ~Slips(Ops),
                      NEW u \in Users, TimersStopped(u)
               PROVE  TimersStopped(u)'
    OBVIOUS
  <2>1. [TrackingNext]_dbVars
    BY DEF watchedVars
  <2>2. CASE UNCHANGED tables
    BY <2>2 DEF tables, TimersStopped, ActiveTimersOf, VisibleEntries
  <2>3. CASE ~UNCHANGED tables
    <3>1. PICK t \in Threads : EntryCommit(t) \/ WorkspaceCommit(t)
      BY <2>1, <2>3, OnlyCommitsWrite
    <3>2. Stands(requests[t]) \/ requests[t].op \notin Ops
      BY <2>1, <3>1, BreaksBySlipping
    <3> QED
      BY <3>1, <3>2, TimersStayStopped DEF WatchInv
  <2> QED
    BY <2>2, <2>3
<1> QED
  BY AlwaysWatched, <1>1, PTL DEF WatchedSpec, DisabledUsersHaveNoTimers

(* Nothing is left of a deleted task, but for what a request records for it*)
(* that the deletion overtook: the deletion itself never leaves anything.  *)
THEOREM DeletingTasksDeletesTime == WatchedSpec => DeletedTasksHaveNoTime
<1> DEFINE Ops == {"newEntry", "startTimer", "updateEntry", "newSubtask"}
           Kept == \A k \in Tasks : NothingLeftOf(k) /\ ~NothingLeftOf(k)' => Slips(Ops)
<1>1. WatchInv /\ [TrackingNext /\ Watch]_watchedVars => [Kept]_watchedVars
  <2> SUFFICES ASSUME WatchInv, [TrackingNext /\ Watch]_watchedVars, ~Slips(Ops),
                      NEW k \in Tasks, NothingLeftOf(k)
               PROVE  NothingLeftOf(k)'
    OBVIOUS
  <2>1. [TrackingNext]_dbVars
    BY DEF watchedVars
  <2>2. CASE UNCHANGED tables
    BY <2>2 DEF tables, NothingLeftOf, VisibleEntries
  <2>3. CASE ~UNCHANGED tables
    <3>1. PICK t \in Threads : EntryCommit(t) \/ WorkspaceCommit(t)
      BY <2>1, <2>3, OnlyCommitsWrite
    <3>2. Stands(requests[t]) \/ requests[t].op \notin Ops
      BY <2>1, <3>1, BreaksBySlipping
    <3> QED
      BY <3>1, <3>2, NothingComesBack DEF WatchInv
  <2> QED
    BY <2>2, <2>3
<1> QED
  BY AlwaysWatched, <1>1, PTL DEF WatchedSpec, DeletedTasksHaveNoTime
=============================================================================
