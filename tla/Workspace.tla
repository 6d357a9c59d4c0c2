------------------------------ MODULE Workspace ------------------------------
(***************************************************************************)
(* The work hierarchy and the accounts around it: the handlers of          *)
(* routes.py that create, edit, archive and activate clients and           *)
(* contracts, create and delete tasks and subtasks, and enable and disable *)
(* users.  Every caller is an administrator.                               *)
(***************************************************************************)
EXTENDS Database

WorkspaceWrites ==
         [op: {"newClient"}]
    \cup [op: {"newContract"}, client: Clients, details: Details]
    \cup [op: {"editContract"}, contract: Contracts, read: Details, details: Details]
    \cup [op: {"setContract"}, contract: Contracts, to: {"active", "archived"}]
    \cup [op: {"archiveClient"}, client: Clients, contracts: SUBSET Contracts]
    \cup [op: {"activateClient"}, client: Clients]
    \cup [op: {"newTask"}, contract: Contracts]
    \cup [op: {"newSubtask"}, task: Tasks]
    \cup [op: {"deleteTask"}, task: Tasks]
    \cup [op: {"deleteSubtask"}, subtask: Subtasks]
    \cup [op: {"setEnabled"}, user: Users, to: BOOLEAN,
          stopped: SUBSET Entries, at: Time]

-----------------------------------------------------------------------------
(* Clients and contracts *)

NewClient(t) == Prepare(t, [op |-> "newClient"])

CommitNewClient(t) ==
    /\ Finish(t, "newClient")
    /\ \E c \in Clients : /\ clients[c] = "absent"
                          /\ clients' = [clients EXCEPT ![c] = "active"]
    /\ UNCHANGED <<contracts, tasks, subtasks, details, enabled, entries>>

NewContract(t, c, d) ==
    /\ clients[c] = "active"
    /\ Prepare(t, [op |-> "newContract", client |-> c, details |-> d])

CommitNewContract(t) ==
    /\ Finish(t, "newContract")
    /\ \E c \in Contracts :
          /\ contracts[c] = "absent"
          /\ ClientOf[c] = requests[t].client
          /\ contracts' = [contracts EXCEPT ![c] = "active"]
          /\ details' = [details EXCEPT ![c] = requests[t].details]
    /\ UNCHANGED <<clients, tasks, subtasks, enabled, entries>>

EditContract(t, c, d) ==
    /\ Operational(c)
    /\ Prepare(t, [op |-> "editContract", contract |-> c, read |-> details[c],
                   details |-> d])

CommitEditContract(t) ==
    /\ Finish(t, "editContract")
    /\ LET w == requests[t]
       IN  details' = [details EXCEPT ![w.contract] =
                          Column(details[w.contract], w.read, w.details)]
    /\ UNCHANGED <<clients, contracts, tasks, subtasks, enabled, entries>>

ArchiveContract(t, c) ==
    /\ Operational(c)
    /\ ~HasPendingInvoiceSessions(c)
    /\ Prepare(t, [op |-> "setContract", contract |-> c, to |-> "archived"])

(* Mutant: a contract of an archived client may be activated. *)
ActivateAnyContract(t, c) ==
    /\ contracts[c] = "archived"
    /\ Prepare(t, [op |-> "setContract", contract |-> c, to |-> "active"])

ActivateContract(t, c) ==
    /\ contracts[c] = "archived"
    /\ clients[ClientOf[c]] = "active"
    /\ Prepare(t, [op |-> "setContract", contract |-> c, to |-> "active"])

CommitSetContract(t) ==
    /\ Finish(t, "setContract")
    /\ contracts' = [contracts EXCEPT ![requests[t].contract] = requests[t].to]
    /\ UNCHANGED <<clients, tasks, subtasks, details, enabled, entries>>

ContractsOf(c) == {k \in Contracts : ClientOf[k] = c}

ArchiveClient(t, c) ==
    /\ clients[c] = "active"
    /\ ~\E k \in ContractsOf(c) : HasPendingInvoiceSessions(k)
    /\ Prepare(t, [op |-> "archiveClient", client |-> c,
                   contracts |-> {k \in ContractsOf(c) : contracts[k] = "active"}])

CommitArchiveClient(t) ==
    /\ Finish(t, "archiveClient")
    /\ clients' = [clients EXCEPT ![requests[t].client] = "archived"]
    /\ contracts' = [k \in Contracts |->
                        IF k \in requests[t].contracts THEN "archived" ELSE contracts[k]]
    /\ UNCHANGED <<tasks, subtasks, details, enabled, entries>>

ActivateClient(t, c) ==
    /\ clients[c] = "archived"
    /\ Prepare(t, [op |-> "activateClient", client |-> c])

CommitActivateClient(t) ==
    /\ Finish(t, "activateClient")
    /\ clients' = [clients EXCEPT ![requests[t].client] = "active"]
    /\ UNCHANGED <<contracts, tasks, subtasks, details, enabled, entries>>

-----------------------------------------------------------------------------
(* Tasks and subtasks *)

NewTask(t, c) ==
    /\ Operational(c)
    /\ Prepare(t, [op |-> "newTask", contract |-> c])

CommitNewTask(t) ==
    /\ Finish(t, "newTask")
    /\ \E k \in Tasks : /\ tasks[k] = "absent"
                        /\ ContractOf[k] = requests[t].contract
                        /\ tasks' = [tasks EXCEPT ![k] = "visible"]
    /\ UNCHANGED <<clients, contracts, subtasks, details, enabled, entries>>

NewSubtask(t, k) ==
    /\ tasks[k] = "visible"
    /\ Operational(ContractOf[k])
    /\ Prepare(t, [op |-> "newSubtask", task |-> k])

CommitNewSubtask(t) ==
    /\ Finish(t, "newSubtask")
    /\ \E s \in Subtasks : /\ subtasks[s] = "absent"
                           /\ TaskOf[s] = requests[t].task
                           /\ subtasks' = [subtasks EXCEPT ![s] = "visible"]
    /\ UNCHANGED <<clients, contracts, tasks, details, enabled, entries>>

(* require_pending_sessions_for_deletion, on the sessions it would hide *)
Deletable(work) == \A e \in work : entries[e].billing = "pending_invoice"

DeleteTask(t, k) ==
    /\ tasks[k] = "visible"
    /\ Operational(ContractOf[k])
    /\ Deletable({e \in VisibleEntries : entries[e].task = k})
    /\ Prepare(t, [op |-> "deleteTask", task |-> k])

Hide(work) ==
    entries' = [e \in DOMAIN entries |->
                   IF e \in work THEN [entries[e] EXCEPT !.visible = FALSE]
                                 ELSE entries[e]]

(* Mutant: the subtasks of a deleted task stay. *)
CommitDeleteTaskOnly(t) ==
    /\ Finish(t, "deleteTask")
    /\ Hide({e \in VisibleEntries : entries[e].task = requests[t].task})
    /\ tasks' = [tasks EXCEPT ![requests[t].task] = "hidden"]
    /\ UNCHANGED <<clients, contracts, subtasks, details, enabled>>

(* hide_task_data: three bulk UPDATEs, evaluated when they run *)
CommitDeleteTask(t) ==
    /\ Finish(t, "deleteTask")
    /\ LET k == requests[t].task
       IN  /\ Hide({e \in VisibleEntries : entries[e].task = k})
           /\ subtasks' = [s \in Subtasks |->
                              IF TaskOf[s] = k /\ subtasks[s] # "absent"
                              THEN "hidden" ELSE subtasks[s]]
           /\ tasks' = [tasks EXCEPT ![k] = "hidden"]
    /\ UNCHANGED <<clients, contracts, details, enabled>>

DeleteSubtask(t, s) ==
    /\ subtasks[s] = "visible"
    /\ tasks[TaskOf[s]] = "visible"
    /\ Operational(ContractOf[TaskOf[s]])
    /\ Deletable({e \in VisibleEntries : entries[e].subtask = s})
    /\ Prepare(t, [op |-> "deleteSubtask", subtask |-> s])

CommitDeleteSubtask(t) ==
    /\ Finish(t, "deleteSubtask")
    /\ LET s == requests[t].subtask
       IN  /\ Hide({e \in VisibleEntries : entries[e].subtask = s})
           /\ subtasks' = [subtasks EXCEPT ![s] = "hidden"]
    /\ UNCHANGED <<clients, contracts, tasks, details, enabled>>

-----------------------------------------------------------------------------
(* Accounts *)

ActiveTimersOf(u) ==
    {e \in VisibleEntries : entries[e].user = u /\ entries[e].stop = Running}

(* Mutant: disabling an account leaves its timers running. *)
ToggleUserOnly(t, u) ==
    /\ \E actor \in Users \ {u} : enabled[actor]
    /\ Prepare(t, [op |-> "setEnabled", user |-> u, to |-> ~enabled[u], at |-> now,
                   stopped |-> {}])

(* toggle_user_enabled, by another enabled administrator.  A stop time is   *)
(* max(now, started_at), which is now while the clock never runs backwards. *)
ToggleUserEnabled(t, u) ==
    /\ \E actor \in Users \ {u} : enabled[actor]
    /\ Prepare(t, [op |-> "setEnabled", user |-> u, to |-> ~enabled[u], at |-> now,
                   stopped |-> IF enabled[u] THEN ActiveTimersOf(u) ELSE {}])

CommitSetEnabled(t) ==
    /\ Finish(t, "setEnabled")
    /\ LET w == requests[t]
           Stopped(e) == [entries[e] EXCEPT !.stop = w.at]
           accepted == \A e \in w.stopped :
                          /\ StopsAfterStart(Stopped(e))
                          /\ ~OverlapsAny(Stopped(e), DOMAIN entries \ {e})
       IN  IF accepted
           THEN /\ enabled' = [enabled EXCEPT ![w.user] = w.to]
                /\ entries' = [e \in DOMAIN entries |->
                                  IF e \in w.stopped THEN Stopped(e) ELSE entries[e]]
           ELSE UNCHANGED <<enabled, entries>>
    /\ UNCHANGED <<clients, contracts, tasks, subtasks, details>>

-----------------------------------------------------------------------------
WorkspaceRequest(t) ==
    \/ NewClient(t)
    \/ \E c \in Clients : \/ \E d \in Details : NewContract(t, c, d)
                          \/ ArchiveClient(t, c)
                          \/ ActivateClient(t, c)
    \/ \E c \in Contracts : \/ \E d \in Details : EditContract(t, c, d)
                            \/ ArchiveContract(t, c)
                            \/ ActivateContract(t, c)
                            \/ NewTask(t, c)
    \/ \E k \in Tasks : NewSubtask(t, k) \/ DeleteTask(t, k)
    \/ \E s \in Subtasks : DeleteSubtask(t, s)
    \/ \E u \in Users : ToggleUserEnabled(t, u)

WorkspaceCommit(t) ==
    \/ CommitNewClient(t) \/ CommitNewContract(t) \/ CommitEditContract(t)
    \/ CommitSetContract(t) \/ CommitArchiveClient(t) \/ CommitActivateClient(t)
    \/ CommitNewTask(t) \/ CommitNewSubtask(t)
    \/ CommitDeleteTask(t) \/ CommitDeleteSubtask(t)
    \/ CommitSetEnabled(t)
=============================================================================
