----------------------------- MODULE Overtaking -----------------------------
(***************************************************************************)
(* Requests that others overtake.  A handler checks, and commits later     *)
(* what it decided then; in between another request may commit.  This      *)
(* module adds to TimeTracking the set of the requests for which that has  *)
(* made a difference: what their handler checked was so, and is not so any *)
(* more.  It is a history variable: no step depends on it.                 *)
(*                                                                         *)
(* What archiving, disabling and deleting promise of a row is not kept by  *)
(* the handlers when they overlap.  The properties say how much is: a      *)
(* promise about a row is broken only by the commit of a request that was  *)
(* overtaken, and only by one of the operations that they list.            *)
(***************************************************************************)
EXTENDS TimeTracking

VARIABLE overtaken    \* the threads whose request has been overtaken

watchedVars == <<dbVars, overtaken>>

Workable(row) == tasks[row.task] = "visible" /\ Operational(ContractOf[row.task])

(* Whether an update of a session is edit_time_entry's *)
Edits(w) == w.op = "updateEntry" /\ w.read.stop # Running /\ w.write.visible

(* What the handler of w checked and these promises rest on is still so.   *)
Stands(w) ==
    /\ w.op = "startTimer" => Workable(w.row) /\ enabled[w.row.user]
    /\ w.op = "newEntry" => Workable(w.row)
    /\ Edits(w) => Workable(w.write)
    /\ w.op = "newContract" => clients[w.client] = "active"
    /\ w.op = "setContract" =>
          IF w.to = "active" THEN clients[ClientOf[w.contract]] = "active"
                             ELSE ~HasPendingInvoiceSessions(w.contract)
    /\ w.op = "archiveClient" =>
          \A k \in ContractsOf(w.client) :
             /\ ~HasPendingInvoiceSessions(k)
             /\ contracts[k] = "active" => k \in w.contracts
    /\ w.op = "newSubtask" => tasks[w.task] = "visible"
    /\ w.op = "setEnabled" /\ ~w.to => ActiveTimersOf(w.user) \subseteq w.stopped

Waits(t) == requests[t] # Idle /\ requests'[t] = requests[t]

Watch ==
    overtaken' = {t \in Threads :
                    /\ Waits(t)
                    /\ t \in overtaken \/ (Stands(requests[t]) /\ ~Stands(requests[t])')}

WatchedInit == Init /\ overtaken = {}

WatchedSpec == WatchedInit /\ [][TrackingNext /\ Watch]_watchedVars

-----------------------------------------------------------------------------
(* The commit of an overtaken request, of one of the operations ops *)
Slips(ops) == \E t \in overtaken : requests[t].op \in ops /\ requests'[t] = Idle

(* Archiving a contract or its client leaves no uninvoiced work, and none  *)
(* appears later, unless a session was entered or moved there by a request *)
(* that the archiving overtook, or the archiving was itself overtaken.  No *)
(* start of a timer breaks it: the INSERT of start_timer asks again.       *)
ArchivedContractsAreResolved ==
    [][\A c \in Contracts : Resolved(c) /\ ~Resolved(c)'
          => Slips({"setContract", "archiveClient", "newEntry", "updateEntry"})]_watchedVars

(* Archiving a client archives its contracts, and none is active again     *)
(* before the client is, unless one was added or activated, or the client  *)
(* was archived, by a request that another had overtaken.                  *)
ArchivedClientsHaveNoActiveContracts ==
    [][\A c \in Clients : ContractsFollow(c) /\ ~ContractsFollow(c)'
          => Slips({"newContract", "setContract", "archiveClient"})]_watchedVars

(* Disabling a user stops any active timer of that user, and none starts   *)
(* before the user is enabled again, unless disabling and a start overtake *)
(* each other.  No correction of a session starts one.                     *)
DisabledUsersHaveNoTimers ==
    [][\A u \in Users : TimersStopped(u) /\ ~TimersStopped(u)'
          => Slips({"setEnabled", "startTimer"})]_watchedVars

(* Deleting a task deletes its subtasks and its recorded time, however     *)
(* late its commit, and nothing is recorded for it afterwards, unless by a *)
(* request that the deletion overtook.                                     *)
DeletedTasksHaveNoTime ==
    [][\A k \in Tasks : NothingLeftOf(k) /\ ~NothingLeftOf(k)'
          => Slips({"newEntry", "startTimer", "updateEntry", "newSubtask"})]_watchedVars
=============================================================================
