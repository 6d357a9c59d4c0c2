--------------------------- MODULE MCTimeTracking ---------------------------
(* Instances of TimeTracking for TLC: every contract belongs to the client  *)
(* c1, every task to the contract k1, every subtask to the task a1.         *)
EXTENDS TimeTracking, FiniteSets, TLC

CONSTANTS c1, k1, a1, u1

ContractClient == [k \in Contracts |-> c1]
TaskContract == [a \in Tasks |-> k1]
SubtaskTask == [s \in Subtasks |-> a1]

AllRows == Clients \cup Contracts \cup Tasks \cup Subtasks
FirstRows == {c1, k1, a1}

OneTask ==
    /\ \A k \in Tasks \ {a1} : tasks[k] = "absent"
    /\ \A s \in Subtasks : subtasks[s] = "absent"

OneContract ==
    /\ \A c \in Clients \ {c1} : clients[c] = "absent"
    /\ \A k \in Contracts \ {k1} : contracts[k] = "absent"
    /\ \A u \in Users : enabled[u]
    /\ \A t \in Threads : requests[t].op \notin {"newClient", "newContract", "setEnabled"}

(* One worker's time is recorded *)
OneWorker ==
    /\ \A e \in DOMAIN entries : entries[e].user = u1
    /\ \A t \in Threads :
          LET w == requests[t]
          IN  /\ w.op \in {"startTimer", "newEntry"} => w.row.user = u1
              /\ w.op = "updateEntry" => w.write.user = u1

OneRequest == \E t \in Threads : \A o \in Threads \ {t} : requests[o] = Idle

(* Bound of the races: one session among two tasks and a subtask, or two    *)
(* sessions of one task, or none while one request at a time adds clients   *)
(* and contracts and disables accounts.                                     *)
FewRows ==
    \/ OneContract /\ OneWorker /\ (Cardinality(DOMAIN entries) <= 1 \/ OneTask)
    \/ OneRequest /\ OneTask /\ entries = <<>>

Symmetric == Permutations(Threads) \cup Permutations(Entries)
=============================================================================
