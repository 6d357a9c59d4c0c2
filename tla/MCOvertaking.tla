---------------------------- MODULE MCOvertaking ----------------------------
(* Instances of Overtaking for TLC: those of TimeTracking, but the tasks    *)
(* other than a1 belong to a second contract.                               *)
EXTENDS Overtaking, MCTimeTracking

CONSTANT k2

EitherContract == [a \in Tasks |-> IF a = a1 THEN k1 ELSE k2]

(* Bound of the instance: two users of one task, who are disabled and       *)
(* enabled, or one user among the tasks of both contracts                   *)
FewUsers ==
    \/ \A k \in Tasks \ {a1} : tasks[k] = "absent"
    \/ /\ \A u \in Users : enabled[u]
       /\ \A t \in Threads : requests[t].op # "setEnabled"
       /\ \A e \in DOMAIN entries : entries[e].user = u1
=============================================================================
