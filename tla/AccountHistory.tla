--------------------------- MODULE AccountHistory ---------------------------
(***************************************************************************)
(* What remains of three promises about accounts when requests overlap.    *)
(* This module adds history variables to Accounts, on which no step        *)
(* depends.                                                                *)
(*                                                                         *)
(* An increment of session_version is lost when two requests increment     *)
(* from one read.  A sign-in of the version that both store may then prove *)
(* too little, and so may those of the versions that the account has had   *)
(* before, since its version may have gone down.  doubted is the highest   *)
(* of them.                                                                *)
(***************************************************************************)
EXTENDS Accounts

VARIABLES
    highest,      \* the highest session_version that each account has had
    doubted,      \* ... when an increment of it was last lost
    overtaken     \* the browsers whose request has been overtaken

historyVars == <<vars, highest, doubted, overtaken>>

(* The request of b changes something as it ends. *)
Commits(b) ==
    /\ requests[b] # Idle /\ requests'[b] = Idle
    /\ <<account, cookies>>' # <<account, cookies>>

Increments(r) == r.write.version # r.read.version

LosesIncrement(r) == Increments(r) /\ account[r.user].version # r.read.version

(* The response of edit_user takes a doubted sign-in along. *)
KeepsDoubted(b, r) ==
    /\ r.op = "editEmail"
    /\ r.read.version <= doubted[r.user]
    /\ cookies'[b] # cookies[b]

Doubtful(u) ==
    \E b \in Browsers :
       /\ Commits(b) /\ requests[b].user = u
       /\ LosesIncrement(requests[b]) \/ KeepsDoubted(b, requests[b])

(* What the handler of r saw and these promises rest on is still so. *)
Stands(r) ==
    /\ r.op \in {"editUser", "editEmail"} /\ ~r.write.member => r.user \notin memberOnly
    /\ r.op = "resetPassword" /\ r.read.required => account[r.user].required

Waits(b) == requests[b] # Idle /\ requests'[b] = requests[b]

Larger(x, y) == IF x >= y THEN x ELSE y

Watch ==
    /\ highest' = [u \in Users |-> Larger(highest[u], account'[u].version)]
    /\ doubted' = [u \in Users |-> IF Doubtful(u) THEN highest'[u] ELSE doubted[u]]
    /\ overtaken' = {b \in Browsers :
                       /\ Waits(b)
                       /\ b \in overtaken \/ (Stands(requests[b]) /\ ~Stands(requests[b])')}

NoHistory ==
    /\ highest = [u \in Users |-> account[u].version]
    /\ doubted = [u \in Users |-> 0]
    /\ overtaken = {}

WatchedSpec == Init /\ NoHistory /\ [][Next /\ Watch]_historyVars

-----------------------------------------------------------------------------
(* A reset, a role change or an enrolment ends every older sign-in, and    *)
(* while increments are lost the first version that is above all those     *)
(* that the account has had ends them: what is not doubted is current.     *)
OlderSignInsEnd ==
    \A b \in Browsers :
       SignedIn(b) /\ cookies[b].version > doubted[cookies[b].user]
          => Current(cookies[b], account[cookies[b].user])

(* The commit of an overtaken request on u, of one of the operations ops *)
Slips(u, ops) ==
    \E b \in overtaken : /\ requests[b].op \in ops /\ requests[b].user = u
                         /\ requests'[b] = Idle

(* A generated password must be changed at the next sign-in, unless its    *)
(* reset found a change required and its user made that change before the  *)
(* reset was stored.                                                       *)
TemporaryPasswordsAreChanged ==
    [][\A u \in Users : ChangeRequired(u) /\ ~ChangeRequired(u)'
          => Slips(u, {"resetPassword"})]_historyVars

(* A user with in-kind transactions or retained earnings stays a member,   *)
(* unless the first of them was recorded while an edit of the user was     *)
(* under way.                                                              *)
MemberTransactions ==
    [][\A u \in Users : OwnsAsMember(u) /\ ~OwnsAsMember(u)'
          => Slips(u, {"editUser", "editEmail"})]_historyVars
=============================================================================
