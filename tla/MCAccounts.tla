----------------------------- MODULE MCAccounts -----------------------------
(* Instances of Accounts for TLC, over the same variables.  The constants   *)
(* of the configuration are for one request at a time; the instance Races   *)
(* has two requests in progress of administrators who signed in before,     *)
(* Members two that change memberships or record member-only transactions,  *)
(* and Overlaps two that increment the version of an account.               *)
EXTENDS AccountHistory, TLC

CONSTANT AnyPassword

VARIABLE scenario

Races == INSTANCE Accounts WITH
    Seeded <- Users, Chosen <- {AnyPassword}, Temporary <- {}, Threads <- 2,
    Handlers <- {"toggleEnabled", "toggleAdmin"}, MaxVersion <- 5

Members == INSTANCE Accounts WITH
    Seeded <- Users, Chosen <- {AnyPassword}, Temporary <- {}, Threads <- 2,
    Handlers <- {"editUser", "disbursement"}, MaxVersion <- 3

Overlaps == INSTANCE Accounts WITH
    Seeded <- Users, Chosen <- {AnyPassword}, Threads <- 2,
    Handlers <- {"editEmail", "resetPassword", "changePassword", "wipePasskeys",
                 "toggleEnabled", "toggleAdmin"},
    MaxVersion <- 5

(* Users have no order: the first of them is an enabled administrator.      *)
FirstAdmin == \A u \in Seeded : EnabledAdmin(account[u])

(* Bounds of the overlaps: every account may sign in, and does so with its  *)
(* password; requests change the second account alone.                      *)
Plain == \A u \in Users : account[u].enabled /\ ~account[u].totp

WithPassword ==
    \A b \in Browsers : cookies'[b] # SignedOut => cookies'[b].factor = "password"

OneAccount ==
    \A b \in Browsers : requests'[b] # Idle => requests'[b].user \notin Seeded

MCInit ==
    /\ \/ scenario = "serial" /\ Init
       \/ scenario = "races" /\ Races!Init
       \/ scenario = "members" /\ Members!Init
       \/ scenario = "overlaps" /\ Overlaps!Init /\ Plain
    /\ FirstAdmin
    /\ NoHistory

(* In the races nobody signs in after the first change of an account: the   *)
(* version of every account is then the one of Init.                        *)
EarlySignIns == cookies' # cookies => \A u \in Users : account[u].version = 3

MCNext ==
    /\ \/ scenario = "serial" /\ Next
       \/ scenario = "races" /\ Races!Next /\ EarlySignIns
       \/ scenario = "members" /\ Members!Next
       \/ scenario = "overlaps" /\ Overlaps!Next /\ WithPassword /\ OneAccount
    /\ Watch
    /\ UNCHANGED scenario

MCSpec == MCInit /\ [][MCNext]_<<historyVars, scenario>>

(* Nothing orders or names browsers and passwords. *)
Symmetric == Permutations(Browsers) \cup Permutations(Chosen)
               \cup Permutations(Temporary)
=============================================================================
