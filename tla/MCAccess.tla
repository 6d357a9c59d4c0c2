------------------------------ MODULE MCAccess ------------------------------
(* What guards access, for TLC: reauthentication with TOTP and passkeys,    *)
(* the shared report with its passwords, and the limiter of failed          *)
(* attempts.  They share no state.  Each scenario exercises one of them,    *)
(* and the others rest in an initial state.                                 *)
(*                                                                          *)
(* The constants of the configuration are those of the scenarios "totp"     *)
(* (two requests in progress over TOTP codes, sign-ins and TOTP removal),   *)
(* "reports" and "limiter" (a key for each browser, in a table of one key). *)
(* Audit events may fail to be written in all of them.                      *)
EXTENDS Reauthentication, SharedReports, LoginLimiter, TLC

CONSTANTS
    b0, t0         \* the browser and the thread of the smaller scenarios

VARIABLE scenario

(* One request at a time, with a second secret enrolled *)
Enrol == INSTANCE Reauthentication WITH
    Browsers <- {b0}, Threads <- {t0}, Ttl <- 2, Secrets <- 2, MaxTime <- 3,
    MaxVersion <- 4,
    Operations <- {"login", "reauthenticate", "password", "act", "enrol"}

(* Two requests in progress that enrol one secret, or disable TOTP *)
Enrolments == INSTANCE Reauthentication WITH
    Browsers <- {b0}, Secrets <- 2, MaxVersion <- 4,
    Operations <- {"login", "enrol", "disable"}

(* Two requests in progress over passkeys and two sensitive actions *)
Passkeys == INSTANCE Reauthentication WITH
    Browsers <- {b0}, Paths <- {"edit", "manage"}, DisablePath <- "edit",
    ManagePath <- "manage", MaxVersion <- 1, MaxChallenges <- 2, MaxProofs <- 2,
    Operations <- {"passkey", "act"}

(* The constants of shared reports are those of the scenario "reports": one *)
(* administrator and one customer, since customers share nothing they      *)
(* write.  Here two administrators, whose rotations overlap with a         *)
(* customer's sign-in.                                                     *)
Rotations == INSTANCE SharedReports WITH
    MaxReportTime <- 0, MaxReleases <- 1, Admins <- Browsers

(* Two administrators, and a store of two confirmations *)
Confirmations == INSTANCE SharedReports WITH
    MaximumItems <- 2, MaxReportTime <- 3, Admins <- Browsers, Customers <- {}

ASSUME /\ Enrol!ReauthenticationAssumption /\ Enrolments!ReauthenticationAssumption
       /\ Passkeys!ReauthenticationAssumption
       /\ Rotations!ReportAssumption /\ Confirmations!ReportAssumption

SomeoneRests == account.secret = 0 /\ \A b \in DOMAIN cookie : cookie[b] = SignedOut

MCInit ==
    /\ \/ scenario = "totp" /\ Init
       \/ scenario = "enrol" /\ Enrol!Init
       \/ scenario = "enrolments" /\ Enrolments!Init
       \/ scenario = "passkeys" /\ Passkeys!Init
       \/ scenario \in {"reports", "rotations", "confirmations", "limiter"}
          /\ Enrol!Init /\ SomeoneRests
    /\ CASE scenario = "rotations" -> Rotations!ReportInit
         [] scenario = "confirmations" -> Confirmations!ReportInit
         [] OTHER -> ReportInit
    /\ LimiterInit

MCNext ==
    /\ \/ /\ \/ scenario = "totp" /\ Next
             \/ scenario = "enrol" /\ Enrol!Next
             \/ scenario = "enrolments" /\ Enrolments!Next
             \/ scenario = "passkeys" /\ Passkeys!Next
          /\ UNCHANGED <<reportVars, limiterVars>>
       \/ /\ \/ scenario = "reports" /\ ReportNext
             \/ scenario = "rotations" /\ Rotations!ReportNext
             \/ scenario = "confirmations" /\ Confirmations!ReportNext
          /\ UNCHANGED <<vars, limiterVars>>
       \/ /\ scenario = "limiter" /\ LimiterNext
          /\ UNCHANGED <<vars, reportVars>>
    /\ UNCHANGED scenario

MCSpec == MCInit /\ [][MCNext]_<<scenario, vars, reportVars, limiterVars>>

(* Nothing orders or names browsers and threads. *)
Symmetric == Permutations(Browsers) \cup Permutations(Threads)
=============================================================================
