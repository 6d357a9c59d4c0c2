----------------------------- MODULE SharedReports -----------------------------
(***************************************************************************)
(* The password of a client's shared report: how administrators replace    *)
(* it, how the new one is displayed once (ReportPasswordConfirmationStore  *)
(* of routes.py, also used when a user's password is reset), and the       *)
(* signed cookies of the people who signed in to the report.               *)
(*                                                                         *)
(* The cookie of a report names report_password_version; the server keeps  *)
(* no list of report sessions.  A reset reads the client, hashes a new     *)
(* password, which takes long, and commits the version it read plus one.   *)
(* The model follows one client: no operation relates two.                 *)
(***************************************************************************)
EXTENDS Naturals, FiniteSetsExt

CONSTANTS
    Admins, Customers,   \* browsers
    Passwords,           \* generated passwords, none of them twice
    None,
    ConfirmationTtl,     \* REPORT_PASSWORD_CONFIRMATION_TTL_SECONDS
    MaximumItems,        \* maximum_items of the store
    MaxReportTime, MaxReleases      \* bounds of the clock and of restarts

ASSUME ReportAssumption ==
    /\ None \notin Passwords /\ Admins \cap Customers = {}
    /\ ConfirmationTtl \in Nat \ {0} /\ MaximumItems \in Nat \ {0}
    /\ MaxReportTime \in Nat /\ MaxReleases \in Nat

VARIABLES
    client,          \* report_password_hash, report_password_version, archived_at
    store,           \* the confirmations: their expiry and their place in the order
    nonce,           \* the confirmation token in each administrator's session
    reportCookie,    \* the report cookie of each customer
    reportRequest,   \* the request of each browser that has read the client
    generated,       \* the passwords generated so far
    displayed,       \* how often each password was displayed
    reportClock,
    release,         \* APP_VERSION, a new one at each restart
    newest,          \* history: the highest report_password_version so far
    doubted          \* history: what newest was when an increment was last lost

confirmations == <<store, nonce, displayed>>
rotations == <<newest, doubted>>
reportVars == <<client, confirmations, reportCookie, reportRequest, generated, reportClock,
                release, rotations>>

Visitors == Admins \cup Customers

NoConfirmations == [p \in {} |-> None]

ReportInit ==
    /\ client = [password |-> None, version |-> 1, active |-> TRUE]
    /\ store = NoConfirmations
    /\ nonce = [a \in Admins |-> None]
    /\ reportCookie = [c \in Customers |-> None]
    /\ reportRequest = [b \in Visitors |-> None]
    /\ generated = {}
    /\ displayed = [p \in Passwords |-> 0]
    /\ reportClock = 0
    /\ release = 1
    /\ newest = 1
    /\ doubted = 0

-----------------------------------------------------------------------------
(* ReportPasswordConfirmationStore *)

(* A token stands for the one password it displays.                        *)
Current == {p \in DOMAIN store : store[p].expires > reportClock}

NewerThan(p) == {q \in Current : store[q].place > store[p].place}

Kept == {p \in Current : Cardinality(NewerThan(p)) < MaximumItems - 1}

Issue(p) ==
    [q \in Kept \cup {p} |->
        IF q = p THEN [expires |-> reportClock + ConfirmationTtl,
                       place |-> Max({0} \cup {store[k].place : k \in Kept}) + 1]
        ELSE store[q]]

(* Mutant: a confirmation may be displayed until it expires. *)
ConsumeConfirmationKeeping(p) == Restrict(store, Current)

(* _prune, then pop: what consume leaves *)
ConsumeConfirmation(p) == Restrict(store, Current \ {p})

(* The timer of an item; it may be late. *)
Discard ==
    /\ \E p \in DOMAIN store \ Current : store' = Restrict(store, DOMAIN store \ {p})
    /\ UNCHANGED <<client, nonce, displayed, reportCookie, reportRequest, generated, reportClock,
                   release>>

-----------------------------------------------------------------------------
(* Administrators *)

(* The handler has read the client and generated a password. *)
Read(a, op) ==
    /\ client.active
    /\ reportRequest[a] = None
    /\ \E p \in Passwords \ generated :
          /\ reportRequest' = [reportRequest EXCEPT ![a] = [op |-> op, password |-> p,
                                                                version |-> client.version]]
          /\ generated' = generated \cup {p}
    /\ UNCHANGED <<client, confirmations, reportCookie, reportClock, release>>

(* reset_client_report_password *)
BeginReset(a) == Read(a, "reset")

(* archive_client *)
BeginArchive(a) == Read(a, "archive")

(* Mutant: the archive keeps the version. *)
CommitKeepingVersion(a) ==
    /\ reportRequest[a] # None /\ reportRequest[a].op \in {"reset", "archive"}
    /\ LET r == reportRequest[a]
       IN  /\ client' = [password |-> r.password,
                         version |-> IF r.op = "reset" THEN r.version + 1 ELSE client.version,
                         active |-> IF r.op = "archive" THEN FALSE ELSE client.active]
           /\ reportRequest' = [reportRequest EXCEPT ![a] =
                                   IF r.op = "reset" THEN [r EXCEPT !.op = "issue"] ELSE None]
    /\ UNCHANGED <<confirmations, reportCookie, generated, reportClock, release>>

(* The commit writes the columns that the handler changed.  What follows a *)
(* reset is the issue of a confirmation.                                   *)
CommitRequest(a) ==
    /\ reportRequest[a] # None /\ reportRequest[a].op \in {"reset", "archive"}
    /\ LET r == reportRequest[a]
       IN  /\ client' = [password |-> r.password,
                         version |-> r.version + 1,
                         active |-> IF r.op = "archive" THEN FALSE ELSE client.active]
           /\ reportRequest' = [reportRequest EXCEPT ![a] =
                                   IF r.op = "reset" THEN [r EXCEPT !.op = "issue"] ELSE None]
    /\ UNCHANGED <<confirmations, reportCookie, generated, reportClock, release>>

(* issue, and the response with the token; it may not arrive. *)
FinishReset(a) ==
    /\ reportRequest[a] # None /\ reportRequest[a].op = "issue"
    /\ store' = Issue(reportRequest[a].password)
    /\ \/ nonce' = [nonce EXCEPT ![a] = reportRequest[a].password]
       \/ UNCHANGED nonce
    /\ reportRequest' = [reportRequest EXCEPT ![a] = None]
    /\ UNCHANGED <<client, reportCookie, generated, displayed, reportClock, release>>

(* client_report_password_confirmation: the page, asked for by one tab or  *)
(* by several; the session of the browser forgets the token when the       *)
(* response arrives.                                                       *)
Confirm(a) ==
    /\ client.active
    /\ nonce[a] # None
    /\ LET p == nonce[a]
       IN  /\ store' = ConsumeConfirmation(p)
           /\ displayed' = [displayed EXCEPT ![p] = IF p \in Current THEN @ + 1 ELSE @]
    /\ nonce' \in {nonce, [nonce EXCEPT ![a] = None]}
    /\ UNCHANGED <<client, reportCookie, reportRequest, generated, reportClock, release>>

(* activate_client *)
Activate ==
    /\ ~client.active
    /\ client' = [client EXCEPT !.active = TRUE]
    /\ UNCHANGED <<confirmations, reportCookie, reportRequest, generated, reportClock, release>>

-----------------------------------------------------------------------------
(* Customers *)

(* shared_report: the client is read once, the password compared with the  *)
(* hash that was read, and the cookie made from the version that was read. *)
Enter(c) ==
    /\ client.active
    /\ client.password # None
    /\ reportRequest[c] = None
    /\ reportRequest' = [reportRequest EXCEPT ![c] = [op |-> "enter", password |-> client.password,
                                                        version |-> client.version]]
    /\ UNCHANGED <<client, confirmations, reportCookie, generated, reportClock, release>>

(* set_shared_report_cookie *)
Entered(c) ==
    /\ reportRequest[c] # None
    /\ reportCookie' = [reportCookie EXCEPT ![c] = [password |-> reportRequest[c].password,
                                                      version |-> reportRequest[c].version,
                                                      release |-> release]]
    /\ reportRequest' = [reportRequest EXCEPT ![c] = None]
    /\ UNCHANGED <<client, confirmations, generated, reportClock, release>>

(* validate_shared_report_cookie *)
Allowed(c) ==
    /\ client.active
    /\ reportCookie[c] # None
    /\ reportCookie[c].release = release
    /\ reportCookie[c].version = client.version

(* shared_report_request_allowed: a refused cookie is deleted. *)
Refuse(c) ==
    /\ client.active /\ reportCookie[c] # None /\ ~Allowed(c)
    /\ reportCookie' = [reportCookie EXCEPT ![c] = None]
    /\ UNCHANGED <<client, confirmations, reportRequest, generated, reportClock, release>>

-----------------------------------------------------------------------------
ReportTick ==
    /\ reportClock < MaxReportTime
    /\ reportClock' = reportClock + 1
    /\ UNCHANGED <<client, confirmations, reportCookie, reportRequest, generated, release>>

(* The process, its store and the requests in it are gone; with a new      *)
(* release load_current_user also ends the administrators' sessions.       *)
Restart ==
    /\ store' = NoConfirmations
    /\ reportRequest' = [b \in Visitors |-> None]
    /\ \/ UNCHANGED <<release, nonce>>
       \/ /\ release < MaxReleases
          /\ release' = release + 1
          /\ nonce' = [a \in Admins |-> None]
    /\ UNCHANGED <<client, reportCookie, generated, displayed, reportClock>>

ReportStep ==
    \/ \E a \in Admins : \/ BeginReset(a) \/ BeginArchive(a) \/ CommitRequest(a)
                         \/ FinishReset(a) \/ Confirm(a)
    \/ \E c \in Customers : Enter(c) \/ Entered(c) \/ Refuse(c)
    \/ Activate \/ Discard \/ ReportTick \/ Restart

(* An increment is lost when the version in the database is no longer the  *)
(* one that the handler read: it is then given out a second time, or goes  *)
(* back to one that was.                                                   *)
LosesIncrement(a) == CommitRequest(a) /\ client.version # reportRequest[a].version

WatchRotations ==
    /\ newest' = IF client'.version > newest THEN client'.version ELSE newest
    /\ doubted' = IF \E a \in Admins : LosesIncrement(a) THEN newest' ELSE doubted

ReportNext == ReportStep /\ WatchRotations

ReportSpec == ReportInit /\ [][ReportNext]_reportVars

-----------------------------------------------------------------------------
(* "plaintext generated passwords are displayed only through a short-lived *)
(* one-time confirmation": reloads, several tabs, lost responses, late     *)
(* timers and a full store never display one twice.                        *)
DisplayedOnce == \A p \in Passwords : displayed[p] <= 1

(* "Rotation invalidates previous report sessions": whoever is admitted to *)
(* a report has presented the present password, however sign-ins overlap   *)
(* resets, archives and restarts.  The exception is a version that was     *)
(* given out before two rotations from one read, or a late one, stored a   *)
(* version anew: the code adds one to what it read, and from then on a     *)
(* version no more tells passwords apart until it exceeds all those.       *)
ReportSessionsAreCurrent ==
    \A c \in DOMAIN reportCookie :
        Allowed(c) /\ reportCookie[c].version > doubted
            => reportCookie[c].password = client.password
=============================================================================
