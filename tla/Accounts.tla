------------------------------- MODULE Accounts -------------------------------
(***************************************************************************)
(* User accounts and the sign-ins that depend on them: the user and        *)
(* profile handlers of routes.py, load_current_user of auth.py, and the    *)
(* trigger that keeps an enabled administrator.                            *)
(*                                                                         *)
(* A sign-in is a signed cookie that the server does not remember; it ends *)
(* when the account's session_version is no longer the one in the cookie.  *)
(* A request reads the account, and later commits the columns it changed;  *)
(* its new session_version is one more than the version it read.           *)
(***************************************************************************)
EXTENDS Integers, FiniteSets

CONSTANTS
    Users, Browsers,
    Seeded,        \* the accounts of the bootstrap manifest
    Chosen,        \* passwords that people choose
    Temporary,     \* passwords that the application generates
    SignedOut,     \* a browser without a sign-in
    Threads,       \* how many requests may be in progress at once
    Handlers,      \* the handlers that an instance exercises
    MaxVersion     \* bound of session_version

ASSUME AccountAssumption ==
    /\ Seeded \subseteq Users /\ Seeded # {}
    /\ Chosen \cap Temporary = {}
    /\ Threads \in Nat /\ MaxVersion \in Nat

VARIABLES
    account,      \* user_account rows
    memberOnly,   \* users with an in-kind or retained-earnings transaction
    cookies,      \* the Flask session of each browser
    requests,     \* what the request of each browser is about to write
    generated     \* the temporary passwords handed out so far

vars == <<account, memberOnly, cookies, requests, generated>>

Passwords == Chosen \cup Temporary
Versions == 1..MaxVersion
Roles == {"admin", "user"}

Row == [exists: BOOLEAN, role: Roles, member: BOOLEAN, enabled: BOOLEAN,
        required: BOOLEAN, version: Versions, password: Passwords,
        totp: BOOLEAN, pending: BOOLEAN]

Columns == {"exists", "role", "member", "enabled", "required", "version",
            "password", "totp", "pending"}

(* stage "password": the password was accepted and the TOTP code is awaited. *)
(* password is the one that the sign-in proved (the present one, after a     *)
(* passkey), role the one of the account at its last step: neither is in the *)
(* cookie, they are kept here for Current.                                   *)
Cookie == [user: Users, version: Versions, role: Roles, password: Passwords,
           factor: {"password", "password_totp", "passkey"},
           stage: {"password", "complete"}]

Idle == [op |-> "idle"]

(* The handlers that write an account row. *)
Writers == {"newUser", "editUser", "editEmail", "resetPassword", "disableUserTotp",
            "wipePasskeys", "toggleEnabled", "toggleAdmin", "changePassword",
            "setupTotp", "confirmTotp", "disableTotp"}

Writing == [op: Writers, user: Users, read: Row, write: Row]

EnabledAdmin(row) == row.exists /\ row.role = "admin" /\ row.enabled

-----------------------------------------------------------------------------
(* Bootstrap and the first sign-ins: every account of the manifest has     *)
(* replaced its initial password (session_version 2), and then enrolled    *)
(* TOTP or changed its password again.                                     *)
NoAccount(row) == row.role = "user" /\ ~row.enabled /\ ~row.totp /\ row.version = 1

Init ==
    /\ account \in [Users -> {row \in Row :
          /\ ~row.pending /\ ~row.required
          /\ IF row.exists THEN row.version = 3 ELSE NoAccount(row)
          /\ row.member = (row.role = "admin")
          /\ row.password \in Chosen}]
    /\ \A u \in Users : account[u].exists = (u \in Seeded)
    /\ \E u \in Seeded : EnabledAdmin(account[u])
    /\ memberOnly = {}
    /\ cookies = [b \in Browsers |-> SignedOut]
    /\ requests = [b \in Browsers |-> Idle]
    /\ generated = {}

-----------------------------------------------------------------------------
(* Sign-in *)

(* load_current_user and pending_login_user *)
Valid(b, stage) ==
    /\ cookies[b] # SignedOut
    /\ cookies[b].stage = stage
    /\ LET row == account[cookies[b].user]
       IN  /\ row.exists /\ row.enabled
           /\ cookies[b].version = row.version

SignedIn(b) == Valid(b, "complete")

CookieOf(u, factor, stage) ==
    [user |-> u, version |-> account[u].version, role |-> account[u].role,
     password |-> account[u].password, factor |-> factor, stage |-> stage]

SetCookie(b, cookie) ==
    /\ cookies' = [cookies EXCEPT ![b] = cookie]
    /\ UNCHANGED <<account, memberOnly, requests, generated>>

MayLogIn(b, u) ==
    /\ requests[b] = Idle /\ ~SignedIn(b)
    /\ account[u].exists /\ account[u].enabled

(* Mutant: the second factor is asked for only after the sign-in. *)
LoginWithoutTotp(b, u) ==
    /\ MayLogIn(b, u)
    /\ SetCookie(b, CookieOf(u, "password", "complete"))

(* login, with the right password *)
Login(b, u) ==
    /\ MayLogIn(b, u)
    /\ SetCookie(b, CookieOf(u, "password",
                             IF account[u].totp THEN "password" ELSE "complete"))

(* login_authenticator, with an acceptable code *)
LoginAuthenticator(b) ==
    /\ requests[b] = Idle
    /\ Valid(b, "password")
    /\ account[cookies[b].user].totp
    /\ SetCookie(b, [CookieOf(cookies[b].user, "password_totp", "complete")
                        EXCEPT !.password = cookies[b].password])

(* login_passkey_verify *)
LoginPasskey(b, u) ==
    /\ MayLogIn(b, u)
    /\ SetCookie(b, CookieOf(u, "passkey", "complete"))

(* logout, and the session.clear() of load_current_user *)
Logout(b) ==
    /\ requests[b] = Idle
    /\ cookies[b] # SignedOut
    /\ SetCookie(b, SignedOut)

-----------------------------------------------------------------------------
(* Requests *)

InProgress == {b \in Browsers : requests[b] # Idle}

(* Browser b asks for op on user u; the handler has read the row of u and  *)
(* is about to write the given one.                                        *)
Submit(b, op, u, write) ==
    /\ requests[b] = Idle
    /\ op \in Handlers
    /\ Cardinality(InProgress) < Threads
    /\ write.version <= MaxVersion
    /\ requests' = [requests EXCEPT ![b] =
                       [op |-> op, user |-> u, read |-> account[u], write |-> write]]
    /\ UNCHANGED <<account, memberOnly, cookies>>

(* permission_required and enforce_required_password_change *)
Administrator(b) ==
    /\ SignedIn(b)
    /\ account[cookies[b].user].role = "admin"
    /\ ~account[cookies[b].user].required

Others(b) == {u \in Users : account[u].exists /\ u # cookies[b].user}

Bumped(row) == row.version + 1

(* new_user: the account starts at session version 1 *)
NewUser(b, u) ==
    /\ Administrator(b)
    /\ ~account[u].exists
    /\ \E role \in Roles, member \in BOOLEAN, temporary \in Temporary \ generated :
          /\ Submit(b, "newUser", u,
                    [exists |-> TRUE, role |-> role, member |-> member,
                     enabled |-> TRUE, required |-> TRUE, version |-> 1,
                     password |-> temporary, totp |-> FALSE, pending |-> FALSE])
          /\ generated' = generated \cup {temporary}

(* edit_user: a change of the user type, and perhaps of the email address *)
MayBecome(u, member) == member \/ u \notin memberOnly

(* Mutant: the user type is not checked. *)
EditAnyUser(b, u) ==
    /\ Administrator(b) /\ account[u].exists
    /\ \E member \in BOOLEAN :
          Submit(b, "editUser", u, [account[u] EXCEPT !.member = member])
    /\ UNCHANGED generated

EditUser(b, u) ==
    /\ Administrator(b) /\ account[u].exists
    /\ \E member \in BOOLEAN :
          /\ MayBecome(u, member)
          /\ \/ Submit(b, "editUser", u, [account[u] EXCEPT !.member = member])
             \/ Submit(b, "editEmail", u,
                       [account[u] EXCEPT !.member = member,
                                          !.version = Bumped(account[u])])
    /\ UNCHANGED generated

(* Mutant: the reset does not ask for a change. *)
ResetWithoutChange(b, u) ==
    /\ Administrator(b) /\ u \in Others(b)
    /\ \E temporary \in Temporary \ generated :
          /\ Submit(b, "resetPassword", u,
                    [account[u] EXCEPT !.password = temporary,
                                       !.version = Bumped(account[u])])
          /\ generated' = generated \cup {temporary}

ResetUserPassword(b, u) ==
    /\ Administrator(b) /\ u \in Others(b)
    /\ \E temporary \in Temporary \ generated :
          /\ Submit(b, "resetPassword", u,
                    [account[u] EXCEPT !.password = temporary, !.required = TRUE,
                                       !.version = Bumped(account[u])])
          /\ generated' = generated \cup {temporary}

DisableUserTotp(b, u) ==
    /\ Administrator(b) /\ u \in Others(b) /\ account[u].totp
    /\ Submit(b, "disableUserTotp", u,
              [account[u] EXCEPT !.totp = FALSE, !.pending = FALSE,
                                 !.version = Bumped(account[u])])
    /\ UNCHANGED generated

(* wipe_user_passkeys: the passkeys are rows of another table *)
WipeUserPasskeys(b, u) ==
    /\ Administrator(b) /\ u \in Others(b)
    /\ Submit(b, "wipePasskeys", u, [account[u] EXCEPT !.version = Bumped(account[u])])
    /\ UNCHANGED generated

ToggleUserEnabled(b, u) ==
    /\ Administrator(b) /\ u \in Others(b)
    /\ Submit(b, "toggleEnabled", u,
              [account[u] EXCEPT !.enabled = ~account[u].enabled,
                                 !.version = Bumped(account[u])])
    /\ UNCHANGED generated

ToggleUserAdmin(b, u) ==
    /\ Administrator(b) /\ u \in Others(b)
    /\ Submit(b, "toggleAdmin", u,
              [account[u] EXCEPT !.role = IF account[u].role = "admin" THEN "user" ELSE "admin",
                                 !.version = Bumped(account[u])])
    /\ UNCHANGED generated

(* change_password, which a required change may reach and nothing else *)
ChangePassword(b) ==
    /\ SignedIn(b)
    /\ LET u == cookies[b].user
       IN  \E password \in Chosen \ {account[u].password} :
              Submit(b, "changePassword", u,
                     [account[u] EXCEPT !.password = password, !.required = FALSE,
                                        !.version = Bumped(account[u])])
    /\ UNCHANGED generated

Profile(b) == SignedIn(b) /\ ~account[cookies[b].user].required

SetupTotp(b) ==
    /\ Profile(b)
    /\ LET u == cookies[b].user
       IN  /\ ~account[u].totp
           /\ Submit(b, "setupTotp", u, [account[u] EXCEPT !.pending = TRUE])
    /\ UNCHANGED generated

(* confirm_totp, with an acceptable code of the pending secret; or expired *)
ConfirmTotp(b) ==
    /\ Profile(b)
    /\ LET u == cookies[b].user
       IN  /\ ~account[u].totp
           /\ \/ /\ account[u].pending
                 /\ Submit(b, "confirmTotp", u,
                           [account[u] EXCEPT !.totp = TRUE, !.pending = FALSE,
                                              !.version = Bumped(account[u])])
              \/ Submit(b, "setupTotp", u, [account[u] EXCEPT !.pending = FALSE])
    /\ UNCHANGED generated

DisableTotp(b) ==
    /\ Profile(b)
    /\ LET u == cookies[b].user
       IN  /\ account[u].totp
           /\ Submit(b, "disableTotp", u,
                     [account[u] EXCEPT !.totp = FALSE, !.pending = FALSE,
                                        !.version = Bumped(account[u])])
    /\ UNCHANGED generated

-----------------------------------------------------------------------------
(* Commits *)

Merge(current, read, write) ==
    [c \in Columns |-> IF read[c] = write[c] THEN current[c] ELSE write[c]]

(* Mutant: a trigger that looks at the role only. *)
RoleGuard(u, row) ==
    (EnabledAdmin(account[u]) /\ row.role # "admin")
        => \E v \in Users \ {u} : EnabledAdmin(account[v])

(* enabled_admin_update_guard *)
Accepted(u, row) ==
    (EnabledAdmin(account[u]) /\ ~EnabledAdmin(row))
        => \E v \in Users \ {u} : EnabledAdmin(account[v])

SelfService == {"changePassword", "confirmTotp", "disableTotp"}

(* The cookie with which the response of request r leaves browser b. *)
Responded(b, r) ==
    IF r.op \in SelfService THEN SignedOut
    ELSE IF r.op = "editEmail" /\ cookies[b] # SignedOut /\ r.user = cookies[b].user
    THEN [cookies[b] EXCEPT !.version = r.write.version]
    ELSE cookies[b]

(* The row that the INSERT of new_user or the UPDATE of the others makes   *)
Stored(r) ==
    IF r.op = "newUser" THEN r.write ELSE Merge(account[r.user], r.read, r.write)

(* The email addresses are unique. *)
Unique(r) == r.op = "newUser" => ~account[r.user].exists

(* The commit, or its refusal by the schema (409).  The process may die    *)
(* before it has answered: the browser then keeps the cookie it had.       *)
Commit(b) ==
    /\ requests[b] # Idle
    /\ LET r == requests[b]
           done == Unique(r) /\ Accepted(r.user, Stored(r))
       IN  \/ /\ done
              /\ account' = [account EXCEPT ![r.user] = Stored(r)]
              /\ \/ cookies' = [cookies EXCEPT ![b] = Responded(b, r)]
                 \/ UNCHANGED cookies
           \/ /\ ~done
              /\ UNCHANGED <<account, cookies>>
    /\ requests' = [requests EXCEPT ![b] = Idle]
    /\ UNCHANGED <<memberOnly, generated>>

(* The request fails or the process dies before the commit. *)
Abandon(b) ==
    /\ requests[b] # Idle
    /\ requests' = [requests EXCEPT ![b] = Idle]
    /\ UNCHANGED <<account, memberOnly, cookies, generated>>

(* create_disbursement of a kind for members only: one immediate transaction *)
MemberDisbursement(u) ==
    /\ "disbursement" \in Handlers
    /\ Cardinality(InProgress) < Threads
    /\ account[u].exists /\ account[u].member
    /\ u \notin memberOnly
    /\ memberOnly' = memberOnly \cup {u}
    /\ UNCHANGED <<account, cookies, requests, generated>>

Next ==
    \/ \E b \in Browsers, u \in Users :
          \/ Login(b, u) \/ LoginPasskey(b, u)
          \/ NewUser(b, u) \/ EditUser(b, u) \/ ResetUserPassword(b, u)
          \/ DisableUserTotp(b, u) \/ WipeUserPasskeys(b, u)
          \/ ToggleUserEnabled(b, u) \/ ToggleUserAdmin(b, u)
    \/ \E b \in Browsers :
          \/ LoginAuthenticator(b) \/ Logout(b)
          \/ ChangePassword(b) \/ SetupTotp(b) \/ ConfirmTotp(b) \/ DisableTotp(b)
          \/ Commit(b) \/ Abandon(b)
    \/ \E u \in Users : MemberDisbursement(u)

Spec == Init /\ [][Next]_vars

-----------------------------------------------------------------------------
(* Every row, cookie and pending write has its type.                       *)
TypeOK ==
    /\ account \in [Users -> Row]
    /\ memberOnly \subseteq Users
    /\ cookies \in [Browsers -> Cookie \cup {SignedOut}]
    /\ requests \in [Browsers -> Writing \cup {Idle}]
    /\ generated \subseteq Temporary

(* Some administrator can always sign in, although two administrators may  *)
(* disable or demote each other at once and no handler looks for a third:  *)
(* only the trigger does, on the row that results.                         *)
EnabledAdminRemains == \E u \in Users : EnabledAdmin(account[u])

-----------------------------------------------------------------------------
(* What docs/architecture.md and docs/security.md say of the session       *)
(* version, of generated passwords and of members.  Requests that overlap  *)
(* break each of them: AccountHistory says which, and SignInsAreCurrent    *)
(* has a run that shows one.                                               *)

(* The holder of cookie knew the password and role of row and, if the row  *)
(* has TOTP, passed it or used a passkey.                                  *)
Current(cookie, row) ==
    /\ cookie.password = row.password
    /\ cookie.role = row.role
    /\ row.totp => cookie.factor # "password"

(* Whoever is signed in has proved what the account asks for at present: a *)
(* reset, a role change or an enrolment ended every older sign-in.         *)
SignInsAreCurrent ==
    \A b \in Browsers : SignedIn(b) => Current(cookies[b], account[cookies[b].user])

(* A change is required of u as long as its password is a generated one. *)
ChangeRequired(u) ==
    account[u].exists /\ account[u].password \in Temporary => account[u].required

(* A user with in-kind transactions or retained earnings is a member. *)
OwnsAsMember(u) == u \in memberOnly => account[u].member
=============================================================================
