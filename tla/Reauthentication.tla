--------------------------- MODULE Reauthentication ---------------------------
(***************************************************************************)
(* What one account must prove, and how often a proof counts: TOTP codes   *)
(* (consume_totp of auth.py), passkey challenges (passkeys.py) and the     *)
(* grants for sensitive actions (routes.py).                               *)
(*                                                                         *)
(* A browser's session is a cookie.  A request works on the cookie that it *)
(* brought, and its response replaces the browser's cookie as a whole, so  *)
(* that two tabs overwrite each other.  The account, the replay counter    *)
(* and the challenges are in the database.                                 *)
(***************************************************************************)
EXTENDS Integers, Sequences, FiniteSets

CONSTANTS
    Browsers, Threads,
    Paths,           \* sensitive actions
    DisablePath,     \* the one that disables TOTP
    ManagePath,      \* the one that adds a passkey
    Nothing,
    Ttl,             \* lifetime of challenges, pending actions and grants
    Operations,      \* the operations that an instance exercises
    Secrets,         \* how many TOTP secrets the account may have had
    MaxTime, MaxVersion, MaxChallenges, MaxProofs       \* bounds

ASSUME ReauthenticationAssumption ==
    /\ DisablePath \in Paths /\ ManagePath \in Paths /\ Nothing \notin Paths
    /\ Ttl \in Nat \ {0} /\ Secrets \in Nat
    /\ {MaxTime, MaxVersion, MaxChallenges, MaxProofs} \subseteq Nat

VARIABLES
    account,      \* session_version, totp_secret and pending_totp_secret
    replay,       \* the last TOTP counter accepted, 0 for none
    challenges,   \* webauthn_challenge rows
    cookie,       \* the session of each browser
    request,      \* what each thread works on
    clock,        \* in TOTP steps
    issued,       \* every challenge ever issued
    spent,        \* how often each of them was accepted
    used,         \* how often each code <<secret, counter>> was accepted
    proofs,       \* the reauthentications that succeeded
    overtaken,    \* the threads whose account has changed since they read it
    lost          \* how often it was when the database last forgot the code

database == <<account, replay, challenges>>
ghosts == <<issued, spent, used, proofs>>
history == <<overtaken, lost>>
vars == <<account, replay, challenges, cookie, request, clock, ghosts, history>>

Counters == 0..MaxTime + 1
Ceremonies == {"registration", "authentication", "reauthentication"}

(* Secret 0 is none, version 0 is no sign-in. *)
SignedOut == [version |-> 0, pending |-> Nothing, grant |-> Nothing]
SignedInAt(version) == [SignedOut EXCEPT !.version = version]

Init ==
    /\ account \in [version: {1}, secret: {0, 1}, pending: {0}, secrets: {1}]
    /\ replay = 0
    /\ challenges = {}
    /\ cookie \in [Browsers -> {SignedOut, SignedInAt(1)}]
    /\ request = [t \in Threads |-> Nothing]
    /\ clock = 1
    /\ issued = <<>> /\ spent = <<>>
    /\ used = [code \in (1..Secrets) \X Counters |-> 0]
    /\ proofs = <<>>
    /\ overtaken = {} /\ lost = used

-----------------------------------------------------------------------------
(* load_current_user *)
SignedIn(b) == cookie[b].version = account.version

(* pending_sensitive_action *)
Pending(c) ==
    /\ c.pending # Nothing
    /\ c.pending.version = account.version
    /\ c.pending.expires > clock

(* sensitive_action_authorized *)
Authorized(c, path) ==
    /\ c.grant # Nothing
    /\ c.grant.path = path
    /\ c.grant.version = account.version
    /\ c.grant.until > clock

(* The response of a request of browser b carries the cookie c, and may    *)
(* not arrive.                                                             *)
Responds(b, c) == cookie' \in {cookie, [cookie EXCEPT ![b] = c]}

(* authorize_sensitive_action, after the given proof by browser b *)
Authorize(b, c, path, version, proof) ==
    /\ Len(proofs) < MaxProofs
    /\ proofs' = Append(proofs, proof)
    /\ Responds(b, [c EXCEPT !.pending = Nothing,
                             !.grant = [path |-> path, version |-> version,
                                        until |-> clock + Ttl, proof |-> Len(proofs) + 1]])

Begin(t, r) ==
    /\ request[t] = Nothing
    /\ request' = [request EXCEPT ![t] = r]

End(t) == request' = [request EXCEPT ![t] = Nothing]

-----------------------------------------------------------------------------
(* Sign-in with the password alone, and sign-out *)

Login(b) ==
    /\ "login" \in Operations
    /\ ~SignedIn(b) /\ account.secret = 0
    /\ cookie' = [cookie EXCEPT ![b] = SignedInAt(account.version)]
    /\ UNCHANGED <<database, request, clock, ghosts>>

Logout(b) ==
    /\ cookie[b] # SignedOut
    /\ cookie' = [cookie EXCEPT ![b] = SignedOut]
    /\ UNCHANGED <<database, request, clock, ghosts>>

(* authenticate_sensitive_action, GET *)
StartReauthentication(b, path) ==
    /\ SignedIn(b)
    /\ ~Authorized(cookie[b], path)
    /\ cookie' = [cookie EXCEPT ![b] =
          [@ EXCEPT !.grant = Nothing,
                    !.pending = [path |-> path, version |-> account.version,
                                 expires |-> clock + Ttl, verified |-> FALSE]]]
    /\ UNCHANGED <<database, request, clock, ghosts>>

(* authenticate_sensitive_action, POST with the right password: the user   *)
(* is read before the password is hashed, and the response comes after.    *)
EnterPassword(t, b) ==
    /\ "password" \in Operations
    /\ SignedIn(b) /\ Pending(cookie[b])
    /\ Begin(t, [op |-> "password", browser |-> b, cookie |-> cookie[b], read |-> account])
    /\ UNCHANGED <<database, cookie, clock, ghosts>>

(* Mutant: the password is enough although TOTP is enrolled. *)
PasswordIsEnough(t) ==
    /\ request[t] # Nothing /\ request[t].op = "password"
    /\ LET r == request[t]
           p == r.cookie.pending
       IN  Authorize(r.browser, r.cookie, p.path, r.read.version,
                     [browser |-> r.browser, path |-> p.path, version |-> r.read.version,
                      until |-> clock + Ttl,
                      factor |-> "password"])
    /\ End(t)
    /\ UNCHANGED <<database, clock, issued, spent, used>>

PasswordAccepted(t) ==
    /\ request[t] # Nothing /\ request[t].op = "password"
    /\ LET r == request[t]
           p == r.cookie.pending
       IN  IF r.read.secret = 0
           THEN Authorize(r.browser, r.cookie, p.path, r.read.version,
                          [browser |-> r.browser, path |-> p.path,
                           version |-> r.read.version, until |-> clock + Ttl,
                           factor |-> "password"])
           ELSE /\ Responds(r.browser, [r.cookie EXCEPT !.pending.verified = TRUE])
                /\ UNCHANGED proofs
    /\ End(t)
    /\ UNCHANGED <<database, clock, issued, spent, used>>

-----------------------------------------------------------------------------
(* TOTP codes *)

(* setup_totp *)
SetupTotp(b) ==
    /\ "enrol" \in Operations
    /\ SignedIn(b) /\ account.secret = 0
    /\ account.secrets < Secrets
    /\ account' = [account EXCEPT !.pending = account.secrets + 1, !.secrets = @ + 1]
    /\ UNCHANGED <<replay, challenges, cookie, request, clock, ghosts>>

(* matching_totp_counter: what the authenticator displays, give or take a  *)
(* step.                                                                   *)
InWindow(counter) == counter \in clock - 1..clock + 1

(* login_authenticator, authenticate_sensitive_action_totp and             *)
(* confirm_totp have read the account and are about to consume a code.     *)
EnterCode(t, b, use, counter) ==
    /\ use \in Operations
    /\ InWindow(counter)
    /\ \/ use = "login" /\ ~SignedIn(b) /\ account.secret # 0
       \/ /\ use = "reauthenticate" /\ SignedIn(b) /\ account.secret # 0
          /\ Pending(cookie[b]) /\ cookie[b].pending.verified
       \/ use = "enrol" /\ SignedIn(b) /\ account.secret = 0 /\ account.pending # 0
    /\ Begin(t, [op |-> use, browser |-> b, cookie |-> cookie[b], read |-> account,
                 code |-> <<IF use = "enrol" THEN account.pending ELSE account.secret,
                            counter>>])
    /\ UNCHANGED <<database, cookie, clock, ghosts>>

(* Mutant: the last accepted counter may be repeated. *)
AcceptedFrom(counter) == InWindow(counter) /\ counter >= replay

(* the conditional INSERT of consume_totp *)
Accepted(counter) == InWindow(counter) /\ counter > replay

Reject(t) ==
    /\ Responds(request[t].browser,
                IF request[t].op = "reauthenticate"
                THEN [request[t].cookie EXCEPT !.pending = Nothing]
                ELSE request[t].cookie)
    /\ UNCHANGED <<database, proofs, used>>

(* A login and an enrolment commit the counter; a reauthentication leaves  *)
(* that to the commit of its audit event, whose failure rolls it back.     *)
CommitCounter(op, counter) ==
    \/ replay' = counter
    \/ op = "reauthenticate" /\ UNCHANGED replay

ConsumeCode(t) ==
    /\ request[t] # Nothing /\ request[t].op \in {"login", "reauthenticate", "enrol"}
    /\ LET r == request[t]
           b == r.browser
       IN  \/ ~Accepted(r.code[2]) /\ Reject(t)
           \/ /\ Accepted(r.code[2])
              /\ CommitCounter(r.op, r.code[2])
              \* what is accepted for a past session version has no effect
              /\ used' = IF r.read.version = account.version \/ r.op = "enrol"
                         THEN [used EXCEPT ![r.code] = @ + 1] ELSE used
              /\ \/ /\ r.op = "login"
                    /\ Responds(b, SignedInAt(r.read.version))
                    /\ UNCHANGED <<account, proofs>>
                 \/ /\ r.op = "reauthenticate"
                    /\ Authorize(b, r.cookie, r.cookie.pending.path, r.read.version,
                                 [browser |-> b, path |-> r.cookie.pending.path,
                                  version |-> r.read.version, until |-> clock + Ttl,
                                  factor |-> "password_totp"])
                    /\ UNCHANGED account
                 \/ /\ r.op = "enrol"
                    /\ r.read.version < MaxVersion
                    /\ account' = [account EXCEPT !.secret = r.code[1], !.pending = 0,
                                                  !.version = r.read.version + 1]
                    /\ Responds(b, SignedOut)
                    /\ UNCHANGED proofs
              /\ UNCHANGED challenges
    /\ End(t)
    /\ UNCHANGED <<clock, issued, spent>>

(* disable_totp and disable_user_totp: reset_totp_replay_state, and an     *)
(* UPDATE of the columns that are no longer as read                        *)
DisabledTotp(read) ==
    /\ read.version < MaxVersion
    /\ account' = [account EXCEPT !.secret = 0, !.version = read.version + 1,
                                  !.pending = IF read.pending = 0 THEN @ ELSE 0]
    /\ replay' = 0

(* An administrator disables the account's TOTP. *)
DisableUserTotp(t) ==
    /\ "disable" \in Operations
    /\ account.secret # 0
    /\ Begin(t, [op |-> "disable", read |-> account])
    /\ UNCHANGED <<database, cookie, clock, ghosts>>

CommitDisable(t) ==
    /\ request[t] # Nothing /\ request[t].op = "disable"
    /\ DisabledTotp(request[t].read)
    /\ End(t)
    /\ UNCHANGED <<challenges, cookie, clock, ghosts>>

-----------------------------------------------------------------------------
(* Passkeys *)

ContextOf(b, ceremony) ==
    IF ceremony = "reauthentication" THEN cookie[b].pending.path ELSE Nothing

MayBegin(b, ceremony) ==
    \/ ceremony = "authentication" /\ ~SignedIn(b)
    \/ ceremony = "reauthentication" /\ SignedIn(b) /\ Pending(cookie[b])
    \/ ceremony = "registration" /\ SignedIn(b) /\ Authorized(cookie[b], ManagePath)

(* _issue_challenge: expired challenges go, and the pending one of the     *)
(* same ceremony and browser.                                              *)
PasskeyOptions(b, ceremony) ==
    /\ "passkey" \in Operations
    /\ MayBegin(b, ceremony)
    /\ Len(issued) < MaxChallenges
    /\ LET item == [id |-> Len(issued) + 1, ceremony |-> ceremony, browser |-> b,
                    path |-> ContextOf(b, ceremony), expires |-> clock + Ttl]
       IN  /\ challenges' = {c \in challenges : c.expires > clock /\
                                 ~(c.ceremony = ceremony /\ c.browser = b)} \cup {item}
           /\ issued' = Append(issued, item)
           /\ spent' = Append(spent, 0)
    /\ UNCHANGED <<account, replay, cookie, request, clock, used, proofs>>

Matches(c, b, ceremony) ==
    /\ c.expires > clock
    /\ c.ceremony = ceremony
    /\ c.browser = b
    /\ c.path = ContextOf(b, ceremony)

(* Mutant: the challenge is removed only with the other writes. *)
Peek(id) == challenges

(* consume_challenge: one DELETE ... RETURNING *)
Consume(id) == {c \in challenges : c.id # id}

(* A tab submits what the authenticator signed for challenge id, perhaps   *)
(* again; it may be of an older ceremony, or another action's.             *)
SubmitAssertion(t, b, ceremony, id) ==
    /\ MayBegin(b, ceremony)
    /\ issued[id].browser = b
    /\ challenges' = Consume(id)
    /\ \/ /\ \E c \in challenges : c.id = id /\ Matches(c, b, ceremony)
          /\ spent' = [spent EXCEPT ![id] = @ + 1]
          /\ Begin(t, [op |-> ceremony, browser |-> b, cookie |-> cookie[b],
                       read |-> account, id |-> id])
       \/ /\ ~\E c \in challenges : c.id = id /\ Matches(c, b, ceremony)
          /\ request[t] = Nothing
          /\ UNCHANGED <<spent, request>>
    /\ UNCHANGED <<account, replay, cookie, clock, issued, used, proofs>>

(* login_passkey_verify, sensitive_action_passkey_verify and               *)
(* passkey_registration_verify, after the verification                     *)
AssertionAccepted(t) ==
    /\ request[t] # Nothing /\ request[t].op \in Ceremonies
    /\ LET r == request[t]
           b == r.browser
       IN  \/ /\ r.op = "authentication"
              /\ Responds(b, SignedInAt(r.read.version))
              /\ UNCHANGED proofs
           \/ /\ r.op = "reauthentication"
              /\ Authorize(b, r.cookie, r.cookie.pending.path, r.read.version,
                           [browser |-> b, path |-> issued[r.id].path,
                            version |-> r.read.version, until |-> clock + Ttl,
                            factor |-> "passkey"])
           \/ /\ r.op = "registration"
              /\ Responds(b, [r.cookie EXCEPT !.grant = Nothing])
              /\ UNCHANGED proofs
    /\ End(t)
    /\ UNCHANGED <<database, clock, issued, spent, used>>

-----------------------------------------------------------------------------
(* Sensitive actions *)

(* Mutant: the path of the grant is not compared. *)
SubmitAnyAction(t, b, path) ==
    /\ "act" \in Operations
    /\ SignedIn(b)
    /\ cookie[b].grant # Nothing /\ Authorized(cookie[b], cookie[b].grant.path)
    /\ Begin(t, [op |-> "act", browser |-> b, cookie |-> cookie[b], read |-> account,
                 path |-> path, at |-> clock])
    /\ UNCHANGED <<database, cookie, clock, ghosts>>

(* require_sensitive_action_authorization *)
SubmitAction(t, b, path) ==
    /\ "act" \in Operations
    /\ SignedIn(b)
    /\ Authorized(cookie[b], path)
    /\ Begin(t, [op |-> "act", browser |-> b, cookie |-> cookie[b], read |-> account,
                 path |-> path, at |-> clock])
    /\ UNCHANGED <<database, cookie, clock, ghosts>>

(* The action commits, and consume_sensitive_action_authorization takes    *)
(* the grant out of the response's cookie.                                 *)
CommitAction(t) ==
    /\ request[t] # Nothing /\ request[t].op = "act"
    /\ LET r == request[t]
       IN  IF r.path = DisablePath /\ r.read.secret # 0
           THEN DisabledTotp(r.read) /\ Responds(r.browser, SignedOut)
           ELSE /\ Responds(r.browser, [r.cookie EXCEPT !.grant = Nothing])
                /\ UNCHANGED <<account, replay>>
    /\ End(t)
    /\ UNCHANGED <<challenges, clock, issued, spent, used, proofs>>

(* The request fails, or the process dies. *)
Abandon(t) ==
    /\ request[t] # Nothing
    /\ End(t)
    /\ UNCHANGED <<database, cookie, clock, ghosts>>

Tick ==
    /\ clock < MaxTime
    /\ clock' = clock + 1
    /\ UNCHANGED <<database, cookie, request, ghosts>>

Step ==
    \/ \E b \in Browsers :
          \/ Login(b) \/ Logout(b) \/ SetupTotp(b)
          \/ \E path \in Paths : StartReauthentication(b, path)
          \/ \E ceremony \in Ceremonies : PasskeyOptions(b, ceremony)
    \/ \E t \in Threads, b \in Browsers :
          \/ EnterPassword(t, b)
          \/ \E use \in {"login", "reauthenticate", "enrol"}, counter \in Counters \ {0} :
                EnterCode(t, b, use, counter)
          \/ \E ceremony \in Ceremonies, id \in DOMAIN issued :
                SubmitAssertion(t, b, ceremony, id)
          \/ \E path \in Paths : SubmitAction(t, b, path)
    \/ \E t \in Threads :
          \/ PasswordAccepted(t) \/ ConsumeCode(t) \/ AssertionAccepted(t)
          \/ CommitAction(t) \/ Abandon(t)
          \/ DisableUserTotp(t) \/ CommitDisable(t)
    \/ Tick

(* The history of the codes.  The database forgets a code whose counter is *)
(* rolled back, and may have forgotten any code when an overtaken request  *)
(* has its own accepted.                                                   *)
Slips == \E t \in overtaken : /\ request[t] # Nothing /\ request'[t] = Nothing
                              /\ request[t].op \in {"login", "reauthenticate", "enrol"}
                              /\ <<account, used>>' # <<account, used>>

RolledBack(code) == used'[code] # used[code] /\ replay' # code[2]

Watch ==
    /\ overtaken' = {t \in Threads : /\ request[t] # Nothing /\ request'[t] = request[t]
                                     /\ t \in overtaken \/ account' # account}
    /\ lost' = [code \in DOMAIN used |->
                   IF RolledBack(code) \/ Slips THEN used'[code] ELSE lost[code]]

Next == Step /\ Watch

Spec == Init /\ [][Next]_vars

-----------------------------------------------------------------------------
(* A TOTP counter that was accepted is not accepted again, for a login or  *)
(* a reauthentication ("prevents reuse of an accepted counter"): not by    *)
(* two requests at once, not within its window, not after the factor was   *)
(* removed.  The exceptions: the counter of a reauthentication is rolled   *)
(* back when its audit event cannot be written, and an enrolment that has  *)
(* been overtaken may bring a removed secret back.                         *)
CodesAreUsedOnce == \A code \in DOMAIN used : used[code] <= lost[code] + 1

(* "WebAuthn challenges are ... single-use": two submissions of one        *)
(* assertion do not both count.                                            *)
ChallengesAreSpentOnce == \A id \in DOMAIN spent : spent[id] <= 1

(* Whoever is about to perform a sensitive action proved, in this browser, *)
(* for this action, for the present session version and recently, the      *)
(* factors that the account now has.                                       *)
GrantsFollowProofs ==
    \A b \in DOMAIN cookie :
        LET grant == cookie[b].grant
        IN  SignedIn(b) /\ grant # Nothing /\ Authorized(cookie[b], grant.path) =>
                \E i \in DOMAIN proofs :
                    /\ proofs[i].browser = b /\ proofs[i].path = grant.path
                    /\ proofs[i].version = account.version
                    /\ proofs[i].until > clock
                    /\ account.secret # 0 => proofs[i].factor # "password"

(* Every action under way is one that its browser was authorized for when  *)
(* it began.                                                               *)
ActionsFollowGrants ==
    \A t \in DOMAIN request : request[t] # Nothing /\ request[t].op = "act" =>
        \E i \in DOMAIN proofs :
            /\ proofs[i].browser = request[t].browser /\ proofs[i].path = request[t].path
            /\ proofs[i].version = request[t].read.version
            /\ proofs[i].until > request[t].at

=============================================================================
