---------------------------- MODULE AccountsProofs ----------------------------
(***************************************************************************)
(* Proofs about Accounts, for any number of users, browsers and requests   *)
(* in progress: an administrator remains who can sign in.  Only commits    *)
(* write account rows, and the trigger looks at the row that the commit    *)
(* makes of the present one, not at the one that the handler has read.     *)
(* The last part is about the history of the accounts: what a request has  *)
(* read may be gone when it commits, and what the commit leaves depends on *)
(* what became of it.                                                      *)
(***************************************************************************)
EXTENDS AccountHistory, TLAPS

AdminInv ==
    /\ DOMAIN account = Users
    /\ EnabledAdminRemains

LEMMA InitAdminInv == Init => AdminInv
BY AccountAssumption DEF Init, AdminInv, EnabledAdminRemains

(* A commit that the trigger accepts leaves an enabled administrator.      *)
LEMMA CommitKeepsAdmin == ASSUME AdminInv, NEW b \in Browsers, Commit(b) PROVE AdminInv'
<1> USE DEF AdminInv, EnabledAdminRemains
<1> DEFINE u == requests[b].user
           row == Stored(requests[b])
<1>1. CASE account' = account
  BY <1>1
<1>2. CASE account' = [account EXCEPT ![u] = row] /\ Accepted(u, row)
  <2>1. PICK admin \in Users : EnabledAdmin(account[admin])
    OBVIOUS
  <2>2. \A v \in Users : v # u => account'[v] = account[v]
    BY <1>2
  <2>3. DOMAIN account' = Users
    BY <1>2
  <2>4. CASE admin # u
    BY <2>1, <2>2, <2>3, <2>4
  <2>5. CASE admin = u /\ EnabledAdmin(row)
    <3>1. account'[u] = row
      BY <1>2, <2>5
    <3> QED
      BY <2>3, <2>5, <3>1
  <2>6. CASE admin = u /\ ~EnabledAdmin(row)
    <3>1. PICK v \in Users \ {u} : EnabledAdmin(account[v])
      BY <1>2, <2>1, <2>6 DEF Accepted
    <3> QED
      BY <2>2, <2>3, <3>1
  <2> QED
    BY <2>4, <2>5, <2>6
<1> QED
  BY <1>1, <1>2 DEF Commit

LEMMA NextAdminInv == ASSUME AdminInv, [Next]_vars PROVE AdminInv'
<1>1. CASE account' = account
  BY <1>1 DEF AdminInv, EnabledAdminRemains
<1>2. CASE \E b \in Browsers : Commit(b)
  BY <1>2, CommitKeepsAdmin
<1>3. ASSUME NEW b \in Browsers, NEW u \in Users,
             \/ Login(b, u) \/ LoginPasskey(b, u)
             \/ NewUser(b, u) \/ EditUser(b, u) \/ ResetUserPassword(b, u)
             \/ DisableUserTotp(b, u) \/ WipeUserPasskeys(b, u)
             \/ ToggleUserEnabled(b, u) \/ ToggleUserAdmin(b, u)
      PROVE  account' = account
  BY <1>3
     DEF Login, LoginPasskey, SetCookie, NewUser, EditUser, ResetUserPassword,
         DisableUserTotp, WipeUserPasskeys, ToggleUserEnabled, ToggleUserAdmin, Submit
<1>4. ASSUME NEW b \in Browsers,
             \/ LoginAuthenticator(b) \/ Logout(b)
             \/ ChangePassword(b) \/ SetupTotp(b) \/ ConfirmTotp(b) \/ DisableTotp(b)
             \/ Abandon(b)
      PROVE  account' = account
  BY <1>4
     DEF LoginAuthenticator, Logout, SetCookie, ChangePassword, SetupTotp, ConfirmTotp,
         DisableTotp, Submit, Abandon
<1>5. ASSUME NEW u \in Users, MemberDisbursement(u) PROVE account' = account
  BY <1>5 DEF MemberDisbursement
<1> QED
  BY <1>1, <1>2, <1>3, <1>4, <1>5 DEF Next, vars

(* Some administrator can always sign in, however many of them disable or  *)
(* demote each other at once.                                              *)
THEOREM AnAdministratorRemains == Spec => []EnabledAdminRemains
<1>1. AdminInv => EnabledAdminRemains
  BY DEF AdminInv
<1> QED
  BY InitAdminInv, NextAdminInv, <1>1, PTL DEF Spec

-----------------------------------------------------------------------------
(* Types *)

(* A row whose version the bound of the model has not been applied to      *)
Candidate == [exists: BOOLEAN, role: Roles, member: BOOLEAN, enabled: BOOLEAN,
              required: BOOLEAN, version: Nat \ {0}, password: Passwords,
              totp: BOOLEAN, pending: BOOLEAN]

LEMMA CandidateRow ==
    ASSUME NEW row \in Candidate, row.version <= MaxVersion PROVE row \in Row
<1>1. row.version \in Versions
  BY AccountAssumption DEF Candidate, Versions
<1> QED
  BY <1>1 DEF Candidate, Row

LEMMA RowCandidate ==
    ASSUME NEW row \in Row
    PROVE  /\ row \in Candidate
           /\ Bumped(row) \in Nat \ {0}
           /\ row.enabled \in BOOLEAN /\ row.version \in Versions
           /\ row.role \in Roles /\ row.password \in Passwords
BY AccountAssumption DEF Row, Candidate, Versions, Bumped

LEMMA SubmitTyped ==
    ASSUME TypeOK, NEW b \in Browsers, NEW op \in Writers, NEW u \in Users,
           NEW write \in Candidate, Submit(b, op, u, write), generated' \subseteq Temporary
    PROVE  TypeOK'
<1> DEFINE request == [op |-> op, user |-> u, read |-> account[u], write |-> write]
<1>1. write \in Row
  BY CandidateRow DEF Submit
<1>2. request \in Writing
  BY <1>1 DEF TypeOK, Writing
<1>3. requests' = [requests EXCEPT ![b] = request] /\ UNCHANGED <<account, memberOnly, cookies>>
  BY DEF Submit
<1> QED
  BY <1>2, <1>3 DEF TypeOK

LEMMA ValidCookie ==
    ASSUME TypeOK, NEW b \in Browsers, NEW stage, Valid(b, stage)
    PROVE  /\ cookies[b] \in Cookie
           /\ cookies[b].user \in Users
BY DEF TypeOK, Valid, Cookie

LEMMA CookieTyped ==
    ASSUME TypeOK, NEW u \in Users, NEW factor \in {"password", "password_totp", "passkey"},
           NEW stage \in {"password", "complete"}
    PROVE  CookieOf(u, factor, stage) \in Cookie
<1>1. account[u] \in Row
  BY DEF TypeOK
<1> QED
  BY <1>1, RowCandidate DEF CookieOf, Cookie

LEMMA SetCookieTyped ==
    ASSUME TypeOK, NEW b \in Browsers, NEW cookie \in Cookie \cup {SignedOut},
           SetCookie(b, cookie)
    PROVE  TypeOK'
BY DEF TypeOK, SetCookie

LEMMA SignInTyped ==
    ASSUME TypeOK, NEW b \in Browsers,
           \/ \E u \in Users : Login(b, u) \/ LoginPasskey(b, u)
           \/ LoginAuthenticator(b) \/ Logout(b)
    PROVE  TypeOK'
<1>1. ASSUME NEW u \in Users, Login(b, u) PROVE TypeOK'
  BY <1>1, CookieTyped, SetCookieTyped DEF Login
<1>2. ASSUME NEW u \in Users, LoginPasskey(b, u) PROVE TypeOK'
  BY <1>2, CookieTyped, SetCookieTyped DEF LoginPasskey
<1>3. CASE LoginAuthenticator(b)
  <2> DEFINE full == CookieOf(cookies[b].user, "password_totp", "complete")
             cookie == [full EXCEPT !.password = cookies[b].password]
  <2>1. /\ cookies[b] \in Cookie /\ cookies[b].user \in Users
        /\ SetCookie(b, cookie)
    BY <1>3, ValidCookie DEF LoginAuthenticator
  <2>2. full \in Cookie
    BY <2>1, CookieTyped
  <2> HIDE DEF full
  <2>3. cookie \in Cookie
    BY <2>1, <2>2 DEF Cookie
  <2> QED
    BY <2>1, <2>3, SetCookieTyped
<1>4. CASE Logout(b)
  BY <1>4, SetCookieTyped DEF Logout
<1> QED
  BY <1>1, <1>2, <1>3, <1>4

LEMMA AdministrationTyped ==
    ASSUME TypeOK, NEW b \in Browsers, NEW u \in Users,
           \/ NewUser(b, u) \/ EditUser(b, u) \/ ResetUserPassword(b, u)
           \/ DisableUserTotp(b, u) \/ WipeUserPasskeys(b, u)
           \/ ToggleUserEnabled(b, u) \/ ToggleUserAdmin(b, u)
    PROVE  TypeOK'
<1> DEFINE row == account[u]
           bumped == Bumped(row)
<1>0. /\ row \in Candidate /\ bumped \in Nat \ {0} /\ row.enabled \in BOOLEAN
      /\ generated \subseteq Temporary
  BY RowCandidate DEF TypeOK
<1>1. CASE NewUser(b, u)
  <2>1. PICK role \in Roles, member \in BOOLEAN, temporary \in Temporary \ generated :
           /\ Submit(b, "newUser", u,
                     [exists |-> TRUE, role |-> role, member |-> member,
                      enabled |-> TRUE, required |-> TRUE, version |-> 1,
                      password |-> temporary, totp |-> FALSE, pending |-> FALSE])
           /\ generated' = generated \cup {temporary}
    BY <1>1 DEF NewUser
  <2>2. [exists |-> TRUE, role |-> role, member |-> member,
         enabled |-> TRUE, required |-> TRUE, version |-> 1,
         password |-> temporary, totp |-> FALSE, pending |-> FALSE] \in Candidate
    BY DEF Candidate, Passwords
  <2> QED
    BY <1>0, <2>1, <2>2, SubmitTyped DEF Writers
<1> HIDE DEF row, bumped
<1>2. CASE EditUser(b, u)
  <2>1. PICK member \in BOOLEAN :
           \/ Submit(b, "editUser", u, [row EXCEPT !.member = member])
           \/ Submit(b, "editEmail", u, [row EXCEPT !.member = member, !.version = bumped])
    BY <1>2 DEF EditUser, row, bumped
  <2>2. /\ [row EXCEPT !.member = member] \in Candidate
        /\ [row EXCEPT !.member = member, !.version = bumped] \in Candidate
    BY <1>0 DEF Candidate
  <2>3. generated' = generated
    BY <1>2 DEF EditUser
  <2> QED
    BY <1>0, <2>1, <2>2, <2>3, SubmitTyped DEF Writers
<1>3. CASE ResetUserPassword(b, u)
  <2>1. PICK temporary \in Temporary \ generated :
           /\ Submit(b, "resetPassword", u,
                     [row EXCEPT !.password = temporary, !.required = TRUE,
                                 !.version = bumped])
           /\ generated' = generated \cup {temporary}
    BY <1>3 DEF ResetUserPassword, row, bumped
  <2>2. [row EXCEPT !.password = temporary, !.required = TRUE, !.version = bumped]
           \in Candidate
    BY <1>0 DEF Candidate, Passwords
  <2> QED
    BY <1>0, <2>1, <2>2, SubmitTyped DEF Writers
<1>4. CASE DisableUserTotp(b, u)
  <2>1. /\ Submit(b, "disableUserTotp", u,
                  [row EXCEPT !.totp = FALSE, !.pending = FALSE, !.version = bumped])
        /\ generated' = generated
    BY <1>4 DEF DisableUserTotp, row, bumped
  <2>2. [row EXCEPT !.totp = FALSE, !.pending = FALSE, !.version = bumped] \in Candidate
    BY <1>0 DEF Candidate
  <2> QED
    BY <1>0, <2>1, <2>2, SubmitTyped DEF Writers
<1>5. CASE ToggleUserEnabled(b, u)
  <2>1. /\ Submit(b, "toggleEnabled", u,
                  [row EXCEPT !.enabled = ~row.enabled, !.version = bumped])
        /\ generated' = generated
    BY <1>5 DEF ToggleUserEnabled, row, bumped
  <2>2. [row EXCEPT !.enabled = ~row.enabled, !.version = bumped] \in Candidate
    <3>1. (~row.enabled) \in BOOLEAN
      BY <1>0
    <3> QED
      BY <1>0, <3>1 DEF Candidate
  <2> QED
    BY <1>0, <2>1, <2>2, SubmitTyped DEF Writers
<1>6. CASE ToggleUserAdmin(b, u)
  <2> DEFINE role == IF row.role = "admin" THEN "user" ELSE "admin"
  <2>1. /\ Submit(b, "toggleAdmin", u, [row EXCEPT !.role = role, !.version = bumped])
        /\ generated' = generated
    BY <1>6 DEF ToggleUserAdmin, row, bumped
  <2>2. role \in Roles
    BY DEF Roles
  <2> HIDE DEF role
  <2>3. [row EXCEPT !.role = role, !.version = bumped] \in Candidate
    BY <1>0, <2>2 DEF Candidate
  <2> QED
    BY <1>0, <2>1, <2>3, SubmitTyped DEF Writers
<1>7. CASE WipeUserPasskeys(b, u)
  <2>1. /\ Submit(b, "wipePasskeys", u, [row EXCEPT !.version = bumped])
        /\ generated' = generated
    BY <1>7 DEF WipeUserPasskeys, row, bumped
  <2>2. [row EXCEPT !.version = bumped] \in Candidate
    BY <1>0 DEF Candidate
  <2> QED
    BY <1>0, <2>1, <2>2, SubmitTyped DEF Writers
<1> QED
  BY <1>1, <1>2, <1>3, <1>4, <1>5, <1>6, <1>7

LEMMA ProfileTyped ==
    ASSUME TypeOK, NEW b \in Browsers,
           ChangePassword(b) \/ SetupTotp(b) \/ ConfirmTotp(b) \/ DisableTotp(b)
    PROVE  TypeOK'
<1> DEFINE u == cookies[b].user
           row == account[u]
           bumped == Bumped(row)
<1>0. /\ u \in Users /\ row \in Candidate /\ bumped \in Nat \ {0}
      /\ generated \subseteq Temporary
  <2>1. u \in Users
    BY ValidCookie DEF ChangePassword, SetupTotp, ConfirmTotp, DisableTotp, Profile, SignedIn
  <2>2. row \in Row
    BY <2>1 DEF TypeOK
  <2> QED
    BY <2>1, <2>2, RowCandidate DEF TypeOK
<1>1. CASE ChangePassword(b)
  <2>1. PICK password \in Chosen :
           /\ Submit(b, "changePassword", u,
                     [row EXCEPT !.password = password, !.required = FALSE,
                                 !.version = bumped])
           /\ generated' = generated
    BY <1>1 DEF ChangePassword
  <2> HIDE DEF u, row, bumped
  <2>2. [row EXCEPT !.password = password, !.required = FALSE, !.version = bumped]
           \in Candidate
    BY <1>0 DEF Candidate, Passwords
  <2> QED
    BY <1>0, <2>1, <2>2, SubmitTyped DEF Writers
<1>2. CASE SetupTotp(b)
  <2>1. /\ Submit(b, "setupTotp", u, [row EXCEPT !.pending = TRUE])
        /\ generated' = generated
    BY <1>2 DEF SetupTotp
  <2> HIDE DEF u, row, bumped
  <2>2. [row EXCEPT !.pending = TRUE] \in Candidate
    BY <1>0 DEF Candidate
  <2> QED
    BY <1>0, <2>1, <2>2, SubmitTyped DEF Writers
<1>3. CASE ConfirmTotp(b)
  <2>1. /\ \/ Submit(b, "confirmTotp", u,
                     [row EXCEPT !.totp = TRUE, !.pending = FALSE, !.version = bumped])
           \/ Submit(b, "setupTotp", u, [row EXCEPT !.pending = FALSE])
        /\ generated' = generated
    BY <1>3 DEF ConfirmTotp
  <2> HIDE DEF u, row, bumped
  <2>2. /\ [row EXCEPT !.totp = TRUE, !.pending = FALSE, !.version = bumped] \in Candidate
        /\ [row EXCEPT !.pending = FALSE] \in Candidate
    BY <1>0 DEF Candidate
  <2> QED
    BY <1>0, <2>1, <2>2, SubmitTyped DEF Writers
<1>4. CASE DisableTotp(b)
  <2>1. /\ Submit(b, "disableTotp", u,
                  [row EXCEPT !.totp = FALSE, !.pending = FALSE, !.version = bumped])
        /\ generated' = generated
    BY <1>4 DEF DisableTotp
  <2> HIDE DEF u, row, bumped
  <2>2. [row EXCEPT !.totp = FALSE, !.pending = FALSE, !.version = bumped] \in Candidate
    BY <1>0 DEF Candidate
  <2> QED
    BY <1>0, <2>1, <2>2, SubmitTyped DEF Writers
<1> QED
  BY <1>1, <1>2, <1>3, <1>4

(* A commit makes a row of columns of two rows.                            *)
LEMMA MergeTyped ==
    ASSUME NEW current \in Row, NEW read \in Row, NEW write \in Row
    PROVE  Merge(current, read, write) \in Row
BY DEF Merge, Columns, Row

LEMMA EndTyped ==
    ASSUME TypeOK, NEW b \in Browsers, Commit(b) \/ Abandon(b) PROVE TypeOK'
<1> DEFINE r == requests[b]
           row == Stored(r)
           answer == Responded(b, r)
<1>1. r \in Writing /\ r.user \in Users /\ r.write \in Row
  BY DEF TypeOK, Commit, Abandon, Writing
<1>2. row \in Row
  BY <1>1, MergeTyped DEF TypeOK, Writing, Stored
<1>3. answer \in Cookie \cup {SignedOut}
  <2>1. r.write.version \in Versions
    BY <1>1, RowCandidate
  <2>2. cookies[b] # SignedOut
          => [cookies[b] EXCEPT !.version = r.write.version] \in Cookie
    BY <2>1 DEF TypeOK, Cookie
  <2> QED
    BY <2>2 DEF Responded, TypeOK
<1>4. /\ account' = account \/ account' = [account EXCEPT ![r.user] = row]
      /\ cookies' = cookies \/ cookies' = [cookies EXCEPT ![b] = answer]
      /\ requests' = [requests EXCEPT ![b] = Idle]
      /\ UNCHANGED <<memberOnly, generated>>
  BY DEF Commit, Abandon
<1> HIDE DEF r, row, answer
<1>5. account' \in [Users -> Row]
  BY <1>1, <1>2, <1>4 DEF TypeOK
<1>6. cookies' \in [Browsers -> Cookie \cup {SignedOut}]
  BY <1>3, <1>4 DEF TypeOK
<1>7. requests' \in [Browsers -> Writing \cup {Idle}]
  BY <1>4 DEF TypeOK
<1> QED
  BY <1>4, <1>5, <1>6, <1>7 DEF TypeOK

LEMMA NextTyped == ASSUME TypeOK, Next PROVE TypeOK'
<1>1. ASSUME NEW u \in Users, MemberDisbursement(u) PROVE TypeOK'
  <2>1. /\ memberOnly' = memberOnly \cup {u}
        /\ UNCHANGED <<account, cookies, requests, generated>>
    BY <1>1 DEF MemberDisbursement
  <2>2. memberOnly' \subseteq Users
    BY <2>1 DEF TypeOK
  <2> QED
    BY <2>1, <2>2 DEF TypeOK
<1>2. ASSUME NEW b \in Browsers, NEW u \in Users,
             \/ Login(b, u) \/ LoginPasskey(b, u)
             \/ NewUser(b, u) \/ EditUser(b, u) \/ ResetUserPassword(b, u)
             \/ DisableUserTotp(b, u) \/ WipeUserPasskeys(b, u)
             \/ ToggleUserEnabled(b, u) \/ ToggleUserAdmin(b, u)
      PROVE  TypeOK'
  <2>1. CASE Login(b, u) \/ LoginPasskey(b, u)
    BY <2>1, SignInTyped
  <2> QED
    BY <1>2, <2>1, AdministrationTyped
<1>3. ASSUME NEW b \in Browsers,
             \/ LoginAuthenticator(b) \/ Logout(b)
             \/ ChangePassword(b) \/ SetupTotp(b) \/ ConfirmTotp(b) \/ DisableTotp(b)
             \/ Commit(b) \/ Abandon(b)
      PROVE  TypeOK'
  <2>1. CASE LoginAuthenticator(b) \/ Logout(b)
    BY <2>1, SignInTyped
  <2>2. CASE Commit(b) \/ Abandon(b)
    BY <2>2, EndTyped
  <2> QED
    BY <1>3, <2>1, <2>2, ProfileTyped
<1> QED
  BY <1>1, <1>2, <1>3 DEF Next

(* Every row, sign-in and pending write has its type: in particular a      *)
(* merged row is one that the columns of the table admit.                  *)
THEOREM AccountsTyped == Spec => []TypeOK
<1>1. Init => TypeOK
  BY DEF Init, TypeOK
<1>2. TypeOK /\ Next => TypeOK'
  BY NextTyped
<1>3. ASSUME TypeOK, UNCHANGED vars PROVE TypeOK'
  BY <1>3 DEF TypeOK, vars
<1> QED
  BY <1>1, <1>2, <1>3, PTL DEF Spec

-----------------------------------------------------------------------------
(* History.  A pending write says what its handler read and decided.  The  *)
(* version of an account is the highest that it has had, unless that one   *)
(* is doubted; a sign-in of an undoubted version knew what the account     *)
(* asks for now.                                                           *)
SameProofs(read, write) ==
    write.password = read.password /\ write.role = read.role /\ write.totp = read.totp

WriteOK(r) ==
    /\ r.write.exists
    /\ IF r.op = "newUser"
       THEN r.read.version = 1 /\ r.write.version = 1 /\ r.write.required
       ELSE /\ r.read.exists
            /\ \/ r.write.version = Bumped(r.read)
               \/ r.write.version = r.read.version /\ SameProofs(r.read, r.write)
            /\ r.op \notin {"resetPassword", "changePassword"} =>
                  r.write.password = r.read.password /\ r.write.required = r.read.required
            /\ r.op = "resetPassword" => r.write.required
            /\ r.op = "changePassword" =>
                  r.write.password \in Chosen /\ r.write.password # r.read.password
            /\ r.op \notin {"editUser", "editEmail"} => r.write.member = r.read.member
            /\ r.op = "editEmail" => Increments(r) /\ SameProofs(r.read, r.write)

RequestOK(b) ==
    LET r == requests[b]
    IN  r # Idle =>
            /\ WriteOK(r)
            /\ r.read.version <= highest[r.user]
            /\ r.op # "newUser" => account[r.user].exists
            /\ r.op = "editEmail" /\ cookies[b] # SignedOut /\ r.user = cookies[b].user
                  => cookies[b].version = r.read.version
            /\ b \notin overtaken => Stands(r)

Proves(c, row) ==
    /\ c.password = row.password
    /\ c.role = row.role
    /\ row.totp => c.factor # "password" \/ c.stage = "password"

SignInOK(c) ==
    c # SignedOut =>
        /\ account[c.user].exists
        /\ c.version <= highest[c.user]
        /\ c.version = account[c.user].version /\ c.version > doubted[c.user]
              => Proves(c, account[c.user])

AccountOK(u) ==
    /\ account[u].version <= highest[u]
    /\ doubted[u] <= highest[u]
    /\ highest[u] = account[u].version \/ highest[u] = doubted[u]
    /\ ~account[u].exists => account[u].version = 1 /\ highest[u] = 1 /\ u \notin memberOnly

HistoryTyped ==
    /\ highest \in [Users -> Int]
    /\ doubted \in [Users -> Int]

HistoryInv ==
    /\ TypeOK
    /\ HistoryTyped
    /\ \A u \in Users : AccountOK(u)
    /\ \A b \in Browsers : RequestOK(b) /\ SignInOK(cookies[b])

LEMMA VersionsAreNumbers ==
    ASSUME TypeOK
    PROVE  /\ \A u \in Users : account[u] \in Row /\ account[u].version \in Int
           /\ \A b \in Browsers : cookies[b] # SignedOut =>
                 cookies[b] \in Cookie /\ cookies[b].user \in Users /\ cookies[b].version \in Int
           /\ \A b \in Browsers : requests[b] # Idle =>
                 /\ requests[b] \in Writing /\ requests[b].user \in Users
                 /\ requests[b].read \in Row /\ requests[b].read.version \in Int
                 /\ requests[b].write \in Row /\ requests[b].write.version \in Int
<1>1. Versions \subseteq Int
  BY DEF Versions
<1>2. \A row \in Row : row.version \in Int
  BY <1>1 DEF Row
<1> QED
  BY <1>1, <1>2 DEF TypeOK, Cookie, Writing

LEMMA HistoryTypedNext ==
    ASSUME TypeOK, TypeOK', HistoryTyped, Watch PROVE HistoryTyped'
<1>1. \A u \in Users : account'[u].version \in Int
  BY DEF TypeOK, Row, Versions
<1>2. highest' \in [Users -> Int]
  BY <1>1 DEF HistoryTyped, Watch, Larger
<1> QED
  BY <1>2 DEF HistoryTyped, Watch

(* A step that commits nothing adds nothing to the history.                *)
LEMMA NothingNew ==
    ASSUME HistoryInv, TypeOK', Watch, UNCHANGED account, \A b \in Browsers : ~Commits(b)
    PROVE  UNCHANGED <<highest, doubted>>
<1>1. \A u \in Users : Larger(highest[u], account'[u].version) = highest[u]
  BY VersionsAreNumbers DEF HistoryInv, HistoryTyped, AccountOK, Larger
<1>2. \A u \in Users : ~Doubtful(u)
  BY DEF Doubtful
<1> QED
  BY <1>1, <1>2 DEF Watch, HistoryInv, HistoryTyped

(* A request that waits stays what it is. *)
LEMMA RequestKept ==
    ASSUME HistoryInv, Watch, NEW b \in Browsers, requests'[b] = requests[b],
           requests[b] # Idle => cookies'[b] = cookies[b],
           \A u \in Users : account[u].exists => account'[u].exists,
           \A u \in Users : highest[u] <= highest'[u], HistoryTyped'
    PROVE  RequestOK(b)'
<1>1. CASE requests[b] = Idle
  BY <1>1 DEF RequestOK
<1>2. CASE requests[b] # Idle
  <2>1. PICK r : r = requests[b]
    OBVIOUS
  <2>2. /\ WriteOK(r) /\ r.read.version <= highest[r.user]
        /\ r.op # "newUser" => account[r.user].exists
        /\ r.op = "editEmail" /\ cookies[b] # SignedOut /\ r.user = cookies[b].user
              => cookies[b].version = r.read.version
        /\ r.user \in Users /\ r.read.version \in Int
    BY <1>2, <2>1, VersionsAreNumbers DEF HistoryInv, RequestOK
  <2>3. r.read.version <= highest'[r.user]
    BY <2>2 DEF HistoryInv, HistoryTyped
  <2>4. b \notin overtaken' => Stands(r)'
    <3>1. b \notin overtaken => Stands(r)
      BY <1>2, <2>1 DEF HistoryInv, RequestOK
    <3> QED
      BY <1>2, <2>1, <3>1 DEF Watch, Waits, Stands
  <2>5. WriteOK(r)'
    BY <2>2 DEF WriteOK, Increments
  <2> QED
    BY <1>2, <2>1, <2>2, <2>3, <2>4, <2>5 DEF RequestOK, Stands, WriteOK, Increments
<1> QED
  BY <1>1, <1>2

(* A step of browser b that leaves the accounts alone                      *)
LEMMA QuietStep ==
    ASSUME HistoryInv, TypeOK', Watch, UNCHANGED <<account, memberOnly>>,
           NEW b \in Browsers, ~Commits(b),
           \A c \in Browsers \ {b} : requests'[c] = requests[c] /\ cookies'[c] = cookies[c],
           RequestOK(b)', SignInOK(cookies'[b])
    PROVE  HistoryInv'
<1>1. HistoryTyped'
  BY HistoryTypedNext DEF HistoryInv
<1>2. \A c \in Browsers : ~Commits(c)
  BY DEF Commits
<1>3. UNCHANGED <<highest, doubted>>
  BY <1>2, NothingNew
<1>4. \A u \in Users : AccountOK(u)'
  BY <1>3 DEF HistoryInv, AccountOK
<1>5. \A u \in Users : highest[u] <= highest'[u]
  BY <1>3 DEF HistoryInv, HistoryTyped
<1>6. ASSUME NEW c \in Browsers PROVE RequestOK(c)' /\ SignInOK(cookies[c])'
  <2>1. SignInOK(cookies'[c]) => SignInOK(cookies[c])'
    BY <1>3 DEF SignInOK
  <2>2. CASE c = b
    BY <2>1, <2>2
  <2>3. CASE c # b
    BY <1>1, <1>5, <2>1, <2>3, RequestKept DEF HistoryInv
  <2> QED
    BY <2>2, <2>3
<1> QED
  BY <1>1, <1>4, <1>6 DEF HistoryInv

LEMMA SetCookieKeepsHistory ==
    ASSUME HistoryInv, TypeOK', Watch, NEW b \in Browsers, requests[b] = Idle,
           NEW cookie, SignInOK(cookie), SetCookie(b, cookie)
    PROVE  HistoryInv'
<1>1. /\ UNCHANGED <<account, memberOnly, requests>>
      /\ \A c \in Browsers : cookies'[c] = IF c = b THEN cookie ELSE cookies[c]
  BY DEF SetCookie, HistoryInv, TypeOK
<1>2. ~Commits(b) /\ RequestOK(b)'
  BY <1>1 DEF Commits, RequestOK
<1> QED
  BY <1>1, <1>2, QuietStep

LEMMA SignInKeepsHistory ==
    ASSUME HistoryInv, Watch, NEW b \in Browsers,
           \/ \E u \in Users : Login(b, u) \/ LoginPasskey(b, u)
           \/ LoginAuthenticator(b) \/ Logout(b)
    PROVE  HistoryInv'
<1>0. TypeOK'
  BY SignInTyped DEF HistoryInv
<1>1. \A u \in Users : account[u].version <= highest[u]
  BY DEF HistoryInv, AccountOK
<1>2. ASSUME NEW u \in Users, Login(b, u) PROVE HistoryInv'
  <2> DEFINE stage == IF account[u].totp THEN "password" ELSE "complete"
             cookie == CookieOf(u, "password", stage)
  <2>1. SignInOK(cookie)
    BY <1>1, <1>2 DEF Login, MayLogIn, CookieOf, SignInOK, Proves
  <2>2. requests[b] = Idle /\ SetCookie(b, cookie)
    BY <1>2 DEF Login, MayLogIn
  <2> HIDE DEF cookie
  <2> QED
    BY <1>0, <2>1, <2>2, SetCookieKeepsHistory
<1>3. ASSUME NEW u \in Users, LoginPasskey(b, u) PROVE HistoryInv'
  <2> DEFINE cookie == CookieOf(u, "passkey", "complete")
  <2>1. SignInOK(cookie)
    BY <1>1, <1>3 DEF LoginPasskey, MayLogIn, CookieOf, SignInOK, Proves
  <2>2. requests[b] = Idle /\ SetCookie(b, cookie)
    BY <1>3 DEF LoginPasskey, MayLogIn
  <2> HIDE DEF cookie
  <2> QED
    BY <1>0, <2>1, <2>2, SetCookieKeepsHistory
<1>4. CASE LoginAuthenticator(b)
  <2> DEFINE u == cookies[b].user
             cookie == [CookieOf(u, "password_totp", "complete")
                           EXCEPT !.password = cookies[b].password]
  <2>1. /\ requests[b] = Idle /\ SetCookie(b, cookie)
        /\ cookies[b] # SignedOut /\ cookies[b].version = account[u].version
        /\ u \in Users
    BY <1>4, ValidCookie DEF LoginAuthenticator, Valid, HistoryInv
  <2>2. /\ account[u].exists
        /\ cookies[b].version > doubted[u] => cookies[b].password = account[u].password
    BY <2>1 DEF HistoryInv, SignInOK, Proves
  <2>3. /\ cookie.user = u /\ cookie.version = account[u].version
        /\ cookie.role = account[u].role /\ cookie.password = cookies[b].password
        /\ cookie.factor = "password_totp"
    BY DEF CookieOf
  <2> HIDE DEF cookie
  <2>4. SignInOK(cookie)
    BY <1>1, <2>1, <2>2, <2>3 DEF SignInOK, Proves
  <2> QED
    BY <1>0, <2>1, <2>4, SetCookieKeepsHistory
<1>5. CASE Logout(b)
  <2>1. SignInOK(SignedOut)
    BY DEF SignInOK
  <2> QED
    BY <1>0, <1>5, <2>1, SetCookieKeepsHistory DEF Logout
<1> QED
  BY <1>2, <1>3, <1>4, <1>5

(* A handler has read the row of u and wants it to be write. *)
Request(op, u, write) == [op |-> op, user |-> u, read |-> account[u], write |-> write]

LEMMA SubmitKeepsHistory ==
    ASSUME HistoryInv, TypeOK', Watch, NEW b \in Browsers, NEW op, NEW u \in Users,
           NEW write, Submit(b, op, u, write), WriteOK(Request(op, u, write)),
           op # "newUser" => account[u].exists,
           op \in {"editUser", "editEmail"} => SignedIn(b) /\ MayBecome(u, write.member)
    PROVE  HistoryInv'
<1>1. PICK r : r = Request(op, u, write)
  OBVIOUS
<1>2. /\ r.op = op /\ r.user = u /\ r.read = account[u] /\ r.write = write
      /\ WriteOK(r)
  BY <1>1 DEF Request
<1>3. /\ UNCHANGED <<account, memberOnly, cookies>>
      /\ requests[b] = Idle
      /\ \A c \in Browsers : requests'[c] = IF c = b THEN r ELSE requests[c]
  BY <1>1 DEF Submit, HistoryInv, TypeOK, Request
<1>4. ~Commits(b)
  BY <1>3 DEF Commits
<1>5. Stands(r)
  <2>1. op = "resetPassword" => write.required
    BY <1>2 DEF WriteOK
  <2> QED
    BY <1>2 DEF Stands, MayBecome
<1>6. UNCHANGED <<highest, doubted>>
  <2>1. \A c \in Browsers : ~Commits(c)
    BY <1>3, <1>4 DEF Commits
  <2> QED
    BY <1>3, <2>1, NothingNew
<1>7. RequestOK(b)'
  <2>1. account[u].version <= highest[u]
    BY DEF HistoryInv, AccountOK
  <2>2. op = "editEmail" => (cookies[b].user = u => cookies[b].version = account[u].version)
    BY DEF SignedIn, Valid
  <2>3. WriteOK(r)' /\ Stands(r)'
    BY <1>2, <1>3, <1>5 DEF WriteOK, Increments, Stands
  <2>4. requests'[b] = r
    BY <1>3
  <2> QED
    BY <1>2, <1>3, <1>6, <2>1, <2>2, <2>3, <2>4 DEF RequestOK, WriteOK, Increments, Stands
<1>8. SignInOK(cookies'[b])
  BY <1>3 DEF HistoryInv
<1> QED
  BY <1>3, <1>4, <1>7, <1>8, QuietStep

LEMMA AdministrationKeepsHistory ==
    ASSUME HistoryInv, Watch, NEW b \in Browsers, NEW u \in Users,
           \/ NewUser(b, u) \/ EditUser(b, u) \/ ResetUserPassword(b, u)
           \/ DisableUserTotp(b, u) \/ WipeUserPasskeys(b, u)
           \/ ToggleUserEnabled(b, u) \/ ToggleUserAdmin(b, u)
    PROVE  HistoryInv'
<1> DEFINE row == account[u]
           bumped == Bumped(row)
<1>0. TypeOK' /\ row \in Row /\ row.version \in Int
  BY AdministrationTyped, VersionsAreNumbers DEF HistoryInv
<1>1. CASE NewUser(b, u)
  <2>1. PICK role \in Roles, member \in BOOLEAN, temporary \in Temporary \ generated :
           Submit(b, "newUser", u,
                  [exists |-> TRUE, role |-> role, member |-> member,
                   enabled |-> TRUE, required |-> TRUE, version |-> 1,
                   password |-> temporary, totp |-> FALSE, pending |-> FALSE])
    BY <1>1 DEF NewUser
  <2>2. row.version = 1
    BY <1>1 DEF NewUser, HistoryInv, AccountOK
  <2>3. WriteOK(Request("newUser", u,
                  [exists |-> TRUE, role |-> role, member |-> member,
                   enabled |-> TRUE, required |-> TRUE, version |-> 1,
                   password |-> temporary, totp |-> FALSE, pending |-> FALSE]))
    BY <2>2 DEF WriteOK, Request
  <2> QED
    BY <1>0, <2>1, <2>3, SubmitKeepsHistory
<1>2. ASSUME NEW op \in Writers \ {"newUser", "editUser", "editEmail"}, NEW write,
             row.exists, Submit(b, op, u, write), WriteOK(Request(op, u, write))
      PROVE  HistoryInv'
  BY <1>0, <1>2, SubmitKeepsHistory
<1>3. CASE EditUser(b, u)
  <2>1. PICK member \in BOOLEAN :
           /\ MayBecome(u, member)
           /\ \/ Submit(b, "editUser", u, [row EXCEPT !.member = member])
              \/ Submit(b, "editEmail", u, [row EXCEPT !.member = member, !.version = bumped])
    BY <1>3 DEF EditUser
  <2>2. row.exists /\ SignedIn(b)
    BY <1>3 DEF EditUser, Administrator
  <2> HIDE DEF row
  <2>3. CASE Submit(b, "editUser", u, [row EXCEPT !.member = member])
    <3> DEFINE write == [row EXCEPT !.member = member]
    <3>1. /\ write.exists = row.exists /\ write.password = row.password
          /\ write.required = row.required /\ write.member = member
          /\ write.version = row.version /\ SameProofs(row, write)
      BY <1>0 DEF Row, SameProofs
    <3> HIDE DEF write
    <3>2. WriteOK(Request("editUser", u, write))
      BY <2>2, <3>1 DEF WriteOK, Request, row
    <3> QED
      BY <1>0, <2>1, <2>2, <2>3, <3>1, <3>2, SubmitKeepsHistory DEF write, row
  <2>4. CASE Submit(b, "editEmail", u, [row EXCEPT !.member = member, !.version = bumped])
    <3> DEFINE write == [row EXCEPT !.member = member, !.version = bumped]
    <3>1. /\ write.exists = row.exists /\ write.password = row.password
          /\ write.required = row.required /\ write.member = member
          /\ write.version = bumped /\ SameProofs(row, write)
      BY <1>0 DEF Row, SameProofs
    <3>2. bumped # row.version
      BY <1>0 DEF Bumped
    <3> HIDE DEF write
    <3>3. WriteOK(Request("editEmail", u, write))
      BY <2>2, <3>1, <3>2 DEF WriteOK, Request, Increments, row
    <3> QED
      BY <1>0, <2>1, <2>2, <2>4, <3>1, <3>3, SubmitKeepsHistory DEF write, row
  <2> QED
    BY <2>1, <2>3, <2>4
<1>4. CASE ResetUserPassword(b, u)
  <2>1. PICK temporary \in Temporary \ generated :
           Submit(b, "resetPassword", u,
                  [row EXCEPT !.password = temporary, !.required = TRUE, !.version = bumped])
    BY <1>4 DEF ResetUserPassword
  <2>2. row.exists
    BY <1>4 DEF ResetUserPassword, Others
  <2>3. WriteOK(Request("resetPassword", u,
                [row EXCEPT !.password = temporary, !.required = TRUE, !.version = bumped]))
    BY <1>0, <2>2 DEF WriteOK, Request, Row
  <2> QED
    BY <1>2, <2>1, <2>2, <2>3 DEF Writers
<1>5. CASE DisableUserTotp(b, u)
  <2>1. /\ Submit(b, "disableUserTotp", u,
                  [row EXCEPT !.totp = FALSE, !.pending = FALSE, !.version = bumped])
        /\ row.exists
    BY <1>5 DEF DisableUserTotp, Others
  <2>2. WriteOK(Request("disableUserTotp", u,
                  [row EXCEPT !.totp = FALSE, !.pending = FALSE, !.version = bumped]))
    BY <1>0, <2>1 DEF WriteOK, Request, Row
  <2> QED
    BY <1>2, <2>1, <2>2 DEF Writers
<1>6. CASE ToggleUserEnabled(b, u)
  <2>1. /\ Submit(b, "toggleEnabled", u,
                  [row EXCEPT !.enabled = ~row.enabled, !.version = bumped])
        /\ row.exists
    BY <1>6 DEF ToggleUserEnabled, Others
  <2>2. WriteOK(Request("toggleEnabled", u,
                  [row EXCEPT !.enabled = ~row.enabled, !.version = bumped]))
    BY <1>0, <2>1 DEF WriteOK, Request, Row
  <2> QED
    BY <1>2, <2>1, <2>2 DEF Writers
<1>7. CASE ToggleUserAdmin(b, u)
  <2> DEFINE role == IF row.role = "admin" THEN "user" ELSE "admin"
  <2>1. /\ Submit(b, "toggleAdmin", u, [row EXCEPT !.role = role, !.version = bumped])
        /\ row.exists
    BY <1>7 DEF ToggleUserAdmin, Others
  <2> HIDE DEF role
  <2>2. WriteOK(Request("toggleAdmin", u, [row EXCEPT !.role = role, !.version = bumped]))
    BY <1>0, <2>1 DEF WriteOK, Request, Row
  <2> QED
    BY <1>2, <2>1, <2>2 DEF Writers
<1>8. CASE WipeUserPasskeys(b, u)
  <2>1. Submit(b, "wipePasskeys", u, [row EXCEPT !.version = bumped]) /\ row.exists
    BY <1>8 DEF WipeUserPasskeys, Others
  <2>2. WriteOK(Request("wipePasskeys", u, [row EXCEPT !.version = bumped]))
    BY <1>0, <2>1 DEF WriteOK, Request, Row
  <2> QED
    BY <1>2, <2>1, <2>2 DEF Writers
<1> QED
  BY <1>1, <1>3, <1>4, <1>5, <1>6, <1>7, <1>8

LEMMA ProfileKeepsHistory ==
    ASSUME HistoryInv, Watch, NEW b \in Browsers,
           ChangePassword(b) \/ SetupTotp(b) \/ ConfirmTotp(b) \/ DisableTotp(b)
    PROVE  HistoryInv'
<1> DEFINE u == cookies[b].user
           row == account[u]
           bumped == Bumped(row)
<1>0. TypeOK' /\ SignedIn(b)
  BY ProfileTyped DEF HistoryInv, ChangePassword, SetupTotp, ConfirmTotp, DisableTotp, Profile
<1>1. u \in Users /\ row.exists
  BY <1>0, ValidCookie DEF HistoryInv, SignedIn, Valid
<1>2. row \in Row /\ row.version \in Int
  BY <1>1, VersionsAreNumbers DEF HistoryInv
<1>3. ASSUME NEW op \in Writers \ {"newUser", "editUser", "editEmail"}, NEW write,
             Submit(b, op, u, write), WriteOK(Request(op, u, write))
      PROVE  HistoryInv'
  BY <1>0, <1>1, <1>3, SubmitKeepsHistory
<1>4. CASE ChangePassword(b)
  <2>1. PICK password \in Chosen \ {row.password} :
           Submit(b, "changePassword", u,
                  [row EXCEPT !.password = password, !.required = FALSE, !.version = bumped])
    BY <1>4 DEF ChangePassword
  <2>2. WriteOK(Request("changePassword", u,
                [row EXCEPT !.password = password, !.required = FALSE, !.version = bumped]))
    BY <1>1, <1>2 DEF WriteOK, Request, Row
  <2> QED
    BY <1>3, <2>1, <2>2 DEF Writers
<1>5. CASE SetupTotp(b)
  <2>1. Submit(b, "setupTotp", u, [row EXCEPT !.pending = TRUE])
    BY <1>5 DEF SetupTotp
  <2>2. WriteOK(Request("setupTotp", u, [row EXCEPT !.pending = TRUE]))
    BY <1>1, <1>2 DEF WriteOK, Request, Row, SameProofs
  <2> QED
    BY <1>3, <2>1, <2>2 DEF Writers
<1>6. CASE ConfirmTotp(b)
  <2>1. \/ Submit(b, "confirmTotp", u,
                  [row EXCEPT !.totp = TRUE, !.pending = FALSE, !.version = bumped])
        \/ Submit(b, "setupTotp", u, [row EXCEPT !.pending = FALSE])
    BY <1>6 DEF ConfirmTotp
  <2>2. /\ WriteOK(Request("confirmTotp", u,
                  [row EXCEPT !.totp = TRUE, !.pending = FALSE, !.version = bumped]))
        /\ WriteOK(Request("setupTotp", u, [row EXCEPT !.pending = FALSE]))
    BY <1>1, <1>2 DEF WriteOK, Request, Row, SameProofs
  <2> QED
    BY <1>3, <2>1, <2>2 DEF Writers
<1>7. CASE DisableTotp(b)
  <2>1. Submit(b, "disableTotp", u,
               [row EXCEPT !.totp = FALSE, !.pending = FALSE, !.version = bumped])
    BY <1>7 DEF DisableTotp
  <2>2. WriteOK(Request("disableTotp", u,
               [row EXCEPT !.totp = FALSE, !.pending = FALSE, !.version = bumped]))
    BY <1>1, <1>2 DEF WriteOK, Request, Row
  <2> QED
    BY <1>3, <2>1, <2>2 DEF Writers
<1> QED
  BY <1>4, <1>5, <1>6, <1>7

(* The version of the account of r after the commit of r, and what it has  *)
(* to prove                                                                *)
LEMMA StoredRow ==
    ASSUME HistoryInv, NEW b \in Browsers, requests[b] # Idle, Unique(requests[b])
    PROVE  LET r == requests[b]
               u == r.user
           IN  /\ Stored(r).exists
               /\ r.op = "newUser" => /\ ~Increments(r) /\ ~account[u].exists
                                      /\ Stored(r).version = account[u].version
               /\ r.op # "newUser" /\ ~Increments(r) =>
                     /\ Stored(r).version = account[u].version
                     /\ SameProofs(account[u], Stored(r))
               /\ Increments(r) =>
                     /\ Stored(r).version = r.write.version
                     /\ r.write.version = r.read.version + 1
               /\ r.op = "editEmail" =>
                     Increments(r) /\ SameProofs(account[u], Stored(r))
<1>1. PICK r : r = requests[b]
  OBVIOUS
<1>2. /\ r.user \in Users /\ account[r.user] \in Row /\ r.read \in Row /\ r.write \in Row
      /\ r.read.version \in Int
  BY <1>1, VersionsAreNumbers DEF HistoryInv
<1>3. /\ WriteOK(r) /\ Unique(r)
      /\ r.op # "newUser" => account[r.user].exists
      /\ AccountOK(r.user)
  BY <1>1, <1>2 DEF HistoryInv, RequestOK
<1>4. CASE r.op = "newUser"
  BY <1>1, <1>3, <1>4 DEF WriteOK, Unique, Stored, Increments, AccountOK
<1>5. CASE r.op # "newUser"
  <2> DEFINE row == Merge(account[r.user], r.read, r.write)
  <2>1. \A c \in Columns : row[c] = IF r.read[c] = r.write[c] THEN account[r.user][c]
                                                               ELSE r.write[c]
    BY DEF Merge
  <2>2. /\ row.exists = IF r.read.exists = r.write.exists THEN account[r.user].exists
                                                          ELSE r.write.exists
        /\ row.version = IF r.read.version = r.write.version THEN account[r.user].version
                                                             ELSE r.write.version
        /\ row.password = IF r.read.password = r.write.password THEN account[r.user].password
                                                                ELSE r.write.password
        /\ row.role = IF r.read.role = r.write.role THEN account[r.user].role
                                                    ELSE r.write.role
        /\ row.totp = IF r.read.totp = r.write.totp THEN account[r.user].totp
                                                    ELSE r.write.totp
    BY <2>1 DEF Columns
  <2>3. Stored(r) = row
    BY <1>5 DEF Stored
  <2> HIDE DEF row
  <2>4. row.exists
    BY <1>3, <1>5, <2>2 DEF WriteOK
  <2>5. ~Increments(r) => row.version = account[r.user].version
                          /\ SameProofs(account[r.user], row)
    BY <1>2, <1>3, <1>5, <2>2 DEF WriteOK, Increments, SameProofs, Bumped
  <2>6. Increments(r) => /\ row.version = r.write.version
                         /\ r.write.version = r.read.version + 1
    BY <1>2, <1>3, <1>5, <2>2 DEF WriteOK, Increments, Bumped
  <2>7. r.op = "editEmail" => Increments(r) /\ SameProofs(account[r.user], row)
    BY <1>3, <1>5, <2>2 DEF WriteOK, SameProofs
  <2> QED
    BY <1>1, <1>5, <2>3, <2>4, <2>5, <2>6, <2>7
<1> QED
  BY <1>4, <1>5

LEMMA CommitKeepsHistory ==
    ASSUME HistoryInv, Watch, NEW b \in Browsers, Commit(b) PROVE HistoryInv'
<1>1. PICK r : r = requests[b]
  OBVIOUS
<1>2. /\ r # Idle /\ r.user \in Users /\ r.read \in Row /\ r.write \in Row
      /\ r.read.version \in Int /\ r.write.version \in Int
      /\ account[r.user] \in Row /\ account[r.user].version \in Int
  BY <1>1, VersionsAreNumbers DEF Commit, HistoryInv
<1>3. /\ requests'[b] = Idle /\ UNCHANGED memberOnly
      /\ \A c \in Browsers \ {b} : requests'[c] = requests[c] /\ cookies'[c] = cookies[c]
  BY DEF Commit, HistoryInv, TypeOK
<1>4. TypeOK' /\ HistoryTyped'
  BY EndTyped, HistoryTypedNext DEF HistoryInv
<1>5. RequestOK(b)'
  BY <1>3 DEF RequestOK
<1>6. CASE UNCHANGED <<account, cookies>>
  BY <1>3, <1>4, <1>5, <1>6, QuietStep DEF Commits, HistoryInv
<1>7. CASE ~UNCHANGED <<account, cookies>>
  <2> DEFINE u == r.user
             row == Stored(r)
  <2>1. /\ Unique(r)
        /\ \A v \in Users : account'[v] = IF v = u THEN row ELSE account[v]
        /\ cookies'[b] = cookies[b] \/ cookies'[b] = Responded(b, r)
    BY <1>1, <1>7 DEF Commit, HistoryInv, TypeOK
  <2>2. /\ row.exists
        /\ r.op = "newUser" => /\ ~Increments(r) /\ ~account[u].exists
                               /\ row.version = account[u].version
        /\ r.op # "newUser" /\ ~Increments(r) =>
              row.version = account[u].version /\ SameProofs(account[u], row)
        /\ Increments(r) => row.version = r.write.version
                            /\ r.write.version = r.read.version + 1
        /\ r.op = "editEmail" => Increments(r) /\ SameProofs(account[u], row)
    BY <1>1, <1>2, <2>1, StoredRow
  <2> HIDE DEF row
  <2>3. row.version \in Int
    BY <1>2, <2>2
  <2>4. \A v \in Users : highest[v] \in Int /\ doubted[v] \in Int /\ account[v].version \in Int
    BY VersionsAreNumbers DEF HistoryInv, HistoryTyped
  <2>5. /\ \A v \in Users \ {u} : highest'[v] = highest[v] /\ doubted'[v] = doubted[v]
        /\ highest'[u] = Larger(highest[u], row.version)
        /\ doubted'[u] = highest'[u]
           \/ /\ doubted'[u] = doubted[u]
              /\ ~LosesIncrement(r) /\ ~KeepsDoubted(b, r)
    <3>1. \A v \in Users \ {u} : ~Doubtful(v)
      BY <1>1, <1>3 DEF Doubtful, Commits
    <3>2. Doubtful(u) \/ (~LosesIncrement(r) /\ ~KeepsDoubted(b, r))
      BY <1>1, <1>2, <1>3, <1>7 DEF Doubtful, Commits
    <3>3. \A v \in Users : Larger(highest[v], account[v].version) = highest[v]
      BY <2>4 DEF HistoryInv, AccountOK, Larger
    <3>4. \A v \in Users : /\ highest'[v] = Larger(highest[v], account'[v].version)
                           /\ doubted'[v] = IF Doubtful(v) THEN highest'[v] ELSE doubted[v]
      BY DEF Watch
    <3> QED
      BY <1>2, <2>1, <3>1, <3>2, <3>3, <3>4
  <2>6. /\ highest[u] <= highest'[u] /\ row.version <= highest'[u]
        /\ highest'[u] = highest[u] \/ highest'[u] = row.version
    BY <1>2, <2>3, <2>4, <2>5 DEF Larger
  <2>7. \A v \in Users : highest[v] <= highest'[v]
    BY <2>4, <2>5, <2>6
  <2>8. AccountOK(u)
    BY <1>2 DEF HistoryInv
  <2>9. CASE doubted'[u] = highest'[u]
    <3>1. \A v \in Users : AccountOK(v)'
      BY <1>2, <1>3, <1>4, <2>1, <2>2, <2>5, <2>6, <2>9
         DEF HistoryInv, HistoryTyped, AccountOK
    <3>2. ASSUME NEW c \in Browsers PROVE SignInOK(cookies[c])'
      <4>1. SignInOK(cookies[c])
            /\ (cookies[c] # SignedOut => cookies[c] \in Cookie /\ cookies[c].user \in Users
                                          /\ cookies[c].version \in Int)
        BY VersionsAreNumbers DEF HistoryInv
      <4>2. CASE cookies'[c] = cookies[c]
        <5>1. CASE cookies[c] # SignedOut /\ cookies[c].user = u
          <6>1. cookies[c].version <= highest'[u] /\ highest'[u] \in Int
            BY <1>2, <1>4, <2>4, <2>6, <4>1, <5>1 DEF SignInOK, HistoryTyped
          <6> QED
            BY <1>2, <2>1, <2>2, <2>9, <4>1, <4>2, <5>1, <6>1 DEF SignInOK
        <5>2. CASE cookies[c] # SignedOut /\ cookies[c].user # u
          BY <2>1, <2>5, <4>1, <4>2, <5>2 DEF SignInOK
        <5> QED
          BY <4>2, <5>1, <5>2 DEF SignInOK
      <4>3. CASE cookies'[c] # cookies[c] /\ cookies'[c] # SignedOut
        <5>1. /\ c = b /\ r.op = "editEmail" /\ cookies[b] # SignedOut /\ u = cookies[b].user
              /\ cookies'[b] = [cookies[b] EXCEPT !.version = r.write.version]
          BY <1>3, <2>1, <4>3 DEF Responded
        <5>2. cookies'[b].user = u /\ cookies'[b].version = r.write.version
          BY <4>1, <5>1 DEF Cookie
        <5>3. r.write.version <= highest'[u] /\ highest'[u] \in Int
          BY <1>2, <1>4, <2>2, <2>6, <5>1 DEF HistoryTyped
        <5> QED
          BY <1>2, <2>1, <2>2, <2>9, <5>1, <5>2, <5>3 DEF SignInOK
      <4> QED
        BY <4>2, <4>3 DEF SignInOK
    <3>3. \A c \in Browsers : RequestOK(c)'
      BY <1>3, <1>4, <1>5, <2>1, <2>2, <2>7, RequestKept DEF HistoryInv
    <3> QED
      BY <1>4, <3>1, <3>2, <3>3 DEF HistoryInv
  <2>10. CASE /\ doubted'[u] = doubted[u] /\ doubted'[u] # highest'[u]
              /\ ~LosesIncrement(r) /\ ~KeepsDoubted(b, r)
    <3>1. Increments(r) => row.version = account[u].version + 1
                           /\ r.read.version = account[u].version
      BY <1>1, <1>2, <2>2, <2>10 DEF LosesIncrement
    <3>2. highest'[u] = row.version
      BY <1>2, <2>2, <2>3, <2>4, <2>6, <2>8, <2>10, <3>1 DEF AccountOK
    <3>3. \A v \in Users : AccountOK(v)'
      BY <1>2, <1>3, <1>4, <2>1, <2>2, <2>4, <2>5, <2>6, <2>8, <2>10, <3>2
         DEF HistoryInv, HistoryTyped, AccountOK
    <3>4. ASSUME NEW c \in Browsers PROVE SignInOK(cookies[c])'
      <4>1. SignInOK(cookies[c])
            /\ (cookies[c] # SignedOut => cookies[c] \in Cookie /\ cookies[c].user \in Users
                                          /\ cookies[c].version \in Int)
        BY VersionsAreNumbers DEF HistoryInv
      <4>2. CASE cookies'[c] = cookies[c]
        <5>1. CASE cookies[c] # SignedOut /\ cookies[c].user = u
          <6>1. account[u].exists /\ r.op # "newUser" /\ cookies[c].version <= highest[u]
            BY <2>2, <4>1, <5>1 DEF SignInOK
          <6>2. cookies[c].version <= highest'[u]
            <7>1. cookies[c].version \in Int /\ highest[u] \in Int /\ highest'[u] \in Int
              BY <1>2, <1>4, <2>4, <4>1, <5>1 DEF HistoryTyped
            <7> QED
              BY <2>6, <6>1, <7>1
          <6>3. CASE Increments(r)
            <7>1. cookies[c].version = row.version => cookies[c].version <= doubted[u]
              BY <1>2, <2>4, <2>8, <3>1, <4>1, <5>1, <6>1, <6>3 DEF AccountOK
            <7>2. ~(cookies[c].version = row.version /\ cookies[c].version > doubted[u])
              BY <1>2, <2>4, <4>1, <5>1, <7>1
            <7> QED
              BY <1>2, <2>1, <2>2, <2>10, <4>1, <4>2, <5>1, <6>2, <7>2 DEF SignInOK
          <6>4. CASE ~Increments(r)
            <7>1. row.version = account[u].version /\ SameProofs(account[u], row)
              BY <2>2, <6>1, <6>4
            <7> QED
              BY <1>2, <2>1, <2>2, <2>10, <4>1, <4>2, <5>1, <6>2, <7>1
                 DEF SignInOK, SameProofs, Proves
          <6> QED
            BY <6>3, <6>4
        <5>2. CASE cookies[c] # SignedOut /\ cookies[c].user # u
          BY <2>1, <2>5, <4>1, <4>2, <5>2 DEF SignInOK
        <5> QED
          BY <4>2, <5>1, <5>2 DEF SignInOK
      <4>3. CASE cookies'[c] # cookies[c] /\ cookies'[c] # SignedOut
        <5>1. /\ c = b /\ r.op = "editEmail" /\ cookies[b] # SignedOut /\ u = cookies[b].user
              /\ cookies'[b] = [cookies[b] EXCEPT !.version = r.write.version]
          BY <1>3, <2>1, <4>3 DEF Responded
        <5>2. /\ cookies'[b].user = u /\ cookies'[b].version = r.write.version
              /\ cookies'[b].password = cookies[b].password
              /\ cookies'[b].role = cookies[b].role
              /\ cookies'[b].factor = cookies[b].factor
              /\ cookies'[b].stage = cookies[b].stage
          BY <4>1, <5>1 DEF Cookie
        <5>3. r.read.version > doubted[u]
          BY <1>2, <2>4, <2>10, <4>3, <5>1 DEF KeepsDoubted
        <5>4. cookies[b].version = account[u].version
          BY <1>1, <1>2, <2>2, <3>1, <5>1 DEF HistoryInv, RequestOK
        <5>5. Proves(cookies[b], account[u])
          BY <2>2, <3>1, <4>1, <5>1, <5>3, <5>4 DEF SignInOK
        <5>6. Proves(cookies'[b], row)
          BY <2>2, <5>1, <5>2, <5>5 DEF Proves, SameProofs
        <5>7. r.write.version <= highest'[u]
          BY <2>2, <2>6, <5>1
        <5> QED
          BY <1>2, <2>1, <2>2, <5>1, <5>2, <5>6, <5>7 DEF SignInOK
      <4> QED
        BY <4>2, <4>3 DEF SignInOK
    <3>5. \A c \in Browsers : RequestOK(c)'
      BY <1>3, <1>4, <1>5, <2>1, <2>2, <2>7, RequestKept DEF HistoryInv
    <3> QED
      BY <1>4, <3>3, <3>4, <3>5 DEF HistoryInv
  <2> QED
    BY <2>5, <2>9, <2>10
<1> QED
  BY <1>6, <1>7

LEMMA OtherEndsKeepHistory ==
    ASSUME HistoryInv, Watch,
           \/ \E b \in Browsers : Abandon(b)
           \/ \E u \in Users : MemberDisbursement(u)
    PROVE  HistoryInv'
<1>0. TypeOK' /\ HistoryTyped'
  <2>1. CASE \E b \in Browsers : Abandon(b)
    BY <2>1, EndTyped, HistoryTypedNext DEF HistoryInv
  <2>2. CASE \E u \in Users : MemberDisbursement(u)
    <3>1. TypeOK'
      BY <2>2 DEF MemberDisbursement, HistoryInv, TypeOK
    <3> QED
      BY <3>1, HistoryTypedNext DEF HistoryInv
  <2> QED
    BY <2>1, <2>2
<1>1. /\ UNCHANGED <<account, cookies>>
      /\ \A c \in Browsers : ~Commits(c)
  BY DEF Abandon, MemberDisbursement, Commits
<1>2. UNCHANGED <<highest, doubted>>
  BY <1>0, <1>1, NothingNew
<1>3. \A c \in Browsers : requests'[c] = requests[c] \/ requests'[c] = Idle
  BY DEF Abandon, MemberDisbursement, HistoryInv, TypeOK
<1>4. \A v \in memberOnly' : v \in memberOnly \/ account[v].exists
  BY DEF Abandon, MemberDisbursement
<1>5. \A v \in Users : AccountOK(v)'
  BY <1>1, <1>2, <1>4 DEF HistoryInv, AccountOK
<1>6. ASSUME NEW c \in Browsers PROVE RequestOK(c)' /\ SignInOK(cookies[c])'
  <2>1. \A v \in Users : highest[v] <= highest'[v]
    BY <1>2 DEF HistoryInv, HistoryTyped
  <2>2. CASE requests'[c] = requests[c]
    <3>1. /\ cookies'[c] = cookies[c]
          /\ \A v \in Users : account[v].exists => account'[v].exists
      BY <1>1
    <3>2. RequestOK(c)'
      BY <1>0, <2>1, <2>2, <3>1, RequestKept
    <3> QED
      BY <1>1, <1>2, <3>2 DEF HistoryInv, SignInOK, Proves
  <2>3. CASE requests'[c] = Idle
    BY <2>3, <1>1, <1>2 DEF RequestOK, HistoryInv, SignInOK, Proves
  <2> QED
    BY <1>3, <2>2, <2>3
<1> QED
  BY <1>0, <1>5, <1>6 DEF HistoryInv

LEMMA InitHistory == Init /\ NoHistory => HistoryInv
<1> SUFFICES ASSUME Init, NoHistory PROVE HistoryInv
  OBVIOUS
<1>1. TypeOK
  BY DEF Init, TypeOK
<1>2. \A u \in Users : account[u].version \in Int
  BY <1>1, VersionsAreNumbers
<1>3. \A u \in Users : ~account[u].exists => account[u].version = 1
  BY DEF Init, NoAccount
<1>4. HistoryTyped
  BY <1>2 DEF NoHistory, HistoryTyped
<1>5. \A u \in Users : account[u].version >= 0
  BY <1>1 DEF TypeOK, Row, Versions
<1>6. \A u \in Users : AccountOK(u)
  BY <1>2, <1>3, <1>5 DEF NoHistory, AccountOK, Init
<1>7. \A b \in Browsers : RequestOK(b) /\ SignInOK(cookies[b])
  BY DEF Init, RequestOK, SignInOK
<1> QED
  BY <1>1, <1>4, <1>6, <1>7 DEF HistoryInv

LEMMA NextHistory ==
    ASSUME HistoryInv, [Next /\ Watch]_historyVars PROVE HistoryInv'
<1>1. CASE UNCHANGED historyVars
  BY <1>1 DEF historyVars, vars, HistoryInv, TypeOK, HistoryTyped, AccountOK, RequestOK,
              SignInOK, Proves, WriteOK, Increments, Stands
<1>2. CASE Next /\ Watch
  <2>1. ASSUME NEW b \in Browsers, NEW u \in Users, Login(b, u) \/ LoginPasskey(b, u)
        PROVE  HistoryInv'
    BY <1>2, <2>1, SignInKeepsHistory
  <2>2. ASSUME NEW b \in Browsers, NEW u \in Users,
               \/ NewUser(b, u) \/ EditUser(b, u) \/ ResetUserPassword(b, u)
               \/ DisableUserTotp(b, u) \/ WipeUserPasskeys(b, u)
               \/ ToggleUserEnabled(b, u) \/ ToggleUserAdmin(b, u)
        PROVE  HistoryInv'
    BY <1>2, <2>2, AdministrationKeepsHistory
  <2>3. ASSUME NEW b \in Browsers,
               ChangePassword(b) \/ SetupTotp(b) \/ ConfirmTotp(b) \/ DisableTotp(b)
        PROVE  HistoryInv'
    BY <1>2, <2>3, ProfileKeepsHistory
  <2>4. ASSUME NEW b \in Browsers, Commit(b) PROVE HistoryInv'
    BY <1>2, <2>4, CommitKeepsHistory
  <2>5. ASSUME NEW b \in Browsers, LoginAuthenticator(b) \/ Logout(b) PROVE HistoryInv'
    BY <1>2, <2>5, SignInKeepsHistory
  <2>6. CASE \/ \E b \in Browsers : Abandon(b)
             \/ \E u \in Users : MemberDisbursement(u)
    BY <1>2, <2>6, OtherEndsKeepHistory
  <2> QED
    BY <1>2, <2>1, <2>2, <2>3, <2>4, <2>5, <2>6 DEF Next
<1> QED
  BY <1>1, <1>2

LEMMA HistoryKept == WatchedSpec => []HistoryInv
<1> QED
  BY InitHistory, NextHistory, PTL DEF WatchedSpec

(* Only commits change an account.                                         *)
LEMMA OnlyCommits ==
    ASSUME TypeOK, Next, NEW u \in Users,
           account'[u] # account[u] \/ (u \in memberOnly' /\ u \notin memberOnly)
    PROVE  \/ \E b \in Browsers :
                 /\ requests[b] # Idle /\ requests[b].user = u /\ requests'[b] = Idle
                 /\ Unique(requests[b]) /\ UNCHANGED memberOnly
                 /\ account'[u] = Stored(requests[b])
           \/ UNCHANGED account /\ account[u].member
<1>1. ASSUME NEW b \in Browsers, Commit(b), account'[u] # account[u]
      PROVE  /\ requests[b] # Idle /\ requests[b].user = u /\ requests'[b] = Idle
             /\ Unique(requests[b]) /\ UNCHANGED memberOnly
             /\ account'[u] = Stored(requests[b])
  BY <1>1 DEF Commit, TypeOK
<1>2. ASSUME NEW b \in Browsers, Commit(b) PROVE UNCHANGED memberOnly
  BY <1>2 DEF Commit
<1>3. CASE \E v \in Users : MemberDisbursement(v)
  BY <1>3 DEF MemberDisbursement
<1>4. CASE /\ ~\E v \in Users : MemberDisbursement(v)
           /\ ~\E b \in Browsers : Commit(b)
  <2>1. ASSUME NEW b \in Browsers, NEW v \in Users,
               \/ Login(b, v) \/ LoginPasskey(b, v)
               \/ NewUser(b, v) \/ EditUser(b, v) \/ ResetUserPassword(b, v)
               \/ DisableUserTotp(b, v) \/ WipeUserPasskeys(b, v)
               \/ ToggleUserEnabled(b, v) \/ ToggleUserAdmin(b, v)
        PROVE  UNCHANGED <<account, memberOnly>>
    BY <2>1 DEF Login, LoginPasskey, SetCookie, NewUser, EditUser, ResetUserPassword, Submit,
                DisableUserTotp, WipeUserPasskeys, ToggleUserEnabled, ToggleUserAdmin
  <2>2. ASSUME NEW b \in Browsers,
               \/ LoginAuthenticator(b) \/ Logout(b) \/ Abandon(b)
               \/ ChangePassword(b) \/ SetupTotp(b) \/ ConfirmTotp(b) \/ DisableTotp(b)
        PROVE  UNCHANGED <<account, memberOnly>>
    BY <2>2 DEF LoginAuthenticator, Logout, SetCookie, ChangePassword, SetupTotp, ConfirmTotp,
                DisableTotp, Submit, Abandon
  <2>3. UNCHANGED <<account, memberOnly>>
    BY <1>4, <2>1, <2>2 DEF Next
  <2> QED
    BY <2>3
<1> QED
  BY <1>1, <1>2, <1>3, <1>4

(* The columns that a commit stores                                        *)
LEMMA StoredColumns ==
    ASSUME NEW r, r.op # "newUser", NEW c \in Columns
    PROVE  Stored(r)[c] = IF r.read[c] = r.write[c] THEN account[r.user][c] ELSE r.write[c]
BY DEF Stored, Merge

(* The history of lost increments is all that keeps an older sign-in       *)
(* alive: whoever is signed in with a version above the last doubted one   *)
(* has proved what the account asks for now.                               *)
THEOREM SignInsStayCurrent == WatchedSpec => []OlderSignInsEnd
<1>1. ASSUME HistoryInv PROVE OlderSignInsEnd
  BY <1>1 DEF HistoryInv, SignInOK, Proves, OlderSignInsEnd, SignedIn, Valid, Current
<1> QED
  BY <1>1, HistoryKept, PTL

(* A generated password is one whose change is required, until it is       *)
(* changed; only a reset that found a change required, and lost against    *)
(* that change, stores one without.                                        *)
THEOREM TemporaryPasswordsRequireChange == WatchedSpec => TemporaryPasswordsAreChanged
<1>1. ASSUME HistoryInv, Next, NEW u \in Users, ChangeRequired(u), ~ChangeRequired(u)'
      PROVE  Slips(u, {"resetPassword"})
  <2>1. account'[u] # account[u]
    BY <1>1 DEF ChangeRequired
  <2>2. PICK b \in Browsers :
           /\ requests[b] # Idle /\ requests[b].user = u /\ requests'[b] = Idle
           /\ Unique(requests[b]) /\ account'[u] = Stored(requests[b])
    BY <1>1, <2>1, OnlyCommits DEF HistoryInv
  <2>3. PICK r : r = requests[b]
    OBVIOUS
  <2>4. /\ WriteOK(r) /\ (r.op # "newUser" => account[u].exists)
        /\ (b \notin overtaken => Stands(r)) /\ r.user = u
    BY <1>1, <2>2, <2>3 DEF HistoryInv, RequestOK
  <2>5. Stored(r).password \in Temporary /\ ~Stored(r).required
    BY <1>1, <2>2, <2>3 DEF ChangeRequired
  <2>6. r.op # "newUser"
    BY <2>4, <2>5 DEF WriteOK, Stored
  <2>7. account[u].password \in Temporary => account[u].required
    BY <1>1, <2>4, <2>6 DEF ChangeRequired
  <2>8. /\ Stored(r).password = IF r.read.password = r.write.password THEN account[u].password
                                                                     ELSE r.write.password
        /\ Stored(r).required = IF r.read.required = r.write.required THEN account[u].required
                                                                     ELSE r.write.required
    BY <2>4, <2>6, StoredColumns DEF Columns
  <2>9. r.op \in {"resetPassword", "changePassword"}
    BY <2>4, <2>5, <2>6, <2>7, <2>8 DEF WriteOK
  <2>10. r.op # "changePassword"
    BY <2>4, <2>5, <2>8, AccountAssumption DEF WriteOK
  <2>11. r.read.required /\ ~account[u].required
    BY <2>4, <2>5, <2>8, <2>9, <2>10 DEF WriteOK
  <2>12. b \in overtaken
    BY <2>4, <2>9, <2>10, <2>11 DEF Stands
  <2> QED
    BY <2>2, <2>3, <2>9, <2>10, <2>12 DEF Slips
<1>2. ASSUME HistoryInv, [Next /\ Watch]_historyVars
      PROVE  [\A u \in Users : ChangeRequired(u) /\ ~ChangeRequired(u)'
                  => Slips(u, {"resetPassword"})]_historyVars
  BY <1>1, <1>2
<1> QED
  BY <1>2, HistoryKept, PTL DEF WatchedSpec, TemporaryPasswordsAreChanged

(* A member with in-kind transactions or retained earnings stays one; only *)
(* an edit that began before the first of them does otherwise.             *)
THEOREM MembersOwnTransactions == WatchedSpec => MemberTransactions
<1>1. ASSUME HistoryInv, Next, NEW u \in Users, OwnsAsMember(u), ~OwnsAsMember(u)'
      PROVE  Slips(u, {"editUser", "editEmail"})
  <2>1. account'[u] # account[u] \/ (u \in memberOnly' /\ u \notin memberOnly)
    BY <1>1 DEF OwnsAsMember
  <2>2. ~(UNCHANGED account /\ account[u].member)
    BY <1>1 DEF OwnsAsMember
  <2>3. PICK b \in Browsers :
           /\ requests[b] # Idle /\ requests[b].user = u /\ requests'[b] = Idle
           /\ Unique(requests[b]) /\ UNCHANGED memberOnly
           /\ account'[u] = Stored(requests[b])
    BY <1>1, <2>1, <2>2, OnlyCommits DEF HistoryInv
  <2>4. PICK r : r = requests[b]
    OBVIOUS
  <2>5. /\ WriteOK(r) /\ (b \notin overtaken => Stands(r)) /\ r.user = u /\ Unique(r)
        /\ u \in memberOnly /\ account[u].member /\ ~Stored(r).member
    BY <1>1, <2>3, <2>4 DEF HistoryInv, RequestOK, OwnsAsMember
  <2>6. r.op # "newUser"
    BY <1>1, <2>5 DEF HistoryInv, AccountOK, Unique
  <2>7. Stored(r).member = IF r.read.member = r.write.member THEN account[u].member
                                                             ELSE r.write.member
    BY <2>5, <2>6, StoredColumns DEF Columns
  <2>8. ~r.write.member /\ r.write.member # r.read.member
    BY <2>5, <2>7
  <2>9. r.op \in {"editUser", "editEmail"}
    BY <2>5, <2>6, <2>8 DEF WriteOK
  <2>10. b \in overtaken
    BY <2>5, <2>8, <2>9 DEF Stands
  <2> QED
    BY <2>3, <2>4, <2>9, <2>10 DEF Slips
<1>2. ASSUME HistoryInv, [Next /\ Watch]_historyVars
      PROVE  [\A u \in Users : OwnsAsMember(u) /\ ~OwnsAsMember(u)'
                  => Slips(u, {"editUser", "editEmail"})]_historyVars
  BY <1>1, <1>2
<1> QED
  BY <1>2, HistoryKept, PTL DEF WatchedSpec, MemberTransactions
=============================================================================
