------------------------ MODULE ReauthenticationProofs ------------------------
(***************************************************************************)
(* Proofs about Reauthentication, for any number of browsers, requests in  *)
(* progress, actions and challenges: audit events may fail to be written,  *)
(* and enrolments may overlap whatever changes the account.                *)
(***************************************************************************)
EXTENDS Reauthentication, TLAPS

Uses == {"login", "reauthenticate", "enrol"}
Factors == {"password", "password_totp", "passkey"}

Accounts == [version: Nat, secret: Nat, pending: Nat, secrets: Nat]
Pendings == [path: Paths, version: Nat, expires: Nat, verified: BOOLEAN]
Grants == [path: Paths, version: Nat, until: Nat, proof: Nat]
Cookies == [version: Nat, pending: Pendings \cup {Nothing}, grant: Grants \cup {Nothing}]
Proofs == [browser: Browsers, path: Paths, version: Nat, until: Nat, factor: Factors]
Items == [id: Nat, ceremony: Ceremonies, browser: Browsers, path: Paths \cup {Nothing},
          expires: Nat]

PasswordRequests ==
    [op: {"password"}, browser: Browsers, cookie: Cookies, read: Accounts]
CodeRequests ==
    [op: Uses, browser: Browsers, cookie: Cookies, read: Accounts, code: Nat \X Nat]
CeremonyRequests ==
    [op: Ceremonies, browser: Browsers, cookie: Cookies, read: Accounts, id: Nat]
ActionRequests ==
    [op: {"act"}, browser: Browsers, cookie: Cookies, read: Accounts, path: Paths, at: Nat]
AdminRequests == [op: {"disable"}, read: Accounts]
Requests == PasswordRequests \cup CodeRequests \cup CeremonyRequests \cup ActionRequests
                \cup AdminRequests

Typed ==
    /\ account \in Accounts
    /\ replay \in Nat
    /\ challenges \in SUBSET Items
    /\ cookie \in [Browsers -> Cookies]
    /\ request \in [Threads -> Requests \cup {Nothing}]
    /\ clock \in Nat
    /\ issued \in Seq(Items)
    /\ spent \in Seq(Nat)
    /\ used \in [(1..Secrets) \X Counters -> Nat]
    /\ proofs \in Seq(Proofs)

(* A challenge that waits has not been accepted yet.                       *)
ChallengesOK ==
    /\ Len(spent) = Len(issued)
    /\ \A c \in challenges : c.id \in DOMAIN issued /\ issued[c.id] = c /\ spent[c.id] = 0
    /\ \A id \in DOMAIN spent : spent[id] \in {0, 1}

(* The grant in cookie c of browser b rests on one of the proofs ps.       *)
Backed(b, c, ps) ==
    c.grant # Nothing =>
        /\ c.grant.proof \in 1..Len(ps)
        /\ ps[c.grant.proof].browser = b
        /\ ps[c.grant.proof].path = c.grant.path
        /\ ps[c.grant.proof].version = c.grant.version
        /\ ps[c.grant.proof].until = c.grant.until

(* What a request in progress brought from its checks                      *)
Prepared(r, ps, is) ==
    /\ r.op # "disable" => Backed(r.browser, r.cookie, ps)
    /\ r.op \in {"password", "reauthenticate", "reauthentication"}
          => r.cookie.pending # Nothing
    /\ r.op \in {"login", "reauthenticate"} => r.code[1] = r.read.secret /\ r.read.secret # 0
    /\ r.op = "disable" => r.read.secret # 0
    /\ r.op = "enrol" =>
          /\ r.read.secret = 0 /\ r.code[1] = r.read.pending /\ r.read.pending # 0
    /\ r.op \in Ceremonies => r.id \in 1..Len(is)
    /\ r.op = "reauthentication" => is[r.id].path = r.cookie.pending.path
    /\ r.op = "act" =>
          /\ r.cookie.grant # Nothing
          /\ r.cookie.grant.path = r.path
          /\ r.cookie.grant.version = r.read.version
          /\ r.cookie.grant.until > r.at

GrantsOK ==
    /\ \A b \in Browsers : Backed(b, cookie[b], proofs)
    /\ \A t \in Threads : request[t] # Nothing => Prepared(request[t], proofs, issued)

(* Every session version either has a TOTP factor or has none, although    *)
(* requests that overlap may set one version twice: each change of the     *)
(* factor counts the version up by one from what its request has read.     *)
Alternates(k) ==
    /\ account.secret # 0 <=> account.version % 2 = k
    /\ \A t \in Threads : request[t] # Nothing =>
          (request[t].read.secret # 0 <=> request[t].read.version % 2 = k)
    /\ \A i \in 1..Len(proofs) : proofs[i].factor = "password" => proofs[i].version % 2 # k

FactorsOK == \E k \in {0, 1} : Alternates(k)

Inv == Typed /\ ChallengesOK /\ GrantsOK /\ FactorsOK

-----------------------------------------------------------------------------
(* What a step may do                                                      *)

ProofMade ==
    \/ proofs' = proofs
    \/ \E p \in Proofs :
          /\ proofs' = Append(proofs, p)
          /\ p.factor = "password" =>
                \E t \in Threads : /\ request[t] # Nothing /\ request[t].read.secret = 0
                                   /\ p.version = request[t].read.version

ChallengeMade == issued' = issued \/ \E item \in Items : issued' = Append(issued, item)

CookiesMade == \A b \in Browsers : cookie'[b] = cookie[b] \/ Backed(b, cookie'[b], proofs')

RequestsMade ==
    \A t \in Threads :
        \/ request'[t] = request[t] \/ request'[t] = Nothing
        \/ Prepared(request'[t], proofs, issued) /\ request'[t].read = account

Toggled(read, acc) == acc.version = read.version + 1 /\ (acc.secret # 0 <=> read.secret = 0)

AccountMade ==
    \/ account'.version = account.version /\ account'.secret = account.secret
    \/ Toggled(account, account')
    \/ \E t \in Threads : request[t] # Nothing /\ Toggled(request[t].read, account')

Effects ==
    /\ Typed' /\ ChallengesOK'
    /\ ProofMade /\ ChallengeMade /\ CookiesMade /\ RequestsMade /\ AccountMade

LEMMA AppendFields ==
    ASSUME NEW S, NEW s \in Seq(S), NEW e \in S
    PROVE  /\ Append(s, e) \in Seq(S)
           /\ Len(Append(s, e)) = Len(s) + 1
           /\ Append(s, e)[Len(s) + 1] = e
           /\ \A i \in 1..Len(s) : Append(s, e)[i] = s[i]
OBVIOUS

LEMMA BackedLater ==
    ASSUME NEW ps \in Seq(Proofs), NEW p \in Proofs, NEW b, NEW c, Backed(b, c, ps)
    PROVE  Backed(b, c, Append(ps, p))
<1>1. Len(ps) \in Nat
  OBVIOUS
<1>2. ASSUME NEW i \in 1..Len(ps) PROVE Append(ps, p)[i] = ps[i] /\ i \in 1..Len(Append(ps, p))
  BY <1>1, AppendFields
<1> QED
  BY <1>2 DEF Backed

LEMMA PreparedLater ==
    ASSUME NEW ps \in Seq(Proofs), NEW is \in Seq(Items), NEW r, Prepared(r, ps, is)
    PROVE  /\ \A p \in Proofs : Prepared(r, Append(ps, p), is)
           /\ \A item \in Items : Prepared(r, ps, Append(is, item))
<1>1. ASSUME NEW p \in Proofs PROVE Prepared(r, Append(ps, p), is)
  BY BackedLater DEF Prepared
<1>2. ASSUME NEW item \in Items PROVE Prepared(r, ps, Append(is, item))
  <2>1. Len(is) \in Nat
    OBVIOUS
  <2>2. ASSUME NEW i \in 1..Len(is)
        PROVE  Append(is, item)[i] = is[i] /\ i \in 1..Len(Append(is, item))
    BY <2>1, AppendFields
  <2>3. r.op = "reauthentication" => r.op \in Ceremonies
    BY DEF Ceremonies
  <2> QED
    BY <2>2, <2>3 DEF Prepared
<1> QED
  BY <1>1, <1>2

LEMMA Parity ==
    ASSUME NEW v \in Nat, NEW k \in {0, 1} PROVE (v + 1) % 2 = k <=> v % 2 # k
OBVIOUS

(* The induction: whatever does no more than that keeps the invariant.     *)
LEMMA EffectsKeepGrants == ASSUME Inv, Effects PROVE GrantsOK'
<1>1. proofs \in Seq(Proofs) /\ issued \in Seq(Items)
  BY DEF Inv, Typed
<1>2. ASSUME NEW b \in Browsers PROVE Backed(b, cookie[b], proofs')
  BY <1>1, BackedLater DEF Inv, GrantsOK, Effects, ProofMade
<1>3. ASSUME NEW r, Prepared(r, proofs, issued) PROVE Prepared(r, proofs', issued')
  <2>1. Prepared(r, proofs', issued)
    BY <1>1, <1>3, PreparedLater DEF Effects, ProofMade
  <2>2. proofs' \in Seq(Proofs)
    BY DEF Effects, Typed
  <2> QED
    BY <1>1, <2>1, <2>2, PreparedLater DEF Effects, ChallengeMade
<1>4. ASSUME NEW b \in Browsers PROVE Backed(b, cookie'[b], proofs')
  BY <1>2 DEF Effects, CookiesMade
<1>5. ASSUME NEW t \in Threads, request'[t] # Nothing
      PROVE  Prepared(request'[t], proofs', issued')
  BY <1>3, <1>5 DEF Inv, GrantsOK, Effects, RequestsMade
<1> QED
  BY <1>4, <1>5 DEF GrantsOK

LEMMA EffectsKeepFactors == ASSUME Inv, Effects PROVE FactorsOK'
<1>1. PICK k \in {0, 1} : Alternates(k)
  BY DEF Inv, FactorsOK
<1>2. ASSUME NEW t \in Threads, request[t] # Nothing
      PROVE  /\ request[t].read.version \in Nat
             /\ request[t].read.secret # 0 <=> request[t].read.version % 2 = k
  BY <1>1, <1>2 DEF Inv, Typed, Alternates, Requests, PasswordRequests, CodeRequests,
                    CeremonyRequests, ActionRequests, AdminRequests, Accounts
<1>3. account.version \in Nat /\ (account.secret # 0 <=> account.version % 2 = k)
  BY <1>1 DEF Inv, Typed, Alternates, Accounts
<1>4. ASSUME NEW read, NEW acc, read.version \in Nat, Toggled(read, acc),
             read.secret # 0 <=> read.version % 2 = k
      PROVE  acc.secret # 0 <=> acc.version % 2 = k
  BY <1>4, Parity DEF Toggled
<1>5. account'.secret # 0 <=> account'.version % 2 = k
  BY <1>2, <1>3, <1>4 DEF Effects, AccountMade
<1>6. ASSUME NEW t \in Threads, request'[t] # Nothing
      PROVE  request'[t].read.secret # 0 <=> request'[t].read.version % 2 = k
  BY <1>2, <1>3, <1>6 DEF Effects, RequestsMade
<1>7. ASSUME NEW i \in 1..Len(proofs'), proofs'[i].factor = "password"
      PROVE  proofs'[i].version % 2 # k
  <2>1. CASE proofs' = proofs
    BY <1>1, <1>7, <2>1 DEF Alternates
  <2>2. ASSUME NEW p \in Proofs, proofs' = Append(proofs, p),
               p.factor = "password" =>
                   \E t \in Threads : /\ request[t] # Nothing /\ request[t].read.secret = 0
                                      /\ p.version = request[t].read.version
        PROVE  proofs'[i].version % 2 # k
    <3>1. Len(proofs) \in Nat /\ proofs \in Seq(Proofs)
      BY DEF Inv, Typed
    <3>2. CASE i \in 1..Len(proofs)
      <4>1. proofs'[i] = proofs[i]
        BY <2>2, <3>1, <3>2, AppendFields
      <4> QED
        BY <1>1, <1>7, <3>2, <4>1 DEF Alternates
    <3>3. CASE i = Len(proofs) + 1
      <4>1. proofs'[i] = p
        BY <2>2, <3>1, <3>3, AppendFields
      <4> QED
        BY <1>2, <1>7, <2>2, <4>1
    <3>4. Len(proofs') = Len(proofs) + 1
      BY <2>2, <3>1, AppendFields
    <3> QED
      BY <3>1, <3>2, <3>3, <3>4
  <2> QED
    BY <2>1, <2>2 DEF Effects, ProofMade
<1>8. Alternates(k)'
  BY <1>5, <1>6, <1>7 DEF Alternates
<1> QED
  BY <1>8 DEF FactorsOK

LEMMA EffectsKeep == ASSUME Inv, Effects PROVE Inv'
BY EffectsKeepGrants, EffectsKeepFactors DEF Effects, Inv

-----------------------------------------------------------------------------
LEMMA InitInv == Init => Inv
<1> SUFFICES ASSUME Init PROVE Inv
  OBVIOUS
<1>1. SignedOut \in Cookies /\ SignedInAt(1) \in Cookies
      /\ SignedOut.grant = Nothing /\ SignedInAt(1).grant = Nothing
  BY DEF SignedOut, SignedInAt, Cookies
<1>2. Typed
  <2>1. account \in Accounts /\ cookie \in [Browsers -> Cookies]
    BY <1>1 DEF Init, Accounts
  <2>2. used \in [(1..Secrets) \X Counters -> Nat]
    BY DEF Init
  <2> QED
    BY <2>1, <2>2 DEF Init, Typed
<1>3. ChallengesOK
  BY DEF Init, ChallengesOK
<1>4. GrantsOK
  BY <1>1 DEF Init, GrantsOK, Backed
<1>5. FactorsOK
  <2>1. Len(proofs) = 0 /\ account.version = 1 /\ account.secret \in {0, 1}
        /\ \A t \in Threads : request[t] = Nothing
    BY DEF Init
  <2>2. Alternates(account.secret)
    BY <2>1 DEF Alternates
  <2> QED
    BY <2>1, <2>2 DEF FactorsOK
<1> QED
  BY <1>2, <1>3, <1>4, <1>5 DEF Inv

-----------------------------------------------------------------------------
(* What the parts of an action do                                          *)

LEMMA SameChallenges ==
    ASSUME ChallengesOK, UNCHANGED <<challenges, issued, spent>> PROVE ChallengesOK'
BY DEF ChallengesOK

LEMMA Successor == ASSUME NEW v \in Nat PROVE v + 1 \in Nat
OBVIOUS

LEMMA CookieFields ==
    ASSUME NEW c \in Cookies, NEW version \in Nat, NEW b, NEW ps
    PROVE  /\ SignedOut \in Cookies /\ SignedInAt(version) \in Cookies
           /\ [c EXCEPT !.grant = Nothing] \in Cookies
           /\ [c EXCEPT !.pending = Nothing] \in Cookies
           /\ [c EXCEPT !.pending = Nothing].grant = c.grant
           /\ Backed(b, SignedOut, ps) /\ Backed(b, SignedInAt(version), ps)
           /\ Backed(b, [c EXCEPT !.grant = Nothing], ps)
BY DEF Cookies, SignedOut, SignedInAt, Backed

LEMMA BeginMakes ==
    ASSUME Typed, NEW t \in Threads, NEW r \in Requests, Begin(t, r)
    PROVE  /\ request' \in [Threads -> Requests \cup {Nothing}]
           /\ \A u \in Threads : request'[u] = request[u] \/ request'[u] = r
BY DEF Typed, Begin

LEMMA EndMakes ==
    ASSUME Typed, NEW t \in Threads, End(t)
    PROVE  /\ request' \in [Threads -> Requests \cup {Nothing}]
           /\ RequestsMade
           /\ \A u \in Threads : request'[u] = IF u = t THEN Nothing ELSE request[u]
BY DEF Typed, End, RequestsMade

LEMMA RespondsMakes ==
    ASSUME Typed, NEW b \in Browsers, NEW c \in Cookies, Responds(b, c)
    PROVE  /\ cookie' \in [Browsers -> Cookies]
           /\ \A x \in Browsers : cookie'[x] = cookie[x] \/ (x = b /\ cookie'[x] = c)
BY DEF Typed, Responds

LEMMA SetCookie ==
    ASSUME Typed, NEW b \in Browsers, NEW c \in Cookies, cookie' = [cookie EXCEPT ![b] = c]
    PROVE  /\ cookie' \in [Browsers -> Cookies]
           /\ \A x \in Browsers : cookie'[x] = cookie[x] \/ (x = b /\ cookie'[x] = c)
BY DEF Typed

(* A reauthentication adds its proof, and a grant that rests on it.        *)
LEMMA AuthorizeMakes ==
    ASSUME Typed, NEW b \in Browsers, NEW c \in Cookies, NEW path \in Paths,
           NEW version \in Nat, NEW factor \in Factors,
           Authorize(b, c, path, version,
                     [browser |-> b, path |-> path, version |-> version,
                      until |-> clock + Ttl, factor |-> factor])
    PROVE  /\ proofs' \in Seq(Proofs)
           /\ \E p \in Proofs : /\ proofs' = Append(proofs, p)
                                /\ p.factor = factor /\ p.version = version
           /\ cookie' \in [Browsers -> Cookies]
           /\ CookiesMade
<1> DEFINE p == [browser |-> b, path |-> path, version |-> version,
                 until |-> clock + Ttl, factor |-> factor]
           g == [path |-> path, version |-> version,
                 until |-> clock + Ttl, proof |-> Len(proofs) + 1]
           new == [c EXCEPT !.pending = Nothing, !.grant = g]
<1>1. Ttl \in Nat /\ clock + Ttl \in Nat /\ Len(proofs) \in Nat /\ proofs \in Seq(Proofs)
  BY ReauthenticationAssumption DEF Typed
<1>2. p \in Proofs /\ proofs' = Append(proofs, p)
  BY <1>1 DEF Proofs, Authorize
<1>3. g \in Grants
  BY <1>1 DEF Grants
<1>4. new \in Cookies /\ new.grant = g
  BY <1>3 DEF Cookies
<1>5. Responds(b, new)
  BY DEF Authorize
<1>6. proofs' \in Seq(Proofs) /\ Len(proofs') = Len(proofs) + 1 /\ proofs'[Len(proofs) + 1] = p
  BY <1>1, <1>2, AppendFields
<1>7. Backed(b, new, proofs')
  BY <1>1, <1>4, <1>6 DEF Backed
<1> HIDE DEF new
<1>8. /\ cookie' \in [Browsers -> Cookies]
      /\ \A x \in Browsers : cookie'[x] = cookie[x] \/ (x = b /\ cookie'[x] = new)
  BY <1>4, <1>5, RespondsMakes
<1>9. CookiesMade
  BY <1>7, <1>8 DEF CookiesMade
<1> QED
  BY <1>2, <1>6, <1>8, <1>9

(* What a request in progress has                                          *)
LEMMA InProgress ==
    ASSUME Inv, NEW t \in Threads, request[t] # Nothing
    PROVE  /\ request[t] \in Requests /\ Prepared(request[t], proofs, issued)
           /\ request[t].op # "disable" =>
                 request[t].browser \in Browsers /\ request[t].cookie \in Cookies
           /\ request[t].read \in Accounts
           /\ request[t].op \in Uses => request[t].code \in Nat \X Nat
           /\ request[t].op \in {"password"} \cup Uses \cup Ceremonies \cup {"act", "disable"}
BY DEF Inv, Typed, GrantsOK, Requests, PasswordRequests, CodeRequests, CeremonyRequests,
       ActionRequests, AdminRequests, Uses, Ceremonies

-----------------------------------------------------------------------------
(* What the actions do                                                     *)

LEMMA SessionEffects ==
    ASSUME Inv, NEW b \in Browsers, NEW path \in Paths,
           Login(b) \/ Logout(b) \/ StartReauthentication(b, path)
    PROVE  Effects
<1>1. Typed /\ cookie[b] \in Cookies /\ account.version \in Nat /\ clock + Ttl \in Nat
  BY ReauthenticationAssumption DEF Inv, Typed, Accounts
<1> USE DEF Login, Logout, StartReauthentication, database, ghosts
<1>2. PICK c \in Cookies : cookie' = [cookie EXCEPT ![b] = c] /\ c.grant = Nothing
  <2>1. CASE Login(b) \/ Logout(b)
    BY <1>1, <2>1 DEF SignedOut, SignedInAt, Cookies
  <2>2. CASE StartReauthentication(b, path)
    <3> DEFINE p == [path |-> path, version |-> account.version,
                     expires |-> clock + Ttl, verified |-> FALSE]
               c == [cookie[b] EXCEPT !.grant = Nothing, !.pending = p]
    <3>1. p \in Pendings
      BY <1>1 DEF Pendings
    <3>2. c \in Cookies /\ c.grant = Nothing
      BY <1>1, <3>1 DEF Cookies
    <3>3. cookie' = [cookie EXCEPT ![b] = c]
      BY <2>2
    <3> QED
      BY <3>2, <3>3
  <2> QED
    BY <2>1, <2>2
<1>3. /\ cookie' \in [Browsers -> Cookies]
      /\ \A x \in Browsers : cookie'[x] = cookie[x] \/ (x = b /\ cookie'[x] = c)
  BY <1>1, <1>2, SetCookie
<1>4. CookiesMade
  BY <1>2, <1>3 DEF CookiesMade, Backed
<1>5. Typed' /\ ChallengesOK'
  BY <1>1, <1>3, SameChallenges DEF Inv, Typed
<1> QED
  BY <1>4, <1>5 DEF Effects, ProofMade, ChallengeMade, RequestsMade, AccountMade

LEMMA EnterEffects ==
    ASSUME Inv, NEW t \in Threads, NEW r \in Requests, Begin(t, r),
           UNCHANGED <<account, replay, cookie, clock, used, proofs, issued>>,
           r.read = account, Prepared(r, proofs, issued),
           challenges' \in SUBSET Items, spent' \in Seq(Nat), ChallengesOK'
    PROVE  Effects
<1>1. /\ request' \in [Threads -> Requests \cup {Nothing}]
      /\ \A u \in Threads : request'[u] = request[u] \/ request'[u] = r
  BY BeginMakes DEF Inv
<1>2. RequestsMade
  BY <1>1 DEF RequestsMade
<1>3. Typed'
  BY <1>1 DEF Inv, Typed
<1> QED
  BY <1>2, <1>3 DEF Effects, ProofMade, ChallengeMade, CookiesMade, AccountMade

LEMMA SameTypes ==
    ASSUME Inv, UNCHANGED <<challenges, issued, spent>>
    PROVE  challenges' \in SUBSET Items /\ spent' \in Seq(Nat) /\ ChallengesOK'
BY SameChallenges DEF Inv, Typed

LEMMA EnterPasswordEffects ==
    ASSUME Inv, NEW t \in Threads, NEW b \in Browsers, EnterPassword(t, b)
    PROVE  Effects
<1> DEFINE r == [op |-> "password", browser |-> b, cookie |-> cookie[b], read |-> account]
<1> USE DEF EnterPassword, database, ghosts
<1>1. cookie[b] \in Cookies /\ account \in Accounts /\ Backed(b, cookie[b], proofs)
  BY DEF Inv, Typed, GrantsOK
<1>2. r \in Requests
  BY <1>1 DEF Requests, PasswordRequests
<1>3. Prepared(r, proofs, issued)
  BY <1>1 DEF Prepared, Pending, Ceremonies
<1>4. Begin(t, r)
  OBVIOUS
<1> HIDE DEF r
<1>5. r.read = account
  BY DEF r
<1> QED
  BY <1>2, <1>3, <1>4, <1>5, SameTypes, EnterEffects

LEMMA EnterCodeEffects ==
    ASSUME Inv, NEW t \in Threads, NEW b \in Browsers, NEW use \in Uses,
           NEW counter \in Counters, EnterCode(t, b, use, counter)
    PROVE  Effects
<1> DEFINE r == [op |-> use, browser |-> b, cookie |-> cookie[b], read |-> account,
                 code |-> <<IF use = "enrol" THEN account.pending ELSE account.secret,
                            counter>>]
<1> USE DEF EnterCode, database, ghosts
<1>1. cookie[b] \in Cookies /\ account \in Accounts /\ Backed(b, cookie[b], proofs)
  BY DEF Inv, Typed, GrantsOK
<1>2. counter \in Nat
  BY ReauthenticationAssumption DEF Counters
<1>3. r \in Requests
  <2>1. r.code \in Nat \X Nat
    BY <1>1, <1>2 DEF Accounts
  <2> QED
    BY <1>1, <2>1 DEF Requests, CodeRequests
<1>4. Prepared(r, proofs, issued)
  <2>1. r.op = use /\ r.read = account /\ r.cookie = cookie[b] /\ r.browser = b
        /\ r.code[1] = IF use = "enrol" THEN account.pending ELSE account.secret
    OBVIOUS
  <2>2. /\ use \in Operations
        /\ use \in {"login", "reauthenticate"} => account.secret # 0
        /\ use = "reauthenticate" => cookie[b].pending # Nothing
        /\ use = "enrol" => account.secret = 0 /\ account.pending # 0
    BY DEF Pending
  <2> HIDE DEF r
  <2> QED
    BY <1>1, <2>1, <2>2 DEF Prepared, Ceremonies, Uses
<1>5. Begin(t, r) /\ r.read = account
  OBVIOUS
<1> HIDE DEF r
<1> QED
  BY <1>3, <1>4, <1>5, SameTypes, EnterEffects

LEMMA SubmitActionEffects ==
    ASSUME Inv, NEW t \in Threads, NEW b \in Browsers, NEW path \in Paths,
           SubmitAction(t, b, path)
    PROVE  Effects
<1> DEFINE r == [op |-> "act", browser |-> b, cookie |-> cookie[b], read |-> account,
                 path |-> path, at |-> clock]
<1> USE DEF SubmitAction, database, ghosts
<1>1. cookie[b] \in Cookies /\ account \in Accounts /\ Backed(b, cookie[b], proofs)
      /\ clock \in Nat
  BY DEF Inv, Typed, GrantsOK
<1>2. r \in Requests
  BY <1>1 DEF Requests, ActionRequests
<1>3. Prepared(r, proofs, issued)
  BY <1>1 DEF Prepared, Authorized, Ceremonies
<1>4. Begin(t, r) /\ r.read = account
  OBVIOUS
<1> HIDE DEF r
<1> QED
  BY <1>2, <1>3, <1>4, SameTypes, EnterEffects

(* A consumed challenge is one that waited.                                *)
LEMMA SubmitAssertionEffects ==
    ASSUME Inv, NEW t \in Threads, NEW b \in Browsers, NEW ceremony \in Ceremonies,
           NEW id \in DOMAIN issued, SubmitAssertion(t, b, ceremony, id)
    PROVE  Effects
<1> USE DEF SubmitAssertion
<1>1. Typed /\ ChallengesOK /\ issued \in Seq(Items) /\ spent \in Seq(Nat)
      /\ cookie[b] \in Cookies /\ account \in Accounts /\ Backed(b, cookie[b], proofs)
  BY DEF Inv, Typed, GrantsOK
<1>2. challenges' = {c \in challenges : c.id # id} /\ challenges' \in SUBSET Items
  BY <1>1 DEF Consume, Typed
<1>3. CASE UNCHANGED <<spent, request>>
  <2>1. ChallengesOK'
    BY <1>1, <1>2, <1>3 DEF ChallengesOK
  <2>2. Typed'
    BY <1>1, <1>2, <1>3 DEF Typed
  <2> QED
    BY <1>3, <2>1, <2>2
       DEF Effects, ProofMade, ChallengeMade, CookiesMade, RequestsMade, AccountMade
<1>4. ASSUME NEW c \in challenges, c.id = id, Matches(c, b, ceremony),
             spent' = [spent EXCEPT ![id] = @ + 1],
             Begin(t, [op |-> ceremony, browser |-> b, cookie |-> cookie[b],
                       read |-> account, id |-> id])
      PROVE  Effects
  <2> DEFINE r == [op |-> ceremony, browser |-> b, cookie |-> cookie[b],
                   read |-> account, id |-> id]
  <2>1. issued[id] = c /\ spent[id] = 0 /\ id \in DOMAIN spent /\ DOMAIN spent = DOMAIN issued
    BY <1>1, <1>4 DEF ChallengesOK
  <2>2. spent' \in Seq(Nat) /\ DOMAIN spent' = DOMAIN spent /\ Len(spent') = Len(spent)
        /\ \A i \in DOMAIN spent : spent'[i] = IF i = id THEN 1 ELSE spent[i]
    BY <1>1, <1>4, <2>1
  <2>3. ChallengesOK'
    BY <1>1, <1>2, <2>2 DEF ChallengesOK
  <2>4. r \in Requests
    BY <1>1 DEF Requests, CeremonyRequests
  <2>5. ceremony = "reauthentication" =>
            cookie[b].pending # Nothing /\ c.path = cookie[b].pending.path
    BY <1>4 DEF Matches, MayBegin, Pending, ContextOf
  <2>6. Prepared(r, proofs, issued)
    BY <1>1, <2>1, <2>5 DEF Prepared, Ceremonies
  <2>7. Begin(t, r) /\ r.read = account
    BY <1>4
  <2> HIDE DEF r
  <2> QED
    BY <1>2, <2>2, <2>3, <2>4, <2>6, <2>7, EnterEffects
<1> QED
  BY <1>3, <1>4

LEMMA PasskeyOptionsEffects ==
    ASSUME Inv, NEW b \in Browsers, NEW ceremony \in Ceremonies, PasskeyOptions(b, ceremony)
    PROVE  Effects
<1> USE DEF PasskeyOptions
<1> DEFINE item == [id |-> Len(issued) + 1, ceremony |-> ceremony, browser |-> b,
                    path |-> ContextOf(b, ceremony), expires |-> clock + Ttl]
<1>1. Typed /\ ChallengesOK /\ issued \in Seq(Items) /\ spent \in Seq(Nat)
      /\ Len(issued) \in Nat /\ Len(spent) = Len(issued) /\ clock + Ttl \in Nat
  BY ReauthenticationAssumption DEF Inv, Typed, ChallengesOK
<1>2. ContextOf(b, ceremony) \in Paths \cup {Nothing}
  <2>1. ceremony = "reauthentication" => cookie[b].pending \in Pendings
    BY <1>1 DEF MayBegin, Pending, Typed, Cookies
  <2> QED
    BY <2>1 DEF ContextOf, Pendings
<1>3. item \in Items
  BY <1>1, <1>2 DEF Items
<1>4. issued' = Append(issued, item) /\ spent' = Append(spent, 0)
      /\ challenges' \subseteq challenges \cup {item}
  OBVIOUS
<1>5. item.id = Len(issued) + 1
  OBVIOUS
<1> HIDE DEF item
<1>6. /\ issued' \in Seq(Items) /\ Len(issued') = Len(issued) + 1
      /\ issued'[Len(issued) + 1] = item
      /\ \A i \in 1..Len(issued) : issued'[i] = issued[i]
  BY <1>1, <1>3, <1>4, AppendFields
<1>7. /\ spent' \in Seq(Nat) /\ Len(spent') = Len(issued) + 1
      /\ spent'[Len(issued) + 1] = 0
      /\ \A i \in 1..Len(issued) : spent'[i] = spent[i]
  <2>1. 0 \in Nat
    OBVIOUS
  <2> QED
    BY <1>1, <1>4, <2>1, AppendFields
<1>8. challenges' \in SUBSET Items
  BY <1>1, <1>3, <1>4 DEF Typed
<1>9. ChallengesOK'
  <2>1. \A c \in challenges : c.id \in 1..Len(issued) /\ issued[c.id] = c /\ spent[c.id] = 0
    BY <1>1 DEF ChallengesOK
  <2>2. ASSUME NEW c \in challenges'
        PROVE  c.id \in DOMAIN issued' /\ issued'[c.id] = c /\ spent'[c.id] = 0
    <3>1. DOMAIN issued' = 1..Len(issued) + 1
      BY <1>6
    <3> QED
      BY <1>1, <1>4, <1>5, <1>6, <1>7, <2>1, <3>1
  <2>3. ASSUME NEW i \in DOMAIN spent' PROVE spent'[i] \in {0, 1}
    <3>1. i \in 1..Len(issued) \/ i = Len(issued) + 1
      BY <1>1, <1>7
    <3> QED
      BY <1>1, <1>7, <3>1 DEF ChallengesOK
  <2> QED
    BY <1>6, <1>7, <2>2, <2>3 DEF ChallengesOK
<1>10. Typed'
  BY <1>1, <1>6, <1>7, <1>8 DEF Typed
<1> QED
  BY <1>3, <1>4, <1>9, <1>10
     DEF Effects, ProofMade, ChallengeMade, CookiesMade, RequestsMade, AccountMade

(* The end of a request that reauthenticates                               *)
LEMMA ReauthenticatedEffects ==
    ASSUME Inv, NEW t \in Threads, NEW factor \in Factors, request[t] # Nothing,
           request[t].op # "disable", request[t].cookie.pending # Nothing,
           Authorize(request[t].browser, request[t].cookie, request[t].cookie.pending.path,
                     request[t].read.version,
                     [browser |-> request[t].browser,
                      path |-> request[t].cookie.pending.path,
                      version |-> request[t].read.version,
                      until |-> clock + Ttl, factor |-> factor]),
           factor = "password" => request[t].read.secret = 0,
           End(t), replay' \in Nat, used' \in [(1..Secrets) \X Counters -> Nat],
           UNCHANGED <<account, challenges, clock, issued, spent>>
    PROVE  Effects
<1>1. /\ request[t].browser \in Browsers /\ request[t].cookie \in Cookies
      /\ request[t].read.version \in Nat
  BY InProgress DEF Accounts
<1>2. request[t].cookie.pending.path \in Paths
  BY <1>1 DEF Cookies, Pendings
<1>3. /\ proofs' \in Seq(Proofs)
      /\ \E p \in Proofs : /\ proofs' = Append(proofs, p)
                           /\ p.factor = factor /\ p.version = request[t].read.version
      /\ cookie' \in [Browsers -> Cookies]
      /\ CookiesMade
  BY <1>1, <1>2, AuthorizeMakes DEF Inv
<1>4. ProofMade
  BY <1>3 DEF ProofMade
<1>5. RequestsMade /\ request' \in [Threads -> Requests \cup {Nothing}]
  BY EndMakes DEF Inv
<1>6. Typed' /\ ChallengesOK'
  BY <1>3, <1>5, SameChallenges DEF Inv, Typed
<1> QED
  BY <1>3, <1>4, <1>5, <1>6 DEF Effects, ChallengeMade, AccountMade

(* The end of any other request                                            *)
LEMMA AnsweredEffects ==
    ASSUME Inv, NEW t \in Threads, NEW b \in Browsers, NEW c \in Cookies, Responds(b, c),
           Backed(b, c, proofs), End(t), account' \in Accounts, AccountMade,
           replay' \in Nat, used' \in [(1..Secrets) \X Counters -> Nat],
           UNCHANGED <<challenges, clock, issued, spent, proofs>>
    PROVE  Effects
<1>1. /\ cookie' \in [Browsers -> Cookies]
      /\ \A x \in Browsers : cookie'[x] = cookie[x] \/ (x = b /\ cookie'[x] = c)
  BY RespondsMakes DEF Inv
<1>2. CookiesMade
  BY <1>1 DEF CookiesMade
<1>3. RequestsMade /\ request' \in [Threads -> Requests \cup {Nothing}]
  BY EndMakes DEF Inv
<1>4. Typed' /\ ChallengesOK'
  BY <1>1, <1>3, SameChallenges DEF Inv, Typed
<1> QED
  BY <1>2, <1>3, <1>4 DEF Effects, ProofMade, ChallengeMade

LEMMA PasswordAcceptedEffects ==
    ASSUME Inv, NEW t \in Threads, PasswordAccepted(t) PROVE Effects
<1> USE DEF PasswordAccepted, database
<1>1. /\ request[t].browser \in Browsers /\ request[t].cookie \in Cookies
      /\ Prepared(request[t], proofs, issued) /\ request[t].cookie.pending # Nothing
  BY InProgress DEF Prepared
<1>2. /\ account' \in Accounts /\ replay' \in Nat
      /\ used' \in [(1..Secrets) \X Counters -> Nat] /\ AccountMade
  BY DEF Inv, Typed, AccountMade
<1>3. CASE request[t].read.secret = 0
  BY <1>1, <1>2, <1>3, ReauthenticatedEffects DEF Factors
<1>4. CASE request[t].read.secret # 0
  <2> DEFINE c == [request[t].cookie EXCEPT !.pending.verified = TRUE]
  <2>1. c \in Cookies /\ c.grant = request[t].cookie.grant
    <3>1. request[t].cookie.pending \in Pendings
      BY <1>1 DEF Cookies
    <3>2. [request[t].cookie.pending EXCEPT !.verified = TRUE] \in Pendings
      BY <3>1 DEF Pendings
    <3> QED
      BY <1>1, <3>2 DEF Cookies
  <2>2. Backed(request[t].browser, c, proofs)
    BY <1>1, <2>1 DEF Prepared, Backed
  <2>3. Responds(request[t].browser, c) /\ proofs' = proofs
    BY <1>4
  <2> HIDE DEF c
  <2> QED
    BY <1>1, <1>2, <2>1, <2>2, <2>3, AnsweredEffects
<1> QED
  BY <1>3, <1>4

LEMMA CodeUse ==
    ASSUME Inv, NEW t \in Threads, NEW x, used' = used \/ used' = [used EXCEPT ![x] = @ + 1]
    PROVE  used' \in [(1..Secrets) \X Counters -> Nat]
BY DEF Inv, Typed

LEMMA ConsumeCodeEffects ==
    ASSUME Inv, NEW t \in Threads, ConsumeCode(t) PROVE Effects
<1> DEFINE r == request[t]
<1>1. r # Nothing /\ r.op \in Uses /\ End(t) /\ UNCHANGED <<clock, issued, spent>>
  BY DEF ConsumeCode, Uses
<1>2. /\ r.browser \in Browsers /\ r.cookie \in Cookies /\ r.read \in Accounts
      /\ Prepared(r, proofs, issued) /\ r.code[1] \in Nat /\ r.code[2] \in Nat
  BY <1>1, InProgress DEF Uses
<1>3. account \in Accounts /\ replay \in Nat /\ used \in [(1..Secrets) \X Counters -> Nat]
  BY DEF Inv, Typed
<1>4. Backed(r.browser, r.cookie, proofs)
      /\ (r.op = "reauthenticate" => r.cookie.pending # Nothing)
      /\ (r.op = "enrol" => r.read.secret = 0 /\ r.code[1] # 0)
  BY <1>1, <1>2 DEF Prepared, Uses
<1>5. CASE Reject(t)
  <2> DEFINE c == IF r.op = "reauthenticate" THEN [r.cookie EXCEPT !.pending = Nothing]
                  ELSE r.cookie
  <2>1. c \in Cookies /\ c.grant = r.cookie.grant
    BY <1>2, CookieFields
  <2>2. Backed(r.browser, c, proofs)
    BY <1>4, <2>1 DEF Backed
  <2>3. /\ Responds(r.browser, c)
        /\ UNCHANGED <<account, replay, challenges, proofs, used>>
    BY <1>5 DEF Reject, database
  <2>4. AccountMade
    BY <2>3 DEF AccountMade
  <2> HIDE DEF c, r
  <2> QED
    BY <1>1, <1>2, <1>3, <2>1, <2>2, <2>3, <2>4, AnsweredEffects
<1>6. CASE ~Reject(t)
  <2>1. /\ CommitCounter(r.op, r.code[2])
        /\ used' = used \/ used' = [used EXCEPT ![r.code] = @ + 1]
        /\ challenges' = challenges
        /\ \/ /\ r.op = "login"
              /\ Responds(r.browser, SignedInAt(r.read.version))
              /\ UNCHANGED <<account, proofs>>
           \/ /\ r.op = "reauthenticate"
              /\ Authorize(r.browser, r.cookie, r.cookie.pending.path, r.read.version,
                           [browser |-> r.browser, path |-> r.cookie.pending.path,
                            version |-> r.read.version, until |-> clock + Ttl,
                            factor |-> "password_totp"])
              /\ UNCHANGED account
           \/ /\ r.op = "enrol"
              /\ account' = [account EXCEPT !.secret = r.code[1], !.pending = 0,
                                            !.version = r.read.version + 1]
              /\ Responds(r.browser, SignedOut)
              /\ UNCHANGED proofs
    BY <1>6 DEF ConsumeCode
  <2>2. replay' \in Nat /\ used' \in [(1..Secrets) \X Counters -> Nat]
    BY <1>2, <1>3, <2>1, CodeUse DEF CommitCounter
  <2>3. r.read.version \in Nat
    BY <1>2 DEF Accounts
  <2>4. /\ SignedInAt(r.read.version) \in Cookies /\ SignedOut \in Cookies
        /\ Backed(r.browser, SignedInAt(r.read.version), proofs)
        /\ Backed(r.browser, SignedOut, proofs)
    BY <1>2, <2>3, CookieFields
  <2>5. CASE r.op = "login"
    <3>1. account' = account /\ AccountMade /\ proofs' = proofs
          /\ Responds(r.browser, SignedInAt(r.read.version))
      BY <2>1, <2>5 DEF AccountMade
    <3> HIDE DEF r
    <3> QED
      BY <1>1, <1>2, <1>3, <2>1, <2>2, <2>4, <3>1, AnsweredEffects
  <2>6. CASE r.op = "reauthenticate"
    BY <1>1, <1>4, <2>1, <2>2, <2>6, ReauthenticatedEffects DEF Factors
  <2>7. CASE r.op = "enrol"
    <3>1. account' = [account EXCEPT !.secret = r.code[1], !.pending = 0,
                                     !.version = r.read.version + 1]
          /\ Responds(r.browser, SignedOut) /\ proofs' = proofs
      BY <2>1, <2>7
    <3>2. account' \in Accounts /\ account'.version = r.read.version + 1
          /\ account'.secret = r.code[1]
      <4> HIDE DEF r
      <4>1. PICK v \in Nat : v = r.read.version + 1
        BY <2>3, Successor
      <4>2. PICK s \in Nat : s = r.code[1]
        BY <1>2
      <4>3. account' = [account EXCEPT !.secret = s, !.pending = 0, !.version = v]
        BY <3>1, <4>1, <4>2
      <4> QED
        BY <1>3, <4>1, <4>2, <4>3 DEF Accounts
    <3>3. AccountMade
      BY <1>1, <1>4, <2>7, <3>2 DEF AccountMade, Toggled
    <3> HIDE DEF r
    <3> QED
      BY <1>1, <1>2, <2>1, <2>2, <2>4, <3>1, <3>2, <3>3, AnsweredEffects
  <2> QED
    BY <2>1, <2>5, <2>6, <2>7
<1> QED
  BY <1>5, <1>6

LEMMA AssertionAcceptedEffects ==
    ASSUME Inv, NEW t \in Threads, AssertionAccepted(t) PROVE Effects
<1> DEFINE r == request[t]
<1>1. /\ r # Nothing /\ r.op \in Ceremonies /\ End(t)
      /\ UNCHANGED <<account, replay, challenges, clock, issued, spent, used>>
  BY DEF AssertionAccepted, database
<1>2. /\ r.browser \in Browsers /\ r.cookie \in Cookies /\ r.read \in Accounts
      /\ Prepared(r, proofs, issued)
  BY <1>1, InProgress DEF Ceremonies
<1>3. /\ account' \in Accounts /\ replay' \in Nat
      /\ used' \in [(1..Secrets) \X Counters -> Nat] /\ AccountMade
  BY <1>1 DEF Inv, Typed, AccountMade
<1>4. r.read.version \in Nat
  BY <1>2 DEF Accounts
<1>5. CASE r.op = "authentication"
  <2>1. Responds(r.browser, SignedInAt(r.read.version)) /\ proofs' = proofs
    BY <1>5 DEF AssertionAccepted
  <2>2. SignedInAt(r.read.version) \in Cookies
        /\ Backed(r.browser, SignedInAt(r.read.version), proofs)
    BY <1>2, <1>4, CookieFields
  <2> HIDE DEF r
  <2> QED
    BY <1>1, <1>2, <1>3, <2>1, <2>2, AnsweredEffects
<1>6. CASE r.op = "registration"
  <2>1. Responds(r.browser, [r.cookie EXCEPT !.grant = Nothing]) /\ proofs' = proofs
    BY <1>6 DEF AssertionAccepted
  <2>2. [r.cookie EXCEPT !.grant = Nothing] \in Cookies
        /\ Backed(r.browser, [r.cookie EXCEPT !.grant = Nothing], proofs)
    BY <1>2, CookieFields
  <2> HIDE DEF r
  <2> QED
    BY <1>1, <1>2, <1>3, <2>1, <2>2, AnsweredEffects
<1>7. CASE r.op = "reauthentication"
  <2>1. issued[r.id].path = r.cookie.pending.path /\ r.cookie.pending # Nothing
    BY <1>2, <1>7 DEF Prepared
  <2>2. Authorize(r.browser, r.cookie, r.cookie.pending.path, r.read.version,
                  [browser |-> r.browser, path |-> r.cookie.pending.path,
                   version |-> r.read.version, until |-> clock + Ttl,
                   factor |-> "passkey"])
    BY <1>7, <2>1 DEF AssertionAccepted
  <2> QED
    BY <1>1, <1>3, <1>7, <2>1, <2>2, ReauthenticatedEffects DEF Factors
<1> QED
  BY <1>1, <1>5, <1>6, <1>7 DEF Ceremonies

LEMMA DisabledMakes ==
    ASSUME Typed, NEW read \in Accounts, DisabledTotp(read), read.secret # 0
    PROVE  account' \in Accounts /\ Toggled(read, account') /\ replay' = 0
<1>1. account \in Accounts
  BY DEF Typed
<1>2. read.version \in Nat
  BY DEF Accounts
<1>3. PICK v \in Nat : v = read.version + 1
  BY <1>2, Successor
<1>4. PICK pending \in Nat :
         /\ account' = [account EXCEPT !.secret = 0, !.version = v, !.pending = pending]
         /\ replay' = 0
  BY <1>1, <1>3 DEF DisabledTotp, Accounts
<1>5. /\ account' \in Accounts /\ account'.secret = 0
      /\ account'.version = read.version + 1
  BY <1>1, <1>3, <1>4 DEF Accounts
<1> QED
  BY <1>4, <1>5 DEF Toggled

LEMMA CommitActionEffects ==
    ASSUME Inv, NEW t \in Threads, CommitAction(t) PROVE Effects
<1> DEFINE r == request[t]
<1>1. /\ r # Nothing /\ r.op = "act" /\ End(t)
      /\ UNCHANGED <<challenges, clock, issued, spent, used, proofs>>
  BY DEF CommitAction
<1>2. /\ r.browser \in Browsers /\ r.cookie \in Cookies /\ r.read \in Accounts
  BY <1>1, InProgress
<1>3. used' \in [(1..Secrets) \X Counters -> Nat]
  BY <1>1 DEF Inv, Typed
<1>4. CASE r.path = DisablePath /\ r.read.secret # 0
  <2>1. DisabledTotp(r.read) /\ Responds(r.browser, SignedOut)
    BY <1>4 DEF CommitAction
  <2>2. account' \in Accounts /\ Toggled(r.read, account') /\ replay' \in Nat
    BY <1>2, <1>4, <2>1, DisabledMakes DEF Inv
  <2>3. AccountMade
    BY <1>1, <2>2 DEF AccountMade
  <2>4. SignedOut \in Cookies /\ Backed(r.browser, SignedOut, proofs)
    BY <1>2, CookieFields
  <2> HIDE DEF r
  <2> QED
    BY <1>1, <1>2, <1>3, <2>1, <2>2, <2>3, <2>4, AnsweredEffects
<1>5. CASE ~(r.path = DisablePath /\ r.read.secret # 0)
  <2>1. /\ Responds(r.browser, [r.cookie EXCEPT !.grant = Nothing])
        /\ UNCHANGED <<account, replay>>
    BY <1>5 DEF CommitAction
  <2>2. account' \in Accounts /\ replay' \in Nat /\ AccountMade
    BY <2>1 DEF Inv, Typed, AccountMade
  <2>3. [r.cookie EXCEPT !.grant = Nothing] \in Cookies
        /\ Backed(r.browser, [r.cookie EXCEPT !.grant = Nothing], proofs)
    BY <1>2, CookieFields
  <2> HIDE DEF r
  <2> QED
    BY <1>1, <1>2, <1>3, <2>1, <2>2, <2>3, AnsweredEffects
<1> QED
  BY <1>4, <1>5

LEMMA AbandonEffects ==
    ASSUME Inv, NEW t \in Threads, Abandon(t) PROVE Effects
<1>1. RequestsMade /\ request' \in [Threads -> Requests \cup {Nothing}]
  BY EndMakes DEF Inv, Abandon
<1>2. Typed' /\ ChallengesOK'
  BY <1>1, SameChallenges DEF Inv, Typed, Abandon, database, ghosts
<1> QED
  BY <1>1, <1>2 DEF Abandon, database, ghosts, Effects, ProofMade, ChallengeMade,
                    CookiesMade, AccountMade

LEMMA DisableUserTotpEffects ==
    ASSUME Inv, NEW t \in Threads, DisableUserTotp(t) PROVE Effects
<1> DEFINE r == [op |-> "disable", read |-> account]
<1>1. /\ r \in Requests /\ r.read = account /\ Begin(t, r)
      /\ UNCHANGED <<account, replay, challenges, cookie, clock, issued, spent, used, proofs>>
  BY DEF DisableUserTotp, Inv, Typed, Requests, AdminRequests, database, ghosts
<1>2. Prepared(r, proofs, issued)
  BY DEF DisableUserTotp, Prepared, Ceremonies
<1>3. challenges' \in SUBSET Items /\ spent' \in Seq(Nat) /\ ChallengesOK'
  BY <1>1, SameTypes
<1> HIDE DEF r
<1> QED
  BY <1>1, <1>2, <1>3, EnterEffects

LEMMA CommitDisableEffects ==
    ASSUME Inv, NEW t \in Threads, CommitDisable(t) PROVE Effects
<1>1. /\ request[t] # Nothing /\ End(t) /\ DisabledTotp(request[t].read)
      /\ UNCHANGED <<challenges, cookie, clock, issued, spent, used, proofs>>
  BY DEF CommitDisable, ghosts
<1>2. request[t].read \in Accounts /\ request[t].read.secret # 0
  BY <1>1, InProgress DEF CommitDisable, Prepared
<1>3. account' \in Accounts /\ replay' = 0 /\ Toggled(request[t].read, account')
  BY <1>1, <1>2, DisabledMakes DEF Inv
<1>4. RequestsMade /\ request' \in [Threads -> Requests \cup {Nothing}]
  BY <1>1, EndMakes DEF Inv
<1>5. Typed' /\ ChallengesOK'
  BY <1>1, <1>3, <1>4, SameChallenges DEF Inv, Typed
<1> QED
  BY <1>1, <1>3, <1>4, <1>5 DEF Effects, ProofMade, ChallengeMade, CookiesMade, AccountMade

(* The steps that no request takes                                         *)
LEMMA OtherEffects ==
    ASSUME Inv, (\E b \in Browsers : SetupTotp(b)) \/ Tick \/ UNCHANGED vars
    PROVE  Effects
<1>1. account \in Accounts /\ Typed /\ replay \in Nat /\ clock \in Nat
  BY DEF Inv, Typed
<1>2. account.secrets + 1 \in Nat
  BY <1>1 DEF Accounts
<1>3. ASSUME NEW n \in Nat
      PROVE  /\ [account EXCEPT !.pending = n, !.secrets = n] \in Accounts
             /\ [account EXCEPT !.pending = n, !.secrets = n].version = account.version
             /\ [account EXCEPT !.pending = n, !.secrets = n].secret = account.secret
  BY <1>1 DEF Accounts
<1> USE DEF database, ghosts, vars
<1>4. ChallengesOK'
  BY SameChallenges DEF Inv, SetupTotp, Tick
<1>5. /\ account' \in Accounts /\ replay' \in Nat /\ clock' \in Nat /\ AccountMade
  <2>1. CASE \E b \in Browsers : SetupTotp(b)
    <3>1. /\ account' = [account EXCEPT !.pending = account.secrets + 1,
                                        !.secrets = account.secrets + 1]
          /\ replay' = replay /\ clock' = clock
      BY <2>1 DEF SetupTotp
    <3> QED
      BY <1>1, <1>2, <1>3, <3>1 DEF AccountMade
  <2>2. CASE Tick \/ UNCHANGED vars
    BY <1>1, <2>2 DEF Typed, Tick, AccountMade
  <2> QED
    BY <2>1, <2>2
<1>6. UNCHANGED <<challenges, cookie, request, issued, spent, used, proofs>>
  BY DEF SetupTotp, Tick
<1>7. Typed'
  BY <1>1, <1>5, <1>6 DEF Typed
<1> QED
  BY <1>4, <1>5, <1>6, <1>7
     DEF Effects, ProofMade, ChallengeMade, CookiesMade, RequestsMade

LEMMA NextEffects == ASSUME Inv, [Next]_vars PROVE Effects
<1>1. ASSUME NEW b \in Browsers,
             \/ Login(b) \/ Logout(b) \/ SetupTotp(b)
             \/ \E path \in Paths : StartReauthentication(b, path)
             \/ \E ceremony \in Ceremonies : PasskeyOptions(b, ceremony)
      PROVE  Effects
  <2>1. \E path \in Paths : TRUE
    BY ReauthenticationAssumption
  <2> QED
    BY <1>1, <2>1, SessionEffects, OtherEffects, PasskeyOptionsEffects
<1>2. ASSUME NEW t \in Threads, NEW b \in Browsers,
             \/ EnterPassword(t, b)
             \/ \E use \in Uses, counter \in Counters \ {0} : EnterCode(t, b, use, counter)
             \/ \E ceremony \in Ceremonies, id \in DOMAIN issued :
                   SubmitAssertion(t, b, ceremony, id)
             \/ \E path \in Paths : SubmitAction(t, b, path)
      PROVE  Effects
  BY <1>2, EnterPasswordEffects, EnterCodeEffects, SubmitAssertionEffects,
     SubmitActionEffects
<1>3. ASSUME NEW t \in Threads,
             \/ PasswordAccepted(t) \/ ConsumeCode(t) \/ AssertionAccepted(t)
             \/ CommitAction(t) \/ Abandon(t)
             \/ DisableUserTotp(t) \/ CommitDisable(t)
      PROVE  Effects
  BY <1>3, PasswordAcceptedEffects, ConsumeCodeEffects, AssertionAcceptedEffects,
     CommitActionEffects, AbandonEffects, DisableUserTotpEffects, CommitDisableEffects
<1>4. CASE Tick \/ UNCHANGED vars
  BY <1>4, OtherEffects
<1> QED
  BY <1>1, <1>2, <1>3, <1>4 DEF Next, Step, Uses

(* The induction.                                                          *)
THEOREM Invariance == Spec => []Inv
<1>1. Inv /\ [Next]_vars => Inv'
  BY NextEffects, EffectsKeep
<1> QED
  BY InitInv, <1>1, PTL DEF Spec

-----------------------------------------------------------------------------
(* Every cookie, challenge, request in progress and proof has its type.    *)
THEOREM ReauthenticationTyped == Spec => []Typed
<1>1. Inv => Typed
  BY DEF Inv
<1> QED
  BY Invariance, <1>1, PTL

(* No challenge counts twice, whatever is submitted again or at once.      *)
THEOREM AChallengeCountsOnce == Spec => []ChallengesAreSpentOnce
<1>1. Inv => ChallengesAreSpentOnce
  BY DEF Inv, ChallengesOK, ChallengesAreSpentOnce
<1> QED
  BY Invariance, <1>1, PTL

(* A grant that would be honoured rests on a proof in the same browser, for *)
(* the same action, of the present session version, and not of the password *)
(* alone when the account has a TOTP factor.                                *)
THEOREM GrantsRestOnProofs == Spec => []GrantsFollowProofs
<1>1. Inv => GrantsFollowProofs
  <2> SUFFICES ASSUME Inv, NEW b \in Browsers, SignedIn(b), cookie[b].grant # Nothing,
                      Authorized(cookie[b], cookie[b].grant.path)
               PROVE  \E i \in DOMAIN proofs :
                         /\ proofs[i].browser = b /\ proofs[i].path = cookie[b].grant.path
                         /\ proofs[i].version = account.version
                         /\ proofs[i].until > clock
                         /\ account.secret # 0 => proofs[i].factor # "password"
    BY DEF GrantsFollowProofs, Inv, Typed
  <2> DEFINE i == cookie[b].grant.proof
  <2>1. /\ i \in 1..Len(proofs)
        /\ proofs[i].browser = b /\ proofs[i].path = cookie[b].grant.path
        /\ proofs[i].version = account.version
        /\ proofs[i].until > clock
    BY DEF Inv, GrantsOK, Backed, Authorized
  <2>2. account.secret # 0 => proofs[i].factor # "password"
    BY <2>1 DEF Inv, FactorsOK, Alternates
  <2>3. DOMAIN proofs = 1..Len(proofs)
    BY DEF Inv, Typed
  <2> QED
    BY <2>1, <2>2, <2>3
<1> QED
  BY Invariance, <1>1, PTL

(* A sensitive action under way was authorized by such a proof.            *)
THEOREM ActionsRestOnProofs == Spec => []ActionsFollowGrants
<1>1. Inv => ActionsFollowGrants
  <2> SUFFICES ASSUME Inv, NEW t \in Threads, request[t] # Nothing, request[t].op = "act"
               PROVE  \E i \in DOMAIN proofs :
                         /\ proofs[i].browser = request[t].browser
                         /\ proofs[i].path = request[t].path
                         /\ proofs[i].version = request[t].read.version
                         /\ proofs[i].until > request[t].at
    BY DEF ActionsFollowGrants, Inv, Typed
  <2>1. Prepared(request[t], proofs, issued) /\ DOMAIN proofs = 1..Len(proofs)
    BY DEF Inv, GrantsOK, Typed
  <2>2. request[t].cookie.grant.proof \in 1..Len(proofs)
    BY <2>1 DEF Prepared, Backed
  <2> QED
    BY <2>1, <2>2 DEF Prepared, Backed
<1> QED
  BY Invariance, <1>1, PTL

-----------------------------------------------------------------------------
(* TOTP codes.  Whoever has not been overtaken has read the present        *)
(* account.  A code that counted since the database last forgot it is one  *)
(* of a secret that no setup confirms, and if it is of the present secret, *)
(* it is not above the replay counter.                                     *)
Counted(code) == used[code] > lost[code]

CountsOK ==
    \A code \in DOMAIN used :
        /\ used[code] <= lost[code] + 1
        /\ Counted(code) =>
              /\ code[1] <= account.secrets /\ code[1] # account.pending
              /\ code[1] = account.secret => code[2] <= replay

SecretsOK ==
    /\ account.secret <= account.secrets /\ account.pending <= account.secrets
    /\ account.secret # 0 => account.pending = 0

ReadsOK ==
    \A t \in Threads : request[t] # Nothing =>
        /\ t \notin overtaken => request[t].read = account
        /\ request[t].op = "enrol" => request[t].code[1] <= account.secrets

CodesOK == lost \in [DOMAIN used -> Nat] /\ CountsOK /\ SecretsOK /\ ReadsOK

(* What a step may do to the codes that count                              *)
TotpPrepared ==
    /\ account.secret = 0
    /\ account' = [account EXCEPT !.pending = account.secrets + 1,
                                  !.secrets = account.secrets + 1]
    /\ UNCHANGED <<replay, used, request>>

TotpRemoved(read) ==
    /\ read.secret # 0
    /\ account'.version = read.version + 1
    /\ account'.secret = 0 /\ account'.secrets = account.secrets
    /\ account'.pending = IF read.pending = 0 THEN account.pending ELSE 0
    /\ used' = used

CodeRejected == UNCHANGED <<account, used>> /\ replay' >= replay

CodeCounted(r) ==
    /\ r.op \in {"login", "reauthenticate"}
    /\ r.code[2] > replay /\ replay' \in {replay, r.code[2]}
    /\ used' = [used EXCEPT ![r.code] = @ + 1]
    /\ account' = account

TotpEnrolled(r) ==
    /\ r.op = "enrol"
    /\ r.code[2] > replay /\ replay' = r.code[2]
    /\ used' = [used EXCEPT ![r.code] = @ + 1]
    /\ account'.secret = r.code[1] /\ account'.pending = 0
    /\ account'.secrets = account.secrets
    /\ account'.version = r.read.version + 1

CodeStep ==
    \/ CodeRejected
    \/ TotpPrepared
    \/ \E t \in Threads :
          /\ request[t] # Nothing /\ End(t)
          /\ \/ TotpRemoved(request[t].read)
             \/ CodeCounted(request[t])
             \/ TotpEnrolled(request[t])

LEMMA DisabledRemoves ==
    ASSUME account \in Accounts, NEW read, DisabledTotp(read), read.secret # 0, used' = used
    PROVE  TotpRemoved(read)
BY DEF DisabledTotp, TotpRemoved, Accounts

LEMMA ConsumeStep ==
    ASSUME Inv, NEW t \in Threads, ConsumeCode(t) PROVE CodeStep
<1> DEFINE r == request[t]
<1>1. r # Nothing /\ r.op \in Uses /\ End(t) /\ account \in Accounts /\ replay \in Nat
  BY DEF ConsumeCode, Uses, Inv, Typed
<1>2. CASE Reject(t)
  BY <1>1, <1>2 DEF Reject, database, CodeStep, CodeRejected
<1>3. CASE ~Reject(t)
  <2>1. /\ Accepted(r.code[2]) /\ CommitCounter(r.op, r.code[2])
        /\ used' = IF r.read.version = account.version \/ r.op = "enrol"
                   THEN [used EXCEPT ![r.code] = @ + 1] ELSE used
        /\ \/ r.op = "login" /\ UNCHANGED account
           \/ r.op = "reauthenticate" /\ UNCHANGED account
           \/ /\ r.op = "enrol"
              /\ account' = [account EXCEPT !.secret = r.code[1], !.pending = 0,
                                            !.version = r.read.version + 1]
    BY <1>3 DEF ConsumeCode
  <2>2. r.code[2] > replay /\ replay' \in {replay, r.code[2]} /\ r.code[2] \in Nat
    BY <1>1, <2>1, InProgress DEF Accepted, CommitCounter
  <2>3. CASE r.op \in {"login", "reauthenticate"} /\ used' # used
    <3>1. CodeCounted(r)
      BY <2>1, <2>2, <2>3 DEF CodeCounted
    <3> QED
      BY <1>1, <3>1 DEF CodeStep
  <2>4. CASE r.op \in {"login", "reauthenticate"} /\ used' = used
    BY <1>1, <2>1, <2>2, <2>4 DEF CodeStep, CodeRejected
  <2>5. CASE r.op = "enrol"
    <3>1. /\ account' = [account EXCEPT !.secret = r.code[1], !.pending = 0,
                                        !.version = r.read.version + 1]
          /\ used' = [used EXCEPT ![r.code] = @ + 1]
          /\ replay' = r.code[2]
      BY <2>1, <2>5 DEF CommitCounter
    <3>2. /\ account'.secret = r.code[1] /\ account'.pending = 0
          /\ account'.secrets = account.secrets
          /\ account'.version = r.read.version + 1
      BY <1>1, <3>1 DEF Accounts
    <3>3. TotpEnrolled(r)
      BY <2>2, <2>5, <3>1, <3>2 DEF TotpEnrolled
    <3> QED
      BY <1>1, <3>3 DEF CodeStep
  <2> QED
    BY <1>1, <2>3, <2>4, <2>5 DEF Uses
<1> QED
  BY <1>2, <1>3

LEMMA NextCodeStep == ASSUME Inv, Step PROVE CodeStep
<1>1. account \in Accounts /\ replay >= replay
  BY DEF Inv, Typed
<1>2. ASSUME NEW b \in Browsers, SetupTotp(b) PROVE CodeStep
  BY <1>2 DEF SetupTotp, ghosts, TotpPrepared, CodeStep
<1>3. ASSUME NEW t \in Threads, CommitDisable(t) PROVE CodeStep
  <2>1. request[t] # Nothing /\ End(t) /\ used' = used /\ DisabledTotp(request[t].read)
    BY <1>3 DEF CommitDisable, ghosts
  <2>2. request[t].read.secret # 0
    BY <1>3, <2>1, InProgress DEF CommitDisable, Prepared
  <2> QED
    BY <1>1, <2>1, <2>2, DisabledRemoves DEF CodeStep
<1>4. ASSUME NEW t \in Threads, CommitAction(t) PROVE CodeStep
  <2>1. request[t] # Nothing /\ End(t) /\ used' = used
    BY <1>4 DEF CommitAction
  <2>2. CASE DisabledTotp(request[t].read) /\ request[t].read.secret # 0
    BY <1>1, <2>1, <2>2, DisabledRemoves DEF CodeStep
  <2>3. CASE UNCHANGED <<account, replay>>
    BY <1>1, <2>1, <2>3 DEF CodeStep, CodeRejected
  <2> QED
    BY <1>4, <2>2, <2>3 DEF CommitAction
<1>5. ASSUME NEW t \in Threads, ConsumeCode(t) PROVE CodeStep
  BY <1>5, ConsumeStep
<1>6. ASSUME NEW b \in Browsers,
             \/ Login(b) \/ Logout(b)
             \/ \E path \in Paths : StartReauthentication(b, path)
             \/ \E ceremony \in Ceremonies : PasskeyOptions(b, ceremony)
      PROVE  UNCHANGED <<account, replay, used>>
  BY <1>6 DEF Login, Logout, StartReauthentication, PasskeyOptions, database, ghosts
<1>7. ASSUME NEW t \in Threads, NEW b \in Browsers,
             \/ EnterPassword(t, b)
             \/ \E use \in Uses, counter \in Counters \ {0} : EnterCode(t, b, use, counter)
             \/ \E ceremony \in Ceremonies, id \in DOMAIN issued :
                   SubmitAssertion(t, b, ceremony, id)
             \/ \E path \in Paths : SubmitAction(t, b, path)
      PROVE  UNCHANGED <<account, replay, used>>
  BY <1>7 DEF EnterPassword, EnterCode, SubmitAssertion, SubmitAction, database, ghosts
<1>8. ASSUME NEW t \in Threads,
             PasswordAccepted(t) \/ AssertionAccepted(t) \/ Abandon(t) \/ DisableUserTotp(t)
      PROVE  UNCHANGED <<account, replay, used>>
  BY <1>8 DEF PasswordAccepted, AssertionAccepted, Abandon, DisableUserTotp, database, ghosts
<1>9. CASE Tick
  BY <1>1, <1>9 DEF Tick, database, ghosts, CodeStep, CodeRejected
<1>10. UNCHANGED <<account, replay, used>> => CodeStep
  BY <1>1 DEF CodeStep, CodeRejected
<1> QED
  BY <1>2, <1>3, <1>4, <1>5, <1>6, <1>7, <1>8, <1>9, <1>10 DEF Step, Uses

LEMMA UsedFields ==
    ASSUME Inv, NEW x \in DOMAIN used
    PROVE  x[1] \in Nat /\ x[1] # 0 /\ x[2] \in Nat /\ used[x] \in Nat
BY ReauthenticationAssumption DEF Inv, Typed, Counters

LEMMA CodeNumbers ==
    ASSUME Inv
    PROVE  /\ account.secret \in Nat /\ account.pending \in Nat /\ account.secrets \in Nat
           /\ replay \in Nat
BY DEF Inv, Typed, Accounts

(* What changes no request but the one that ends                           *)
LEMMA AccountMadeAlone ==
    ASSUME Inv, CodeStep, account' # account
    PROVE  \A u \in Threads : request'[u] = request[u] \/ request'[u] = Nothing
BY EndMakes DEF CodeStep, CodeRejected, CodeCounted, TotpPrepared, Inv

LEMMA SecretsKept ==
    ASSUME Inv, CodesOK, CodeStep PROVE SecretsOK' /\ account'.secrets >= account.secrets
<1>0. account \in Accounts
  BY DEF Inv, Typed
<1>1. CASE UNCHANGED account
  BY <1>1, CodeNumbers DEF CodesOK, SecretsOK
<1>2. CASE TotpPrepared
  <2>1. account'.secret = 0 /\ account'.pending = account.secrets + 1
        /\ account'.secrets = account.secrets + 1
    BY <1>0, <1>2 DEF TotpPrepared, Accounts
  <2> QED
    BY <2>1, CodeNumbers DEF SecretsOK
<1>3. ASSUME NEW t \in Threads, request[t] # Nothing, TotpRemoved(request[t].read)
      PROVE  SecretsOK' /\ account'.secrets >= account.secrets
  BY <1>3, CodeNumbers DEF TotpRemoved, CodesOK, SecretsOK
<1>4. ASSUME NEW t \in Threads, request[t] # Nothing, TotpEnrolled(request[t])
      PROVE  SecretsOK' /\ account'.secrets >= account.secrets
  BY <1>4, CodeNumbers DEF TotpEnrolled, CodesOK, SecretsOK, ReadsOK
<1> QED
  BY <1>1, <1>2, <1>3, <1>4 DEF CodeStep, CodeRejected, CodeCounted

LEMMA ReadsKept ==
    ASSUME Inv, CodesOK, RequestsMade, CodeStep, Watch,
           account'.secrets \in Nat, account'.secrets >= account.secrets
    PROVE  ReadsOK'
<1> SUFFICES ASSUME NEW t \in Threads, request'[t] # Nothing
             PROVE  /\ t \notin overtaken' => request'[t].read = account'
                    /\ request'[t].op = "enrol" => request'[t].code[1] <= account'.secrets
  BY DEF ReadsOK
<1>1. CASE request[t] # Nothing /\ request'[t] = request[t]
  <2>1. t \notin overtaken' => t \notin overtaken /\ account' = account
    BY <1>1 DEF Watch
  <2>2. request[t].op = "enrol" => request[t].code[1] \in Nat
    BY <1>1, InProgress DEF Uses
  <2> QED
    BY <1>1, <2>1, <2>2, CodeNumbers DEF CodesOK, ReadsOK
<1>2. CASE request'[t] # request[t]
  <2>1. request'[t].read = account /\ Prepared(request'[t], proofs, issued)
    BY <1>2 DEF RequestsMade
  <2>2. account' = account
    BY <1>2, AccountMadeAlone
  <2> QED
    BY <2>1, <2>2, CodeNumbers DEF Prepared, CodesOK, SecretsOK
<1> QED
  BY <1>1, <1>2

(* What the history makes of a code: unless its count grows, it counts no  *)
(* more than before.                                                       *)
LEMMA LostKept ==
    ASSUME Inv, CodesOK, Watch, used' \in [DOMAIN used -> Nat]
    PROVE  /\ lost' \in [DOMAIN used -> Nat]
           /\ \A x \in DOMAIN used :
                 /\ lost'[x] = lost[x] \/ lost'[x] = used'[x]
                 /\ Slips \/ RolledBack(x) => lost'[x] = used'[x]
                 /\ used[x] \in Nat /\ lost[x] \in Nat /\ used'[x] \in Nat /\ lost'[x] \in Nat
<1>1. /\ \A x \in DOMAIN used :
            lost'[x] = IF RolledBack(x) \/ Slips THEN used'[x] ELSE lost[x]
      /\ DOMAIN lost' = DOMAIN used
      /\ lost' = [x \in DOMAIN used |-> lost'[x]]
  BY DEF Watch
<1>2. \A x \in DOMAIN used : used[x] \in Nat /\ lost[x] \in Nat /\ used'[x] \in Nat
  BY UsedFields DEF CodesOK
<1> QED
  BY <1>1, <1>2

(* The counts stay right when no code is accepted, ...                     *)
LEMMA SameCounts ==
    ASSUME Inv, CodesOK, Watch, used' = used,
           account'.secrets >= account.secrets, account'.secrets \in Nat,
           \A x \in DOMAIN used :
              Counted(x) => /\ x[1] # account'.pending
                            /\ x[1] = account'.secret => x[2] <= replay'
    PROVE  CountsOK'
<1>1. used \in [DOMAIN used -> Nat]
  BY DEF Inv, Typed
<1> SUFFICES ASSUME NEW x \in DOMAIN used
             PROVE  /\ used'[x] <= lost'[x] + 1
                    /\ used'[x] > lost'[x] =>
                          /\ x[1] <= account'.secrets /\ x[1] # account'.pending
                          /\ x[1] = account'.secret => x[2] <= replay'
  BY DEF CountsOK, Counted
<1>2. /\ lost'[x] = lost[x] \/ lost'[x] = used'[x]
      /\ used[x] \in Nat /\ lost[x] \in Nat
  BY <1>1, LostKept
<1> QED
  BY <1>2, UsedFields, CodeNumbers DEF CodesOK, CountsOK, Counted

(* ... and when an overtaken request has its code accepted: all are lost.  *)
LEMMA SlippedCounts ==
    ASSUME Inv, CodesOK, Watch, Slips, used' \in [DOMAIN used -> Nat] PROVE CountsOK'
<1>1. \A x \in DOMAIN used : lost'[x] = used'[x] /\ used'[x] \in Nat
  BY LostKept
<1> QED
  BY <1>1 DEF CountsOK, Counted

(* A code counts once more where its counter passes the replay counter.    *)
LEMMA AcceptedCounts ==
    ASSUME Inv, CodesOK, Watch, NEW t \in Threads, request[t] # Nothing,
           request[t].read = account, CodeCounted(request[t]),
           used' \in [DOMAIN used -> Nat]
    PROVE  CountsOK'
<1> DEFINE code == request[t].code
           n == code[2]
<1>1. /\ account' = account /\ n > replay /\ replay' \in {replay, n}
      /\ used' = [used EXCEPT ![code] = @ + 1]
      /\ request[t].op \in {"login", "reauthenticate"}
  BY DEF CodeCounted
<1>2. code[1] = account.secret /\ account.secret # 0 /\ n \in Nat /\ account.pending = 0
  BY <1>1, InProgress DEF Uses, Prepared, CodesOK, SecretsOK
<1> HIDE DEF code
<1> SUFFICES ASSUME NEW x \in DOMAIN used
             PROVE  /\ used'[x] <= lost'[x] + 1
                    /\ used'[x] > lost'[x] =>
                          /\ x[1] <= account'.secrets /\ x[1] # account'.pending
                          /\ x[1] = account'.secret => x[2] <= replay'
  BY DEF CountsOK, Counted
<1>3. /\ lost'[x] = lost[x] \/ lost'[x] = used'[x]
      /\ RolledBack(x) => lost'[x] = used'[x]
      /\ used[x] \in Nat /\ lost[x] \in Nat /\ used'[x] \in Nat /\ lost'[x] \in Nat
  BY LostKept
<1>4. /\ used[x] <= lost[x] + 1
      /\ used[x] > lost[x] => /\ x[1] <= account.secrets /\ x[1] # account.pending
                              /\ x[1] = account.secret => x[2] <= replay
  BY DEF CodesOK, CountsOK, Counted
<1>5. CASE x = code
  <2>1. used[x] <= lost[x]
    BY <1>1, <1>2, <1>3, <1>4, <1>5, CodeNumbers
  <2>2. used'[x] = used[x] + 1
    BY <1>1, <1>5
  <2>3. used'[x] > lost'[x] => replay' = n
    BY <1>1, <1>3, <1>5, <2>2 DEF RolledBack
  <2> QED
    BY <1>1, <1>2, <1>3, <1>5, <2>1, <2>2, <2>3, CodeNumbers DEF CodesOK, SecretsOK
<1>6. CASE x # code
  <2>1. used'[x] = used[x]
    BY <1>1, <1>6
  <2>2. x[2] <= replay => x[2] <= replay'
    BY <1>1, <1>2, UsedFields, CodeNumbers
  <2> QED
    BY <1>1, <1>3, <1>4, <2>1, <2>2
<1> QED
  BY <1>5, <1>6

(* A confirmed secret has had no code until the one that confirms it.      *)
LEMMA EnrolledCounts ==
    ASSUME Inv, CodesOK, Watch, NEW t \in Threads, request[t] # Nothing,
           request[t].read = account, TotpEnrolled(request[t]),
           used' \in [DOMAIN used -> Nat]
    PROVE  CountsOK'
<1> DEFINE code == request[t].code
           n == code[2]
<1>1. /\ account'.secret = code[1] /\ account'.pending = 0 /\ account'.secrets = account.secrets
      /\ n > replay /\ replay' = n /\ request[t].op = "enrol"
      /\ used' = [used EXCEPT ![code] = @ + 1]
  BY DEF TotpEnrolled
<1>2. code[1] = account.pending /\ account.pending # 0 /\ n \in Nat
  BY <1>1, InProgress DEF Uses, Prepared
<1> HIDE DEF code
<1> SUFFICES ASSUME NEW x \in DOMAIN used
             PROVE  /\ used'[x] <= lost'[x] + 1
                    /\ used'[x] > lost'[x] =>
                          /\ x[1] <= account'.secrets /\ x[1] # account'.pending
                          /\ x[1] = account'.secret => x[2] <= replay'
  BY DEF CountsOK, Counted
<1>3. /\ lost'[x] = lost[x] \/ lost'[x] = used'[x]
      /\ used[x] \in Nat /\ lost[x] \in Nat /\ used'[x] \in Nat /\ lost'[x] \in Nat
  BY LostKept
<1>4. /\ used[x] <= lost[x] + 1
      /\ used[x] > lost[x] => x[1] <= account.secrets /\ x[1] # account.pending
  BY DEF CodesOK, CountsOK, Counted
<1>5. x[1] # 0
  BY UsedFields
<1>6. CASE x = code
  <2>1. used'[x] = used[x] + 1 /\ used[x] <= lost[x]
    BY <1>1, <1>2, <1>3, <1>4, <1>6
  <2> QED
    BY <1>1, <1>2, <1>3, <1>5, <1>6, <2>1, CodeNumbers DEF CodesOK, SecretsOK
<1>7. CASE x # code
  <2>1. used'[x] = used[x]
    BY <1>1, <1>7
  <2> QED
    BY <1>1, <1>2, <1>3, <1>4, <1>5, <2>1
<1> QED
  BY <1>6, <1>7

LEMMA CountsKept ==
    ASSUME Inv, CodesOK, Watch, CodeStep, used' \in [DOMAIN used -> Nat],
           account'.secrets >= account.secrets, account'.secrets \in Nat, replay' \in Nat
    PROVE  CountsOK'
<1>1. \A x \in DOMAIN used :
         /\ x[1] \in Nat /\ x[1] # 0 /\ x[2] \in Nat
         /\ Counted(x) => /\ x[1] <= account.secrets /\ x[1] # account.pending
                          /\ x[1] = account.secret => x[2] <= replay
  BY UsedFields DEF CodesOK, CountsOK
<1>2. CASE CodeRejected
  <2>1. \A m \in Nat : m <= replay => m <= replay'
    BY <1>2, CodeNumbers DEF CodeRejected
  <2> QED
    BY <1>1, <1>2, <2>1, SameCounts DEF CodeRejected
<1>3. CASE TotpPrepared
  <2>1. account'.secret = 0 /\ account'.pending = account.secrets + 1 /\ used' = used
    BY <1>3 DEF TotpPrepared, Inv, Typed, Accounts
  <2> QED
    BY <1>1, <2>1, SameCounts, CodeNumbers
<1>4. ASSUME NEW t \in Threads, request[t] # Nothing, TotpRemoved(request[t].read)
      PROVE  CountsOK'
  <2>1. /\ account'.secret = 0 /\ account'.pending \in {account.pending, 0} /\ used' = used
    BY <1>4 DEF TotpRemoved
  <2> QED
    BY <1>1, <2>1, SameCounts
<1>5. ASSUME NEW t \in Threads, request[t] # Nothing, End(t),
             CodeCounted(request[t]) \/ TotpEnrolled(request[t])
      PROVE  CountsOK'
  <2>1. CASE t \notin overtaken
    BY <1>5, <2>1, AcceptedCounts, EnrolledCounts DEF CodesOK, ReadsOK
  <2>2. CASE t \in overtaken /\ <<account, used>>' # <<account, used>>
    <3>1. Slips
      BY <1>5, <2>2, EndMakes DEF Slips, Inv, CodeCounted, TotpEnrolled
    <3> QED
      BY <3>1, SlippedCounts
  <2>3. CASE UNCHANGED <<account, used>>
    <3>1. request[t].code[2] > replay /\ replay' \in {replay, request[t].code[2]}
          /\ request[t].code[2] \in Nat
      BY <1>5, InProgress DEF CodeCounted, TotpEnrolled, Uses
    <3>2. \A m \in Nat : m <= replay => m <= replay'
      BY <3>1, CodeNumbers
    <3> QED
      BY <1>1, <2>3, <3>2, SameCounts
  <2> QED
    BY <2>1, <2>2, <2>3
<1> QED
  BY <1>2, <1>3, <1>4, <1>5 DEF CodeStep

LEMMA CodesKept ==
    ASSUME Inv, CodesOK, Inv', RequestsMade, Step, Watch PROVE CodesOK'
<1>1. CodeStep
  BY NextCodeStep
<1>2. used' \in [DOMAIN used -> Nat] /\ DOMAIN used' = DOMAIN used
  BY DEF Inv, Typed
<1>3. account'.secrets \in Nat /\ replay' \in Nat
  BY DEF Inv, Typed, Accounts
<1>4. SecretsOK' /\ account'.secrets >= account.secrets
  BY <1>1, SecretsKept
<1>5. ReadsOK'
  BY <1>1, <1>3, <1>4, ReadsKept
<1>6. CountsOK'
  BY <1>1, <1>2, <1>3, <1>4, CountsKept
<1>7. lost' \in [DOMAIN used -> Nat]
  BY <1>2, LostKept
<1> QED
  BY <1>2, <1>4, <1>5, <1>6, <1>7 DEF CodesOK

LEMMA InitCodes == ASSUME Init PROVE CodesOK
<1>1. /\ used \in [(1..Secrets) \X Counters -> Nat] /\ lost = used
      /\ \A x \in DOMAIN used : used[x] = 0
  BY DEF Init
<1>2. /\ account.secret \in {0, 1} /\ account.pending = 0 /\ account.secrets = 1
      /\ \A t \in Threads : request[t] = Nothing
  BY DEF Init
<1>3. lost \in [DOMAIN used -> Nat] /\ CountsOK
  BY <1>1 DEF CountsOK, Counted
<1> QED
  BY <1>2, <1>3 DEF CodesOK, SecretsOK, ReadsOK

(* No TOTP code counts twice, whichever requests overlap, unless the       *)
(* database has lost it in between: rolled back with its audit event, or   *)
(* to an overtaken request that had its own code accepted.                 *)
THEOREM ACodeCountsOnce == Spec => []CodesAreUsedOnce
<1>1. Init => Inv /\ CodesOK
  BY InitInv, InitCodes
<1>2. ASSUME Inv, CodesOK, [Next]_vars PROVE Inv' /\ CodesOK'
  <2>1. Effects
    BY <1>2, NextEffects
  <2>2. Inv'
    BY <1>2, <2>1, EffectsKeep
  <2>3. CASE Step /\ Watch
    BY <1>2, <2>1, <2>2, <2>3, CodesKept DEF Effects
  <2>4. CASE UNCHANGED vars
    <3>1. UNCHANGED <<account, replay, request, used, overtaken, lost>>
      BY <2>4 DEF vars, ghosts, history
    <3>2. CountsOK'
      BY <1>2, <3>1 DEF CodesOK, CountsOK, Counted
    <3>3. SecretsOK' /\ ReadsOK'
      BY <1>2, <3>1 DEF CodesOK, SecretsOK, ReadsOK
    <3> QED
      BY <1>2, <2>2, <3>1, <3>2, <3>3 DEF CodesOK
  <2> QED
    BY <1>2, <2>2, <2>3, <2>4 DEF Next
<1>3. CodesOK => CodesAreUsedOnce
  BY DEF CodesOK, CountsOK, CodesAreUsedOnce
<1> QED
  BY <1>1, <1>2, <1>3, PTL DEF Spec
=============================================================================
