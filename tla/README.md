# Time tracker: TLA+ models, model checking and proofs

This directory models the Grayhaven time tracker (`src/grayhaven_timetracker`),
a Flask service that records the working time of people on contracts, issues
invoices for it and pays the workers out. The models follow the Python code and
the SQL triggers, not the documents: where the two disagree a run shows it.

Contents: [the system](#the-system), [the modules](#the-modules), [from code to
model](#from-code-to-model), [abstractions](#abstractions), [runs](#the-runs),
[fairness](#fairness), [findings](#findings), [refinement](#refinement),
[proofs](#proofs), [what is left out](#what-is-left-out), [plan](#plan).

## The system

One gunicorn process serves requests with **four threads**
(`gunicorn.conf.py`: `workers = 1`, `threads = 4`). All state is in one SQLCipher
database; every request has a SQLAlchemy session of its own. What the
components share is that database, the Flask session (a signed cookie in the
caller's browser), and the stores in memory: five limiters of attempts and the
confirmations of generated passwords.

| Component | State | Operations | Called by / calls |
| --- | --- | --- | --- |
| Time tracking (`routes.py` 2740-3680) | `time_entry` rows | start and stop a timer; add, edit, delete a session | reads the hierarchy and the accounts; invoices claim its rows |
| Work hierarchy (`routes.py` 1940-2740) | `client`, `contract`, `task`, `subtask` | create, edit, archive, activate, delete | archiving and deleting look at the sessions, deleting hides them |
| Database rules (`models.py`, `database.py`) | constraints, triggers, the soft-delete filter | accept or refuse each statement | under every component |
| Invoices (`invoices.py`, `invoice_routes.py`) | `invoice`, `invoice_line`, the draft in the Flask session | preview, generate, pay, refund, void | reads contracts and sessions, writes the billing columns of sessions |
| Invoice time and money (`invoice_time.py`, `invoices.py` 221-243, `reports.py` 94-135) | none | allocate to days, round, price, divide among sessions, due date | called by invoices, reports and disbursements |
| Disbursements (`disbursements.py`) | `disbursement` | record one against the outstanding balance | reads paid invoices |
| Accounts (`routes.py` 4150-4760) | `user_account` | create, edit, disable, reset, change role | disabling stops timers; `session_version` ends sign-ins |
| Sign-in and authorization (`auth.py`, `routes.py` 1190-1700) | Flask session, TOTP counter, attempt limiters | log in, log out, reauthenticate | before every handler |
| Passkeys (`passkeys.py`) | `passkey`, `webauthn_challenge` rows | register, verify, remove | an alternative to password and TOTP |
| Live refresh (`routes.py` 900-955, 1150-1170) | the number of the last audit event, ETags | conditional responses | reads what every handler wrote |
| Audit (`audit.py`) | `audit_event` | append | called after most commits, inside the transaction by invoices and disbursements |
| Shared reports (`routes.py` 3680-4140, `reports.py`) | report passwords and versions, confirmation store | create links, rotate, unlock, view | reads sessions, archiving rotates the password |
| Migrations (`database.py` 100-580) | the schema and its version marker | create, upgrade 2 to 9, install triggers, reconcile | by every process that starts, before requests |
| Maintenance (`scripts/database_maintenance.py`) | database, backup and recovery files | backup, verify, rekey, restore | outside the service |
| Bootstrap, permissions, configuration, public numbers, PDF rendering, templates | little or none | | |

### What is hard in it

* **Read, then commit.** A handler reads and validates in autocommit mode and
  writes at its final commit. Between the two, any other thread may commit.
  Only four things guard the write: CHECK constraints, triggers, the condition
  inside the `INSERT ... SELECT` of `start_timer`, and the fact that SQLAlchemy's
  `UPDATE` lists only the columns the handler changed. No row has a version.
* **Column-wise updates.** Because an `UPDATE` lists only some columns, the row
  that results is a mixture of what two requests wrote. The triggers must decide
  on that mixture, and they look only when the statement sets certain columns.
* **Old previews.** An invoice is generated from a draft kept in the browser for
  any length of time, and the same draft may be submitted twice.
* **Long histories.** Invoices are generated, voided, generated again, paid and
  refunded over the same sessions; numbers, transaction ids and balances must
  survive all of it.
* **Numbers.** Midnights that daylight saving moves, quarter hours with ties, half
  cents, fractions of a second that one column has and another has not, holidays.
* **Signed cookies.** What a browser may do is in a cookie that the server cannot
  take back; each request carries a copy, and each response replaces it. Versions
  in the database (`session_version`, `report_password_version`) end the old ones.
* **Second transactions.** Most handlers commit, then `audit()` commits again; and the
  tag of a live page is the number of the last audit event.
* **Bounded stores.** The limiter of failed attempts and the store of generated
  passwords hold a bounded number of entries, for a time, for all threads.
* **Crashes.** A process may die between a handler's reads and its commit,
  between a commit and its audit event, between migrations, and during a rekey.

`PROJECT.json` lists each hazard at its line.

### What makes each component correct

* Time tracking: no two sessions of a worker overlap; times are in order; a
  subtask belongs to its session's task; what is deleted stays deleted; a timer
  starts only on an active contract.
* Hierarchy: archiving leaves no unresolved work and no active contract under an
  archived client; deleting a task deletes what is under it; a disabled user has no
  timer running.
* Invoices: a session is claimed by exactly the invoice that lists it and has the
  billing status that goes with it; nothing is billed twice; an invoice bills what
  is recorded when it is issued and never changes after; numbers have no gaps; ranges
  that follow each other leave no session behind.
* Figures: days, costs and due dates are what an exact definition says.
* Disbursements: nobody is paid more than the paid invoices earned; a transaction
  id stands for one transaction.
* Accounts: an enabled administrator remains; whoever is signed in knew the present
  password, role and second factor; a generated password is changed before
  anything else; member-only transactions belong to members.
* Access: a TOTP code and a challenge work once; a grant follows the proofs it stands
  for, and an action a grant; a rotated report password ends the sessions of the old one, and is
  displayed once; failed attempts are limited, and nobody is refused without them.
* Live refresh: what a browser shows becomes what is recorded.
* Start and maintenance: the marker tells the schema, whoever serves has all it
  needs, a start succeeds at last; every commit survives a backup or a rotation,
  whatever step of it fails.

## The modules

```
Database ──┬── TimeEntries ──┐
           ├── Workspace ────┴── TimeTracking ──┬── MCTimeTracking          (TLC)
           │                                    ├── Overtaking ─┬─ MCOvertaking (TLC)
           │                                    │               └─ TimeTrackingProofs
           │                                    │                          │
InvoiceTime ── Invoicing (over Database) ───── Billing ── BillingProofs ── Sums
                                                │ └── MCBilling             (TLC)
                                  Settlement  <─┘  (INSTANCE ... WITH)

Accounts ── AccountHistory ── AccountsProofs   MCAccounts                   (TLC)
Reauthentication ─ ReauthenticationProofs      MCAccess                     (TLC)
SharedReports ──┬─ AccessProofs                    "
LoginLimiter ───┘                                  "
Startup ────────┬─ OperationsProofs            MCOperations                 (TLC)
Maintenance ────┘                                  "
InvoiceRanges ──┬─ FiguresProofs ── Sums       MCFigures                    (TLC)
DailySeconds ───┤                                  "
EntryCosts ─────┤                                  "
DueDate ────────┘                                  "
```

`MCAccess` composes `Reauthentication`, `LoginLimiter` and `SharedReports`;
`MCOperations` composes `Startup`, `Maintenance` and `LiveRefresh`; `MCFigures` composes
`InvoiceRanges`, `DailySeconds`, `EntryCosts` and `DueDate`. A module about which something is
proved is extended by the module TLC checks, so that theorem and run speak of the same definition;
the others are instantiated.

| Module | What it is |
| --- | --- |
| `Database` | the tables, what queries see of them, the constraints and triggers of `time_entry`, the clock, the request threads |
| `TimeEntries` | the five handlers of timers and sessions |
| `Workspace` | the handlers of clients, contracts, tasks, subtasks, and the timers that disabling a user stops |
| `TimeTracking` | the two together; their type invariant and properties |
| `Overtaking` | `TimeTracking` with the history of requests that others overtook between check and commit; what archiving, disabling and deleting still promise |
| `InvoiceTime` | allocation to days, quarter-hour rounding, cents |
| `Invoicing` | preview, generation, payment, refund, void; disbursements |
| `Billing` | time tracking and invoicing over the same tables; the properties of both |
| `Settlement` | the abstract specification of invoicing, which `Billing` implements |
| `InvoiceRanges` | the ranges "since the last invoice", with the clock's fractions of a second |
| `DailySeconds`, `EntryCosts`, `DueDate` | three computations as the loops they are, each with a definition that does not follow the loop |
| `Accounts` | every handler that writes `user_account`, the sign-ins, the cookie of each browser, the guard of the last administrator |
| `AccountHistory` | `Accounts` with the history of session versions and of overtaken requests; what remains of the promises about sign-ins, generated passwords and members |
| `Reauthentication` | the two stages of reauthentication, TOTP replay, passkey challenges, pending actions and grants |
| `LoginLimiter` | the table of failed attempts under its lock, and the requests around it |
| `SharedReports` | report passwords, their confirmations, the cookies of customers |
| `LiveRefresh` | tags, `304` answers and the polling browser |
| `Startup` | creation, migration, triggers, reconciliation; crashes; several processes |
| `Maintenance` | backup, key rotation and restore as file operations; failures and kills |
| `MC...` | instances for TLC |
| `...Proofs` | theorems |
| `Sums` | lemmas about `SumFunction`, the sum of a function with a finite domain |

## From code to model

**Tables.** `clients` and `contracts` map each row to `absent`, `active` or
`archived` (`archived_at`); `tasks` and `subtasks` to `absent`, `visible` or
`hidden` (`is_deleted`). The parent of a row never changes, so `ClientOf`,
`ContractOf` and `TaskOf` are constants. `details` is the part of a contract that an
edit changes and an invoice copies (name and contact). `entries` is the function
from session ids to `time_entry` rows. `invoices` holds an invoice with its
lines, `disbursements` the disbursements, `draft` the preview in the
administrator's Flask session.

**Requests.** A request of thread `t` is two steps. `Prepare(t, w)` is every
read and check of the handler; it leaves in `requests[t]` what the handler is about
to write. The handler's `Commit...` action is its final commit, applied to the
tables *as they then are*. When the database refuses the statement, the tables
stay as they are. `Abandon(t)` is a crash or a failed commit in between.

**Column-wise updates.** `CommitUpdateTimeEntry` keeps the row as read and
the row as the handler left it. `Merge` sets only the columns in which they differ;
`Updatable` applies each trigger only if the statement sets one of its columns
(`UPDATE OF ...`), on the merged row. `CommitEditContract` keeps the contract's
details in the same way if the edit left them as it had read them.

**Conditional insert.** `TimerAccepted` is the `INSERT ... SELECT ... WHERE
archived_at IS NULL` of `start_timer`: it asks again about the contract, and about
nothing else.

**Soft deletes.** The filter of `database.py` 23-43 adds `is_deleted = 0` to ORM
selects and relationship loads. `VisibleEntries` is what a query of sessions sees,
`WorkOf` what one that joins the task sees, and `LoadedSubtask` what a
relationship shows: a deleted subtask loads as none. `AssignedSubtask` follows
from it: an edit that selects "no subtask" for such a session changes no column.

**Immediate transactions.** The operations of `invoices.py` and `disbursements.py`
roll back what the request read, `BEGIN IMMEDIATE`, read again, write, audit and
commit. No other write comes between, so each is one action. The preview is a
read that stores the draft.

**Accounts.** `account` is the `user_account` table, `cookies` what each browser
holds, `requests` the writes that were validated and not committed. As in time tracking
a commit merges the columns that the handler changed into the row as it is by then, and
the trigger `user_account_last_admin` judges the merged row. `session_version` is
written as one more than what the handler *read*. A cookie remembers, for the
properties only, with which password and role it was obtained. Wiping somebody's passkeys is
the increment of the version that it brings; the passkeys are rows of another table.

**Reauthentication.** A thread takes the cookie of its browser when it starts, works on
that copy, and its response replaces the cookie, or is lost. That is where two
requests of one browser meet: each has its own copy of a pending action or of a grant.
Challenges and the TOTP counter are rows, and are consumed by conditional updates. The
counter of a reauthentication is committed by the audit event that follows, and rolled back when
that event cannot be written.

**The limiter.** `blocked`, `record_failure` and `clear` each take the lock and are one
action each; the clock is read *before* the lock, so a thread may come with an instant
older than the ones recorded. Verifying the password lies between, outside the lock.

**Shared reports.** A rotation reads the client, hashes for a long time, and commits; a
sign-in reads the client, verifies, and answers with a cookie made of what it had read. The
confirmation store is an ordered table with eviction of the oldest, emptied by a restart.

**Live refresh.** A page is read by several queries (`ReadPart`) between which anyone may
commit. `CheckEtag` is `unchanged_live_page_response`, before the queries; `Respond`
computes the tag of a page after them. `CommitData` and `CommitAudit` are the
two transactions of most handlers; `CommitAuditedData` the one of invoices. The browser
(`static/app.js`) polls one request at a time and defers a replacement while its user
is at work.

**Start.** Each phase of `initialize_database` and `create_app` is an action of a process.
A migration stages its statements and its marker in a transaction; triggers are
created one by one outside any. `Init` has what every release with schemas 1 to 10 may
have left, including migrations that older releases left half done. `migrate_schema_4_to_5`
takes itself as done when it finds its columns and the table `disbursement`, although the index
and the `DROP TRIGGER` come after them (`database.py` 320-384): a release that stopped in between
leaves the extent `"cut"`, with the old trigger or none, and one that went on from there leaves
any later marker with it.

**Maintenance.** A file is an image: its key, the commits it contains, whether it is
whole. There is a write-ahead log, a rollback journal for a rekey, a temporary file and
the published backups. Each system call with an effect is a step; each may raise
(with the `except` and `finally` of the code) or be the last of its process.

## Abstractions

* All reads of a handler are one step. In the code each is a statement of its own;
  another commit may fall between two of them. A second request's commit between
  the last read and the commit is the larger window and is modelled.
* In time tracking and billing the caller is an enabled administrator, who may do
  what everybody else may; sign-in, roles and reauthentication have modules of their
  own. The user matters where the code makes it matter: a timer is the caller's own,
  and nobody disables himself.
* The clock never runs backwards, and it is in ticks. `now_utc` truncates to
  seconds, and so do the stored times.
* Names, reasons, notes, public numbers and PDF contents are left out, except the
  name and contact of a contract (`Details`), which a preview fingerprints. They are
  one column in the model and three in the code: two concurrent edits may also leave a
  mixture of both, which no property here tells from an edit.
* A contract has at most 999 invoices, and the last one blocks generation; invoice
  numbers here are bounded by `Invoices` long before.
* Ids are drawn from finite sets. When a set is used up, the action that needs a
  new id is disabled; this is a bound of the instance, not of the code. For an
  insert of a session, `Insert` then has no successor and the request can only be
  abandoned.
* The legacy column `transaction_number` and the billing status `disbursed`, which
  a migration replaces, are left out. No route archives a disbursement, so all of
  them count.
* In `Billing` calendar days have equal length (`DayLength`) and preview, generation
  and the end of a session are read from one clock; daylight saving is the subject of
  `DailySeconds`, fractions of a second that of `InvoiceRanges`. The notes of an invoice
  are left out.
* `EntryCosts` divides any amount of cents, of which those that `invoice_total_cents` computes
  (`InvoiceTime`) are some; no time costs nothing. The years of `DueDate` are those for which the
  years before and after the due date's are dates.
* `audit()` after a commit is left out of time tracking and accounts: it is best
  effort and no handler there reads it. `LiveRefresh` and `Reauthentication` have it,
  because a tag is made of it and because it commits the TOTP counter.
* `Accounts`: passwords are model values, those that people choose and those that are
  generated being disjoint. A second factor is enrolled or not. Verification of a password
  and the following write are in the same handler and not separated.
* `Reauthentication`: one account; the binding of a challenge to its session is
  the browser; time is in TOTP steps, and a code is its secret and its counter.
* `LoginLimiter`: one key per request (the code checks an address and an account one
  after the other). The order of use of the table is kept beside it, as the keys that
  were used less recently than each key. The clock stops at `MaxLimiterTime`.
* `SharedReports`: one client, since no operation relates two; audit events, which no handler
  there reads, are left out. A
  token stands for the one password it displays, so that the store has a place for each.
* `LiveRefresh`: the content of a part is the number of changes it has seen. A page
  with a running timer is time sensitive and sent whole, without a tag; that is left out.
* `Startup`: a migration has two parts; what its statements do to rows is reduced to
  whether legacy invoices were converted.
* `Maintenance`: SQLite's recovery (a hot journal is rolled back, then the log is read)
  is taken from how the script relies on it. Durability below the file system is assumed.
* `InvoiceRanges`: one contract, only ranges since the last invoice.

## The runs

`CHECK_DEADLOCK FALSE` in every configuration, because clocks, ids and versions are
bounded and loops end: once they do, nothing remains to happen.

Components that share no state are checked side by side in one run: a variable
`scenario` is chosen in the initial state, one component moves and the others rest. A
property of such a run is that of the component, and an invariant of the resting ones
holds trivially.

| Run | Module | States | Shows |
| --- | --- | ---: | --- |
| `TrackingRaces` | `MCTimeTracking` | 412,680 | Two threads, and either two sessions of one worker or one session among two tasks and a subtask; clients and contracts are added and accounts disabled by one request at a time, before the first session. Although handlers check in one statement and write in another, sessions never overlap (`NoOverlap`), times stay in order (`TimesInOrder`), two edits that each write one of `task_id` and `subtask_id` never combine into a subtask under a foreign task (`SubtaskOfItsTask`), deletions last (`DeletedStaysDeleted`), and no timer starts on an archived contract (`TimersStartOnActiveContracts`). |
| `Overtaking` | `MCOvertaking` | 999,323 | Two threads, one session, and either two users who are disabled and enabled, or two tasks of two contracts. Handlers that check and later commit break what archiving, disabling and deleting promise; the four properties say by which requests: those that another request overtook between check and commit, and only of the operations listed. Every other interleaving, and every sequence of edits, keeps the promises. |
| `Billing` | `MCBilling` | 505,667 | `races`: a correction in flight, edits of the contract and archiving against previews, generation, payments and voids. `ledger`: from every recorded history of two workers, invoices, refunds and disbursements follow each other. Claims stay consistent, nothing is billed twice, an invoice bills what is recorded at its moment and never changes, numbers have no gaps, transaction ids are unique, nobody is overpaid, and all of it implements `Settlement`. |
| `Accounts` | `MCAccounts` | 1,075,721 | `serial`: every handler, one at a time. `races`: two administrators demote and disable each other at once; one remains. `members`: changes of membership overlap disbursements. `overlaps`: two requests increment the version of one account at once. A sign-in whose version is not in doubt is current; a generated password is changed first, and members stay members, unless one listed request was overtaken. |
| `Access` | `MCAccess` | 1,496,980 | `totp`, `enrol`, `enrolments`, `passkeys`: two requests over codes, enrolments, challenges and grants, with expiry, lost responses and lost audit events. `reports`: sign-ins against rotation, archiving and restarts. `rotations`: two rotations and a sign-in overlap. `confirmations`: two administrators reset at once, the store is full or expires. `limiter`: two threads and two keys in a table of one. |
| `Operations` | `MCOperations` | 89,918 | `crashes`: a start interrupted up to three times serves at last, from whatever a release may have left. `overlap`: two processes start at once. `upkeep`: backups and rotations with up to three faults. `report`, `page`: the refresh, with lost polls, deferred replacements and (for reports) lost audit events, catches up. |
| `Figures` | `MCFigures` | 831,097 | `ranges`, `daily`, `costs`, `due`: each computation against its reference definition; ranges with a clock of half seconds. |
| `ArchiveTimerRace` | `MCTimeTracking` | | finding, see below |
| `ClaimedCorrection` | `MCBilling` | | finding |
| `FractionOfASecond` | `InvoiceRanges` | | finding |
| `SessionVersionRace` | `Accounts` | | finding |
| `OvertakenPage` | `LiveRefresh` | | finding |

Each property of a passing run has a mutant in `PROJECT.json`: a plausible bug in
one definition (a trigger that is missing, an `UPDATE` of every column, a
generation that trusts the preview, a replaced tag without its content) under which the
same run finds it violated. The mutants stand beside the definition they change.

### Bounds

* `Threads`: two are enough for a race of one read with one commit, which is what
  every window in this code is; a third thread adds a third write to the same window. The
  billing runs have one thread besides the immediate transactions, which are
  themselves the other actor.
* `MaxTime` is 1 in the races of time tracking: sessions can be empty (0..0, 1..1), have
  length (0..1), touch, overlap, or run. In `Billing` it is 2 in the ledger, so that
  ranges are adjacent and a quarter hour of 2 ticks gives ties.
* `Entries`: two, so that sessions can overlap and an invoice can take one and leave the
  other; `TrackingRaces` has a second session only while there is one task
  (`FewRows`), since overlap is a matter of two sessions and assignment of one; a second client,
  contract or disabled user only while there is no session, for none of its properties relates
  sessions of two of them.
  `Invoices`: two, so that a voided session is billed again.
* `Details`: two in the billing races, so that a contract can be edited between preview
  and generation. `Refs` and `Disbursements` in the ledger: three ids for one payment,
  one refund and one disbursement at once; two disbursements against one balance.
* `Overtaking`: one session, since the promises are about each row by itself; the clock stands, since
  none of them reads it. Two users only with one task (`FewUsers`).
* `Rate` is 4 cents an hour, so that a quarter hour is one cent; `DayLength` is 1 and
  `QuarterHour` 2, so that rounding per worker-day differs from rounding in total.
* `Accounts`: rows start at version 3 (every account has replaced its initial password
  and enrolled a factor or changed the password again) and reach 4 in `serial`, 5 in `races` and
  `overlaps`: one increment ends a sign-in, two overlap, and the version after a lost increment ends
  what is in doubt. Two
  users, two browsers, two chosen and two generated passwords, so that a password can be
  replaced by another of its kind. An edit of the e-mail runs in `overlaps`, whose requests all
  change the second account: whether its sign-ins and password are current is a matter of one
  account.
* `Access`: two threads of two browsers, or of one (whose requests share a cookie); two
  challenges, so that one replaces another; two secrets in `enrolments`, so that one is removed and
  enrolled again; three report passwords, so that two rotations overlap a third password; a clock that outlives `Ttl` by one step, so that
  things expire; the confirmation store holds one or two; `Limit` 1, `MaximumKeys` 1 for two
  keys, so that a key is evicted; instants up to 5, so that failures read out of order expire
  and others follow them (`MaxDelay` 1, `Window` 2).
* `Operations`: three crashes hit three different phases, of which a fourth would repeat
  one; two processes crash once. Two commits, one before and one during a backup; three
  faults: a rotation whose restore fails as well takes two, and a killed one may be
  followed by another. Two parts of a page and two writes of each, so that a page can
  mix old and new.
* `Figures`: three sessions, three invoices, two tabs, a clock of half
  seconds up to 5, of which stop times keep whole ones; days of 4, 3 and 5 units of half a
  second, with two sessions; costs of up to four sessions of at most 5 seconds and up to 12 cents, in which
  remainders tie, differ and vanish; leap years and others, followed by a New Year's day on a Saturday, on a Sunday and on
  a weekday.
* Symmetry is used over threads, sessions, invoices, browsers and passwords, which
  nothing orders or names; not over users, contracts and tasks, which constants name, and not in a
  run with liveness.

## Fairness

* `Startup`: weak fairness of `Step(p)`: a started process goes on, and one that died is
  started again (`restart: unless-stopped` in `compose.yml`). Nothing is assumed about crashes
  except that there are finitely many (`MaxCrashes`). `ServesAtLast` is checked
  for one process at a time.
* `LiveRefresh`: weak fairness of `Poll` (`setInterval`), of `Server` and `CommitAudit`
  (handlers end), strong fairness of the two receptions: not every answer is lost for
  ever. Nothing is assumed of users: the properties speak of those who stop editing.
* Nowhere else: the server promises no request an answer, and no handler waits for
  another; all other properties are about safety.

`BrowsersCatchUp` demands of a report that it comes to show what is recorded even if audit
events are lost, and of a page only if they are not and unless a commit overtook the
queries; `OvertakenPage` shows that the second condition is needed.

## Findings

Each quotes one statement of a document, a comment or a page; its run's shortest trace
shows the disagreement, and a passing run shows that it holds without the race or
the fraction.

| Run | What happens |
| --- | --- |
| `ArchiveTimerRace` | `archive_client` finds no timer; `start_timer` commits; the archive of the client and its contracts commits. The timer runs on an archived contract. `archive_contract` has the same window. |
| `ClaimedCorrection` | An edit or deletion is validated on a pending session; an invoice claims it; the correction commits. The session no longer shows what the invoice billed. |
| `FractionOfASecond` | A timer stopped within the second in which a since-last range ends, after the preview, has a stored end before the range's end: this range has not seen it and the next begins after it. |
| `SessionVersionRace` | Two requests increment `session_version` from one read. A sign-in made after the first commit keeps its version through the second, which should have ended it. |
| `OvertakenPage` | A live page reads, a handler commits and audits, the page takes the tag of that event: polls answer `304` and the page stays old until anyone does anything. |

`ClaimsConsistent`, `NoDoubleBilling` and `BillsWhatIsRecorded` hold nevertheless in the
second: the correction does not touch the billing columns, and the invoice's snapshot
is of the moment at which it was issued.

Some disagreements of the same kinds have no run of their own, because a property of a passing run
names them as its only exceptions:

| Race | Named by |
| --- | --- |
| a session recorded or moved onto a contract that is being archived; a contract created while its client is archived; disabling a user who is starting a timer; a session recorded for a task that is being deleted | the four properties of `Overtaking` |
| a second password reset while the owner replaces the first generated password: the new generated one need not be changed, because the reset read that a change was required and does not write that column | `TemporaryPasswordsAreChanged` |
| a membership removed while a member-only transaction is recorded | `MemberTransactions` |
| two rotations of one report password store the same version | `ReportSessionsAreCurrent` (`doubted`) |
| the audit event that carries the TOTP counter is lost: the code works again | `CodesAreUsedOnce` (`lost`) |
| two confirmations of one TOTP setup read it; one enrols, the factor is removed, the other enrols: one code counts twice | `CodesAreUsedOnce` (`lost`) |
| a migration from schema 4 that an older release cut short between `CREATE TABLE disbursement` and `DROP TRIGGER` is taken as done: the old frozen trigger stays, `CREATE TRIGGER IF NOT EXISTS` does not replace it, and the index is missing | `ServingMeansReady`, `MarkerMatchesSchema` (`CutShort`) |

Others are reached by changing constants:

| Race | With |
| --- | --- |
| two requests with one cookie act on one grant, which each of them takes out of its own copy | `Reauthentication` with two threads of one browser; `"act"` requests of one path in both |
| a commit without its audit event never shows on a page | `LiveRefresh` with `Kind = "page"`, `AuditMayFail = TRUE`; `CatchesUpUnlessOvertaken` |
| two processes that start at once convert one legacy invoice twice | `Startup` with two processes; `ConvertedOnce` |

## Refinement

`Settlement` says what invoicing promises without tables, drafts and requests: each
session is unbilled, owed on one invoice or paid on one; a voided invoice gives all its
sessions back; what is paid is never owed again; a deleted session stays deleted.
`Billing` implements it (`Settles`) under the mapping that reads

* `work` as the visible sessions that are pending, `deleted` as the hidden ones,
* `issued` as the rows of `invoice`,
* `owed` and `paid` as the lines of each invoice whose status is `UNPAID`,
  respectively `PAID` (a refunded invoice keeps that status).

A step of time tracking is `Work` or a stutter, generation is `Bill`, payment `Pay`, a
void `Release`; refunds, previews and disbursements stutter. TLC checks
it in `Billing`, and `BillingSettles` proves it.

## Proofs

TLAPS checks the theorems below for every value of the constants that satisfies the
assumptions of the module they are about: `ParentAssumption`, `NullAssumption`,
`TimeAssumption`, `MoneyAssumption` and `DayAssumption` (tracking and billing),
`AccountAssumption`, `ReauthenticationAssumption`, `ReportAssumption`, `LimiterAssumption`,
`RangesAssumption`, `DailyAssumption`, `CostsAssumption` and `YearAssumption`. They say that
parents exist, that a null is not a value, that bounds are numbers, that midnights follow each
other, that years are those of a date, that the days an invoice can fall on and the threads of the limiter are finitely
many, and that an administrator's browser is not counted among the customers'; the proofs about starting and maintenance need no
assumption. No theorem restricts what may happen: requests overlap, audit events fail and the
clock has fractions in all of them.

| Theorem | Module | States |
| --- | --- | --- |
| `TrackingTypeCorrect` | `TimeTrackingProofs` | `[]TrackingTypeOK` |
| `SessionsNeverOverlap` | `TimeTrackingProofs` | `[]NoOverlap` |
| `TimesStayInOrder` | `TimeTrackingProofs` | `[]TimesInOrder` |
| `SubtasksStayWithTheirTask` | `TimeTrackingProofs` | `[]SubtaskOfItsTask` |
| `DeletionIsFinal` | `TimeTrackingProofs` | `DeletedStaysDeleted` |
| `NoTimerStartsOnAnArchive` | `TimeTrackingProofs` | `TimersStartOnActiveContracts` |
| `ArchivingResolvesContracts` | `TimeTrackingProofs` | `ArchivedContractsAreResolved` |
| `ArchivingClientsArchivesContracts` | `TimeTrackingProofs` | `ArchivedClientsHaveNoActiveContracts` |
| `DisablingStopsTimers` | `TimeTrackingProofs` | `DisabledUsersHaveNoTimers` |
| `DeletingTasksDeletesTime` | `TimeTrackingProofs` | `DeletedTasksHaveNoTime` |
| `BillingTypeCorrect` | `BillingProofs` | `[]TypeOK` |
| `ClaimsStayConsistent` | `BillingProofs` | `[]ClaimsConsistent` |
| `NothingBilledTwice` | `BillingProofs` | `[]NoDoubleBilling` |
| `NumbersHaveNoGaps` | `BillingProofs` | `[]NumberedInSequence` |
| `InvoicesBillWhatIsRecorded` | `BillingProofs` | `BillsWhatIsRecorded` |
| `BillingKeepsSessionsApart` | `BillingProofs` | `[]NoOverlap`, of the composed system |
| `BillingSettles` | `BillingProofs` | `Settles`, the refinement |
| `ReferencesAreUnique` | `BillingProofs` | `[]UniqueReferences` |
| `InvoicesStay` | `BillingProofs` | `InvoicesArePermanent` |
| `NobodyIsOverpaid` | `BillingProofs` | `[]NothingOverdisbursed` |
| `AnAdministratorRemains` | `AccountsProofs` | `[]EnabledAdminRemains` |
| `AccountsTyped` | `AccountsProofs` | `[]TypeOK` |
| `SignInsStayCurrent` | `AccountsProofs` | `[]OlderSignInsEnd` |
| `TemporaryPasswordsRequireChange` | `AccountsProofs` | `TemporaryPasswordsAreChanged` |
| `MembersOwnTransactions` | `AccountsProofs` | `MemberTransactions` |
| `StartupTyped` | `OperationsProofs` | `[]TypeOK` |
| `MarkerTellsTheSchema` | `OperationsProofs` | `[]MarkerMatchesSchema` |
| `WhoeverServesIsReady` | `OperationsProofs` | `[]ServingMeansReady` |
| `NoPartIsLeft` | `OperationsProofs` | `MigrationsLeaveNoParts` |
| `UnsupportedIsLeftAlone` | `OperationsProofs` | `FailsClosed` |
| `NoCommitIsLost` | `OperationsProofs` | `[]DataRecoverable` |
| `PublishedBackupsAreComplete` | `OperationsProofs` | `[]BackupsAreComplete` |
| `RotationReportsTheTruth` | `OperationsProofs` | `[]RotationIsAllOrNothing` |
| `ReauthenticationTyped` | `ReauthenticationProofs` | `[]Typed` |
| `AChallengeCountsOnce` | `ReauthenticationProofs` | `[]ChallengesAreSpentOnce` |
| `GrantsRestOnProofs` | `ReauthenticationProofs` | `[]GrantsFollowProofs` |
| `ActionsRestOnProofs` | `ReauthenticationProofs` | `[]ActionsFollowGrants` |
| `ACodeCountsOnce` | `ReauthenticationProofs` | `[]CodesAreUsedOnce` |
| `APasswordIsDisplayedOnce` | `AccessProofs` | `[]DisplayedOnce` |
| `RotationEndsSessions` | `AccessProofs` | `[]ReportSessionsAreCurrent` |
| `NobodyIsRefusedForOthers` | `AccessProofs` | `[]RefusalsAreEarned` |
| `FailuresStayLimited` | `AccessProofs` | `[]FailuresAreLimited` |
| `TheTableIsBounded` | `AccessProofs` | at most `MaximumKeys` keys |
| `RangesTyped` | `FiguresProofs` | `[]InvoicesTyped` |
| `OnlyASecondIsLost` | `FiguresProofs` | `[]RangesAreComplete` |
| `EverySecondIsOnOneDay` | `FiguresProofs` | `[]DaysAddUp` |
| `CentsAddUp` | `FiguresProofs` | `[]CostsAddUp` |
| `DueOnABusinessDay` | `FiguresProofs` | `[]FirstBusinessDay` |

**Time tracking.** `TrackingTypeOK` is inductive because it says of the pending write
sets what the commits need: a correction names a session that exists, agrees with
what it read in the billing columns, and leaves the session stopped. There is a
lemma per handler (`PrepareTyped` with the shape of each write set, `FinishTyped`
for each commit). The safety of the tables is one induction,

    SafeInv == TrackingTypeOK /\ RowsOK /\ \A t \in Threads : PendingOK(requests[t])

where `RowsOK` is no overlap, times in order and subtask of its task. A commit that a
trigger accepts keeps `RowsOK`; but not every column is under a trigger, and the
triggers look only at what a statement sets. `PendingOK` is what a write set
still guarantees when it commits, however long ago it was prepared: its times have
passed, the session it updates was visible when it was read, disabling stops at most one
timer, and the contract of a timer exists. With no overlap, the last timer of a worker is
his only one, so stopping it at a past instant disturbs nothing. `DeletionIsFinal` and
`NoTimerStartsOnAnArchive` are then properties of single steps.

**Overtaken requests.** What archiving, disabling and deleting promise of a row is not an
invariant when requests overlap. `Overtaking` records which requests have been overtaken: what their
handler checked (`Stands`) was so, and is not so any more. The four theorems are about steps, for
any number of threads: if the promise about a row held before a step and not after it, the step is
the commit of an overtaken request, of one of the operations listed. `WatchInv` is that a pending
request that was not overtaken still stands, with what the tables need for that (`RequestKnown`,
`RowsKnown`). Then a lemma for each promise (`ResolvedKept`, `ContractsStillFollow`,
`TimersStayStopped`, `NothingComesBack`) shows that the commit of a request that stands keeps it,
and so does every commit of an operation that is not listed, overtaken or not.

**Billing.** The inductive invariant is

    Inv == TypeOK /\ ClaimsConsistent /\ NumberedInSequence /\ IsFiniteSet(DOMAIN invoices)

* `TrackingStep` says what a step of time tracking can do to the sessions: rows are
  never removed, a new row is pending and unclaimed, and the two billing columns of
  an old row stay. This is where the write sets are needed, and it makes every
  step of time tracking preserve `ClaimsConsistent`, whatever it corrects.
* The steps of invoicing move the sessions of one invoice together. Generation needs
  that `Eligible` sessions are pending, hence unclaimed.
* `NoDoubleBilling` follows: the lines of a live invoice are the sessions whose
  `invoice` is that invoice, and a session has one.
* The type of a new invoice number needs the numbering: `Max` of the numbers of a
  contract is its number of invoices because they are `1..n`, which in turn needs
  that there are finitely many.
* `SafeInv` holds of the composition too: invoicing writes only the billing columns of
  sessions (`SetBillingIsSafe`), and no part of `SafeInv` reads those.
* `BillingSettles` has a lemma per action that names the abstract step it takes. It
  rests on `Separate` (no session that may be billed is on an account, and the accounts
  are apart), which follows from `Inv`, and on `SafeInv` for deletion.
* Unique references are an invariant only together with `RecordedWithTheirEvents`: an
  invoice that is not paid has no payment reference and is not refunded, one that is not
  refunded has no refund reference. `InvoicesStay` needs the same: a payment overwrites no
  reference because an unpaid invoice has none.
* `NobodyIsOverpaid` is short once sums can be reasoned about: a disbursement reads the
  balance in the transaction that pays, a paid invoice keeps its lines, and no line earns
  less than nothing, so that earnings only grow. `PaidInv` adds that the rows are finitely many.

**Sums.** `SumFunction` takes out the elements of a domain in the order in which `CHOOSE`
picks them. Induction over finite sets is out of reach, so each fact in `Sums` is proved by a minimal
subset for which it fails (`MinimalSubset`): the recursion defines something
(`SolutionExists`), what it defines is a number (`SolutionTyped`), it depends only on the
values (`SolutionsAgree`), and any element may be taken out first (`TakeOut`). `SumExtended`,
the sum over one more element, is what the proof of `NobodyIsOverpaid` cites. The proofs about days
and cents cite the sum after one value changed (`SumUpdated`), of a sum and of a multiple
(`SumOfSums`, `SumScaled`), and comparisons (`SumAtMost`, `SumBounds`).

**Accounts.** `AdminInv` is that every user has a row and an enabled administrator remains.
Only a commit can disturb it, and there the trigger judges the merged row, so nothing
need be known of the write set. `AccountsTyped` is the larger proof: a row merged
from the columns of two requests must be one that the table's constraints admit. The other three
theorems share the induction `HistoryInv` over `AccountHistory`. Every handler that changes a
password, a role or a factor raises the version, so that the cookies of a version prove
what the account asked for while it had that version. This is lost when two requests
increment from one read, or when a late one takes the version down: `doubted` is then the highest
version that the account has had, and no version above it has been given out before. Above `doubted` the row
that a request read is, in the columns that count, the row in the table when it commits, which is
what the induction carries (`RequestOK`, `SignInOK`). The two action properties follow from what a
merge writes: only a reset that writes no required change, or an edit that
writes the user type from an old check, can break them, and both have then been overtaken.

**Start.** The invariant says that a committed database is whole (`Whole`: every migration
below the marker is complete, and the old trigger is there only while the migration that
replaces it is due, or where an older release cut that migration short), what a transaction has staged (`StagedOK`), and for each phase of a process
what the earlier phases established (`PhaseOK`). The last must survive the steps of other
processes: everything they do only adds, and the lock keeps two migrations apart.

**Maintenance.** The three properties speak of a database at rest, of a published file and of
a reported outcome; the proof follows a command through its steps, each of which may be the
last. `Sound` holds between any two steps: what SQLite would recover (a journal rolled back,
the log read) is whole and has every commit. `CopyOK` and `BackupOK` say what the temporary
file has at each step of a backup, so that what a rename publishes is complete.
`RotationOK` says for each step of a rotation which key is in the file, that from the
copy on a published backup has the old key and every commit (`CopyKept`), and that the
log is folded before the file is rewritten. `OutcomeOK` is what the
reported outcome promises. That the database
itself still opens with one of the keys when even the restore failed (`DataRecoverable`)
needs both `Sound` and that a replacement is a rename of a complete copy.

**Reauthentication.** Most of the induction is about one lemma per handler, gathered in
`Effects`: what a step may add to the proofs, the cookies, the challenges, the requests and
the account. From these the three parts of the invariant are preserved without looking
at the handlers again.

* A challenge is a row with a fresh id, and the conditional delete that consumes it
  succeeds once (`ChallengesOK`).
* A pending action that is marked as verified, a grant, and a sensitive action in
  progress each name a proof in the same browser, for the same path and version (`GrantsOK`).
  Copies of a cookie in requests must be spoken of too, since a response brings them back.
* That a grant after the enrolment of a factor does not rest on a password alone needs
  the versions. Enrolment and removal both raise the version, so that whether the
  account has a factor follows from the parity of its version (`Alternates`): a
  proof of the present version was made while the factor was what it is now.
* `CodesOK` says that a code that counted more often than `lost` is below the replay counter or of an
  earlier secret (`CountsOK`), and of what a request has read, that the account has only moved
  on from it (`ReadsOK`). `lost` forgives a code one more use when the counter that it left is
  rolled back, since the database has then forgotten it, and all codes when an overtaken request has
  its own accepted: enrolment does not consult the counter, so that two confirmations of one setup,
  with the removal of the factor between them, accept one code twice. Without either, TLC finds
  `CodesAreUsedOnce` violated.

**Shared reports.** A password that has yet to be displayed is in one place: in the request
that generated it, or in the store (`OnlyPlace`, `AtMostOnce`). Displaying it takes it out of
the store under the lock, so no second tab, reload or late timer finds it, and the token that
the browser still has names nothing. That a rotation ends the sessions of the old
password rests on the version telling the password (`VersionsInv`): what a customer's cookie
or request shows is of an earlier version, or it is the client's present password. Two
rotations that overlap may store one version twice, or an older one. `doubted` is then the highest
version so far; versions above it were not given out before, so that above it the argument
holds again, for any number of administrators.

**The limiter.** `TableInv` compares the table with `failed`, all failures of a key since it
was last forgotten: the table holds a suffix of them, and what it no longer holds has expired.
Only the *front* of a deque is pruned, and threads record instants that they read before they
waited for the lock. The instants are therefore not sorted, but a later one is
earlier by `MaxDelay` at most (`TimesOK`). So everything behind a recent front is
younger than `Horizon`, and a refusal counts nothing older. For the other direction
`CountOK` counts the failures within the window together with the attempts that were admitted
and have not recorded yet: an attempt is admitted only while the failures are below
`Limit`, and each of the other threads may have one admitted at that time. `TheTableIsBounded`
rests on the order of use (`Ordered`): there is always one least recently used key, and
removing it makes room for one. It is also why the loop at the end of `_prune` has nothing
to remove and `Prune` leaves it out.

**Ranges.** `CoveredOK` says that every session stopped before the end of some range, void or
not, is claimed, released by a void, or `Overtaken`: stopped after the range ended, in the
same second. Drafts begin where a range ended that may have been voided since, so the
invariant speaks of all ranges. The start of the next range is a `CHOOSE` of a maximum;
that there is one is the lemma `HasMaximum`, from the well-foundedness of `<`. So
`OnlyASecondIsLost` holds for any clock, and it bounds the finding of `FractionOfASecond`: the
second of its trace is the only gap.

**Days.** `DailyInv` relates what is given to the days with what is taken from the sessions
(`GivenOut`): each part moves the same seconds from one to the other (`PartAddsUp`), and a session
ends with all of its seconds because the parts are truncated cumulatively. That no day is off
by a second per session is `ErrorOK`: `Covered` is the exact time of the sessions on a day up to
the cursor, a part of a session on a day is the difference of two truncations and therefore off by less than
a second (`PartError`), and the cursor stops at midnights only (`CursorOK`), so that a session has one
part on a day and `Parts` counts them.

**Cents.** Before the residual cents are spread each line has its share cut down to cents, and
what is left over is the sum of the remainders divided by the seconds. Each remainder is less
than the seconds, so there are at most as many cents left as lines with a remainder
(`LessThanWaiting`). `Spreading` keeps that while cents are given, and adds that whoever has received one had
a remainder, and that those with a larger remainder have received theirs. From this the costs
add up, none is a cent from its share, and a longer session costs no less (`InvCosts`).

**Due dates.** The code computes the holidays of three years once, then walks on.
`FirstBusinessDay` decides from a day alone. The two agree on every day that the walk can
reach (`NotPayableIs`): the lemmas on the calendar say where a year begins (`YearLength`,
`YearsFollow`, `YearKnown`), so that a fixed date near the year is one of the three years
(`FixedIsAround`). The walk never leaves this range (`WorkInJanuary`): one of the third, fourth and fifth of
January is a day of work.

**Only model-checked.** `ServesAtLast` and `BrowsersCatchUp`: liveness and `ENABLED` are out of
the prover's reach. `InvoiceTime` computes with folds over sessions and days; what it is used
for is proved, what its folds compute is not.

## What is left out

| Part | Why |
| --- | --- |
| Renaming clients, tasks and subtasks | changes no column that another operation reads |
| Expiry of browser sessions by inactivity, CSRF tokens | checks of a cookie against a clock or itself, with no state of the server's |
| Registration, renaming and removal of passkeys; verification of signatures, passwords and codes | single-row writes behind the reauthentication that is modelled; the rest is libraries' |
| Immutability triggers of audit rows and of invoices | no handler writes those rows again |
| Permissions | lookup tables without state |
| Configuration, logging, public numbers, `invoice_summary.py` | parsing and formatting without state of their own |
| PDF rendering, templates, browser code other than the refresh, demo data, deployment | layout, or not part of the running program |

## Plan

The modules and proofs above are done. What could follow, most valuable first:

1. Passkey registration and the removal of the last credential, in `Reauthentication`.
2. Several reads of one handler as separate steps, for the handlers with the longest
   validation (`edit_time_entry`, `archive_contract`).
