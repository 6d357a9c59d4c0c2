-------------------------------- MODULE Startup --------------------------------
(***************************************************************************)
(* What the application does before it serves: it creates the schema or    *)
(* migrates it, installs the triggers, and reconciles the data (database.  *)
(* py, bootstrap.py, create_app).  A process may die anywhere and start    *)
(* again.                                                                  *)
(*                                                                         *)
(* A migration runs between an explicit BEGIN IMMEDIATE and its commit,    *)
(* with the version marker last.  Triggers are created one by one, outside *)
(* of any transaction: the driver begins none for DDL.                     *)
(***************************************************************************)
EXTENDS Naturals

CONSTANTS
    Processes,
    MaxCrashes     \* bound of the crashes

StartupAssumption == MaxCrashes \in Nat

VARIABLES
    db,        \* what is committed
    process,   \* where each process is, and what it has read
    staged,    \* the transaction that each process is in, if it is in one
    crashes

vars == <<db, process, staged, crashes>>

CURRENT_SCHEMA_VERSION == 9
MINIMUM_MIGRATABLE_SCHEMA_VERSION == 2
Migrations == MINIMUM_MIGRATABLE_SCHEMA_VERSION .. CURRENT_SCHEMA_VERSION - 1

(* tables: whether there are any; marker: 0 when there is none.            *)
(* added[v]: how much of the migration from v is in the schema.  "cut" is  *)
(* all that migrate_schema_4_to_5 looks for when it decides whether it has *)
(* been done, without the index and the DROP TRIGGER that come after.      *)
(* frozen: invoice_frozen_update_guard, which schema 4 defined otherwise;  *)
(* guards: the other triggers.  legacy: whether some invoice has           *)
(* pdf_version 1; converted: the disbursements made of such invoices.      *)
Extents == {"none", "part", "cut", "all"}
Databases ==
    [tables: BOOLEAN, marker: Nat, added: [Migrations -> Extents],
     frozen: {"none", "old", "new"}, guards: BOOLEAN,
     users: BOOLEAN, legacy: BOOLEAN, converted: Nat]

Phases == {"down", "open", "migrate", "ddl", "frozen", "guards", "reconcile",
           "commit", "serving", "failed"}

Down == [phase |-> "down", version |-> 0, users |-> FALSE, legacy |-> FALSE]
NoTransaction == [open |-> FALSE]

-----------------------------------------------------------------------------
Empty == [tables |-> FALSE, marker |-> 0, added |-> [v \in Migrations |-> "none"],
          frozen |-> "none", guards |-> FALSE,
          users |-> FALSE, legacy |-> FALSE, converted |-> 0]

(* What a release with schema m leaves.  Before the explicit BEGIN, which  *)
(* the comment in migrate_database gives the reason for, a release could   *)
(* stop in the middle of a migration, between its last statement and the   *)
(* marker, or before it installed a trigger.  One that found the migration *)
(* from 4 cut short went on as this one does: fourth is what it left.      *)
Left(m, next, fourth, frozen, guards, legacy) ==
    [tables |-> TRUE, marker |-> m,
     added |-> [v \in Migrations |-> IF v = m THEN next
                                     ELSE IF v > m THEN "none"
                                     ELSE IF v = 4 THEN fourth ELSE "all"],
     frozen |-> frozen,
     guards |-> guards, users |-> TRUE, legacy |-> legacy, converted |-> 0]

(* The definitions of the trigger that there may be then                   *)
LeftFrozen(m, next, fourth) ==
    CASE m < 4 \/ (m = 4 /\ next = "all") -> {"none"}
      [] m = 4 /\ next # "all"            -> {"none", "old"}
      [] m > 4 /\ fourth = "all"          -> {"none", "new"}
      [] OTHER                            -> {"none", "old", "new"}

Init ==
    /\ \/ db = Empty
       \/ db = [Empty EXCEPT !.tables = TRUE]
       \/ \E m \in 1..10, next \in Extents, fourth \in {"cut", "all"},
             guards \in BOOLEAN, legacy \in BOOLEAN :
             /\ next = "cut" => m = 4
             /\ fourth = "cut" => m > 4
             /\ legacy => m \in 4..9
             /\ \E frozen \in LeftFrozen(m, next, fourth) :
                   db = Left(m, next, fourth, frozen, guards, legacy)
    /\ process = [p \in Processes |-> Down]
    /\ staged = [p \in Processes |-> NoTransaction]
    /\ crashes = 0

-----------------------------------------------------------------------------
InPhase(p, phase) == process[p].phase = phase

Goto(p, phase) == process' = [process EXCEPT ![p].phase = phase]

Locked == \E p \in Processes : staged[p].open

Begin(p) == ~Locked /\ staged' = [staged EXCEPT ![p] = [open |-> TRUE, db |-> db]]

Rollback(p) == staged' = [staged EXCEPT ![p] = NoTransaction]

Stage(p, new) == staged' = [staged EXCEPT ![p].db = new]

Start(p) == InPhase(p, "down") /\ Goto(p, "open") /\ UNCHANGED <<db, staged, crashes>>

(* installed_schema_version, and what initialize_database makes of it      *)
Supported(d) ==
    ~d.tables \/ d.marker \in MINIMUM_MIGRATABLE_SCHEMA_VERSION .. CURRENT_SCHEMA_VERSION

Open(p) ==
    /\ InPhase(p, "open")
    /\ process' = [process EXCEPT ![p].version = db.marker,
                                  ![p].phase = IF Supported(db) THEN "migrate" ELSE "failed"]
    /\ UNCHANGED <<db, staged, crashes>>

(* create_all and the marker, which fails when another process has written *)
(* it by then                                                              *)
Create(p) ==
    /\ InPhase(p, "migrate") /\ process[p].version = 0
    /\ ~Locked
    /\ IF db.marker # 0 THEN Goto(p, "failed") /\ UNCHANGED db
       ELSE /\ db' = [db EXCEPT !.tables = TRUE, !.marker = CURRENT_SCHEMA_VERSION,
                                !.added = [v \in Migrations |-> "all"]]
            /\ Goto(p, "frozen")
    /\ UNCHANGED <<staged, crashes>>

(* migrate_database: BEGIN IMMEDIATE, and the marker read again *)
BeginMigration(p) ==
    /\ InPhase(p, "migrate") /\ process[p].version \in Migrations
    /\ ~Locked
    /\ IF db.marker = process[p].version THEN Begin(p) /\ Goto(p, "ddl")
       ELSE UNCHANGED staged /\ Goto(p, "failed")
    /\ UNCHANGED <<db, crashes>>

(* migrate_schema_2_to_3 creates its tables whatever there is,             *)
(* migrate_schema_8_to_9 adds what is missing, the others add all or       *)
(* nothing.                                                                *)
Refused(v, added) ==
    IF v = 2 THEN added # "none" ELSE v # 8 /\ added = "part"

(* What makes a migration return early: it finds what it would have added. *)
TakenAsDone(d, v) == d.added[v] \in {"cut", "all"}

(* Mutant: the trigger of the old schema stays. *)
AddedKeepingTrigger(d, v) ==
    IF d.added[v] = "none" THEN [d EXCEPT !.added[v] = "part"]
    ELSE [d EXCEPT !.added[v] = "all"]

(* migrate_schema_4_to_5 drops the trigger for the new definition. *)
Added(d, v) ==
    IF d.added[v] = "none" THEN [d EXCEPT !.added[v] = "part"]
    ELSE [d EXCEPT !.added[v] = "all",
                   !.frozen = IF v = 4 THEN "none" ELSE d.frozen]

FailMigration(p) ==
    /\ InPhase(p, "ddl")
    /\ Refused(process[p].version, db.added[process[p].version])
    /\ Rollback(p) /\ Goto(p, "failed")
    /\ UNCHANGED <<db, crashes>>

Execute(p) ==
    LET v == process[p].version
    IN  /\ InPhase(p, "ddl")
        /\ ~Refused(v, db.added[v])
        /\ ~TakenAsDone(staged[p].db, v)
        /\ Stage(p, Added(staged[p].db, v))
        /\ UNCHANGED <<db, process, crashes>>

(* Mutant: the marker does not wait for the statements. *)
AdvanceEarly(p) ==
    LET v == process[p].version
    IN  /\ InPhase(p, "ddl")
        /\ db' = [staged[p].db EXCEPT !.marker = v + 1]
        /\ Rollback(p)
        /\ process' = [process EXCEPT ![p].phase = "migrate", ![p].version = v + 1]
        /\ UNCHANGED crashes

(* Mutant: the loop goes on from the version that it has just migrated. *)
AdvanceKeepingVersion(p) ==
    LET v == process[p].version
    IN  /\ InPhase(p, "ddl")
        /\ TakenAsDone(staged[p].db, v)
        /\ db' = [staged[p].db EXCEPT !.marker = v + 1]
        /\ Rollback(p)
        /\ process' = [process EXCEPT ![p].phase = "migrate"]
        /\ UNCHANGED crashes

(* The marker, and the commit *)
Advance(p) ==
    LET v == process[p].version
    IN  /\ InPhase(p, "ddl")
        /\ TakenAsDone(staged[p].db, v)
        /\ db' = [staged[p].db EXCEPT !.marker = v + 1]
        /\ Rollback(p)
        /\ process' = [process EXCEPT ![p].phase = "migrate", ![p].version = v + 1]
        /\ UNCHANGED crashes

Migrated(p) ==
    /\ InPhase(p, "migrate") /\ process[p].version >= CURRENT_SCHEMA_VERSION
    /\ Goto(p, "frozen")
    /\ UNCHANGED <<db, staged, crashes>>

(* CREATE TRIGGER IF NOT EXISTS *)
InstallFrozen(p) ==
    /\ InPhase(p, "frozen") /\ ~Locked
    /\ db' = [db EXCEPT !.frozen = IF db.frozen = "none" THEN "new" ELSE db.frozen]
    /\ Goto(p, "guards")
    /\ UNCHANGED <<staged, crashes>>

InstallGuards(p) ==
    /\ InPhase(p, "guards") /\ ~Locked
    /\ db' = [db EXCEPT !.guards = TRUE]
    /\ Goto(p, "reconcile")
    /\ UNCHANGED <<staged, crashes>>

(* reconcile_bootstrap_users and migrate_invoice_snapshots: the reads *)
Reconcile(p) ==
    /\ InPhase(p, "reconcile")
    /\ process' = [process EXCEPT ![p].users = db.users, ![p].legacy = db.legacy,
                                  ![p].phase = "commit"]
    /\ UNCHANGED <<db, staged, crashes>>

(* What the old trigger refuses is not in the source any more.             *)
MayRefuseSnapshots(d) == d.frozen = "old" /\ d.legacy

(* ... and the commit of session_scope.  The users of the manifest are     *)
(* refused by their unique addresses when another process has added them.  *)
Reconciled(p) ==
    /\ InPhase(p, "commit") /\ ~Locked
    /\ \/ /\ process[p].users = db.users
          /\ db' = [db EXCEPT !.users = TRUE, !.legacy = FALSE,
                              !.converted = IF process[p].legacy THEN @ + 1 ELSE @]
          /\ Goto(p, "serving")
       \/ /\ process[p].users # db.users \/ MayRefuseSnapshots(db)
          /\ UNCHANGED db /\ Goto(p, "failed")
    /\ UNCHANGED <<staged, crashes>>

(* A process dies, or is stopped: its transaction is rolled back. *)
Crash(p) ==
    /\ ~InPhase(p, "down")
    /\ crashes < MaxCrashes
    /\ crashes' = crashes + 1
    /\ process' = [process EXCEPT ![p] = Down]
    /\ Rollback(p)
    /\ UNCHANGED db

Step(p) ==
    \/ Start(p) \/ Open(p) \/ Create(p)
    \/ BeginMigration(p) \/ Execute(p) \/ FailMigration(p) \/ Advance(p) \/ Migrated(p)
    \/ InstallFrozen(p) \/ InstallGuards(p) \/ Reconcile(p) \/ Reconciled(p)

Next == \E p \in Processes : Step(p) \/ Crash(p)

(* A process that is started goes on, and one that died is started again. *)
Spec == Init /\ [][Next]_vars /\ \A p \in Processes : WF_vars(Step(p))

-----------------------------------------------------------------------------
(* Every database, transaction and process has its type.                   *)
TypeOK ==
    /\ db \in Databases
    /\ process \in [Processes -> [phase: Phases, version: Nat,
                                  users: BOOLEAN, legacy: BOOLEAN]]
    /\ staged \in [Processes -> {NoTransaction} \cup [open: {TRUE}, db: Databases]]
    /\ crashes \in Nat

(* An older release cut the migration from 4 short in this database.       *)
CutShort(d, v) == v = 4 /\ d.added[v] = "cut"

(* The marker tells what the schema is, whatever crash interrupted a       *)
(* migration: everything that the versions below it brought is there,      *)
(* except for what an older release left out of the migration from 4.      *)
MarkerMatchesSchema ==
    \A v \in Migrations : v < db.marker => db.added[v] = "all" \/ CutShort(db, v)

(* "Re-running initialization": a process that died in a migration has     *)
(* left no part of it behind, and none that passes for the whole.          *)
MigrationsLeaveNoParts ==
    [][\A v \in Migrations :
          db'.added[v] \in {"part", "cut"} => db.added[v] = db'.added[v]]_vars

(* Whoever serves has the present schema with every trigger in its present *)
(* definition, an account to sign in to, and no invoice of the old kind.   *)
(* Where an older release cut the migration from 4 short, the old trigger  *)
(* may have stayed, and nothing else.                                      *)
ServingMeansReady ==
    \A p \in Processes : InPhase(p, "serving") =>
        /\ db.marker = CURRENT_SCHEMA_VERSION
        /\ \A v \in Migrations : db.added[v] = "all" \/ CutShort(db, v)
        /\ db.frozen = "new" \/ (db.frozen = "old" /\ CutShort(db, 4))
        /\ db.guards
        /\ db.users /\ ~db.legacy

(* The disbursements of a legacy invoice are recorded once, however often  *)
(* a process starts: two at once are not kept from converting it twice.    *)
ConvertedOnce == db.converted <= 1

(* "Unsupported, missing, or newer markers fail closed."                   *)
FailsClosed ==
    [][db.tables /\ db.marker \notin MINIMUM_MIGRATABLE_SCHEMA_VERSION .. CURRENT_SCHEMA_VERSION
         => UNCHANGED db]_vars

(* However often it is interrupted, the application serves at last, when   *)
(* the database it found was one that it supports, without invoices whose  *)
(* conversion an old trigger may refuse.                                   *)
Startable ==
    /\ Supported(db) /\ \A v \in Migrations : v = db.marker => ~Refused(v, db.added[v])
    /\ CutShort(db, 4) => ~MayRefuseSnapshots(db)
EventuallyServes == Startable => <>(\E p \in Processes : InPhase(p, "serving"))
=============================================================================
