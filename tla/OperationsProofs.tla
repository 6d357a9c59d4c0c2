-------------------------- MODULE OperationsProofs --------------------------
(***************************************************************************)
(* Proofs about Startup, for any number of processes and of crashes, and   *)
(* about Maintenance, for any number of commits, backups and rotations,    *)
(* failures and kills.                                                     *)
(*                                                                         *)
(* The induction about starting follows what a process knows: a            *)
(* transaction works on what is committed, except for the migration it     *)
(* performs, and each phase has established what the next ones rely on,    *)
(* which no other process undoes.  The induction about maintenance follows *)
(* a command through its steps: what is in the log, in the journal and in  *)
(* the temporary file at each of them, so that the next one may fail.      *)
(***************************************************************************)
EXTENDS Startup, Maintenance, TLAPS

-----------------------------------------------------------------------------
(* Starting                                                                *)

Working == Phases \ {"down", "open", "failed"}
Installing == {"frozen", "guards", "reconcile", "commit", "serving"}

(* What holds of every database, committed or staged *)
Whole(d) ==
    /\ \A v \in Migrations : v < d.marker => d.added[v] = "all" \/ CutShort(d, v)
    /\ \A v \in Migrations : d.added[v] = "cut" => v = 4 /\ d.marker >= 4
    /\ d.frozen = "old" => CutShort(d, 4) \/ (d.marker = 4 /\ d.added[4] # "all")
    /\ d.marker # 0 => d.tables

(* The trigger is there, if not always in its present definition.          *)
Settled(d) == d.frozen = "new" \/ (d.frozen = "old" /\ CutShort(d, 4))

(* The transaction of p differs from what is committed in one migration.   *)
StagedOK(p) ==
    staged[p].open =>
        /\ InPhase(p, "ddl")
        /\ Whole(staged[p].db)
        /\ staged[p].db.marker = process[p].version
        /\ db.marker = process[p].version
        /\ db.tables /\ staged[p].db.tables
        /\ \A v \in Migrations :
              \/ v = process[p].version /\ staged[p].db.added[v] # "cut"
              \/ staged[p].db.added[v] = db.added[v]

PhaseOK(p) ==
    /\ process[p].phase \in Working => Supported(db)
    /\ InPhase(p, "migrate") /\ process[p].version # 0
          => /\ db.tables
             /\ process[p].version \in 2..db.marker
    /\ InPhase(p, "ddl") => staged[p].open /\ process[p].version \in Migrations
    /\ process[p].phase \in Installing => db.tables /\ db.marker = CURRENT_SCHEMA_VERSION
    /\ process[p].phase \in Installing \ {"frozen"} => Settled(db)
    /\ process[p].phase \in {"reconcile", "commit", "serving"} => db.guards
    /\ InPhase(p, "serving") => db.users /\ ~db.legacy

StartupInv ==
    /\ TypeOK
    /\ Whole(db)
    /\ \A p, q \in Processes : staged[p].open /\ staged[q].open => p = q
    /\ \A p \in Processes : StagedOK(p) /\ PhaseOK(p)

USE DEF CURRENT_SCHEMA_VERSION, MINIMUM_MIGRATABLE_SCHEMA_VERSION, Migrations, Extents

-----------------------------------------------------------------------------
LEMMA StartupInitInv == Init => StartupInv
<1> SUFFICES ASSUME Init PROVE StartupInv
  OBVIOUS
<1>1. \A p \in Processes : process[p] = Down /\ staged[p] = NoTransaction
  BY DEF Init
<1>2. Empty \in Databases /\ Whole(Empty)
  BY DEF Empty, Databases, Whole
<1>3. /\ [Empty EXCEPT !.tables = TRUE] \in Databases
      /\ Whole([Empty EXCEPT !.tables = TRUE])
  <2> DEFINE bare == [Empty EXCEPT !.tables = TRUE]
  <2>1. bare \in Databases
    BY <1>2 DEF Databases
  <2>2. /\ bare.marker = Empty.marker /\ bare.added = Empty.added
        /\ bare.frozen = Empty.frozen /\ bare.tables
    BY <1>2 DEF Databases
  <2> HIDE DEF bare
  <2>3. Whole(bare)
    BY <1>2, <2>2 DEF Whole, CutShort
  <2> QED
    BY <2>1, <2>3 DEF bare
<1>4. ASSUME NEW m \in 1..10, NEW next \in Extents, NEW fourth \in {"cut", "all"},
             NEW guards \in BOOLEAN, NEW legacy \in BOOLEAN,
             next = "cut" => m = 4, fourth = "cut" => m > 4,
             NEW frozen \in LeftFrozen(m, next, fourth)
      PROVE  /\ Left(m, next, fourth, frozen, guards, legacy) \in Databases
             /\ Whole(Left(m, next, fourth, frozen, guards, legacy))
  <2> DEFINE extents == [v \in Migrations |-> IF v = m THEN next ELSE IF v > m THEN "none"
                                              ELSE IF v = 4 THEN fourth ELSE "all"]
             left == Left(m, next, fourth, frozen, guards, legacy)
  <2>1. extents \in [Migrations -> Extents]
    OBVIOUS
  <2>2. /\ frozen \in {"none", "old", "new"}
        /\ frozen = "old" => (m = 4 /\ next # "all") \/ (m > 4 /\ fourth = "cut")
    BY DEF LeftFrozen
  <2>3. /\ left = [tables |-> TRUE, marker |-> m, added |-> extents, frozen |-> frozen,
                   guards |-> guards, users |-> TRUE, legacy |-> legacy, converted |-> 0]
    BY DEF Left
  <2>4. \A v \in Migrations : extents[v] = IF v = m THEN next ELSE IF v > m THEN "none"
                                           ELSE IF v = 4 THEN fourth ELSE "all"
    OBVIOUS
  <2> HIDE DEF extents, left
  <2>5. left \in Databases
    BY <2>1, <2>2, <2>3 DEF Databases
  <2>6. Whole(left)
    BY <1>4, <2>2, <2>3, <2>4 DEF Whole, CutShort
  <2> QED
    BY <2>5, <2>6 DEF left
<1>5. db \in Databases /\ Whole(db)
  <2>1. CASE db = Empty \/ db = [Empty EXCEPT !.tables = TRUE]
    BY <1>2, <1>3, <2>1
  <2>2. CASE ~(db = Empty \/ db = [Empty EXCEPT !.tables = TRUE])
    <3>1. PICK m \in 1..10, next \in Extents, fourth \in {"cut", "all"},
               guards \in BOOLEAN, legacy \in BOOLEAN :
                 /\ next = "cut" => m = 4
                 /\ fourth = "cut" => m > 4
                 /\ legacy => m \in 4..9
                 /\ \E frozen \in LeftFrozen(m, next, fourth) :
                       db = Left(m, next, fourth, frozen, guards, legacy)
      BY <2>2 DEF Init
    <3>2. PICK frozen \in LeftFrozen(m, next, fourth) :
                 db = Left(m, next, fourth, frozen, guards, legacy)
      BY <3>1
    <3> QED
      BY <1>4, <3>1, <3>2
  <2> QED
    BY <2>1, <2>2
<1>6. TypeOK
  BY <1>1, <1>5 DEF Init, TypeOK, Down, Phases
<1>7. \A p \in Processes : process[p].phase = "down" /\ ~staged[p].open
  <2>1. Down.phase = "down"
    BY DEF Down
  <2>2. ~NoTransaction.open
    BY DEF NoTransaction
  <2> QED
    BY <1>1, <2>1, <2>2
<1>9. \A p \in Processes : StagedOK(p) /\ PhaseOK(p)
  BY <1>7 DEF StagedOK, PhaseOK, InPhase, Working, Installing
<1>8. \A p, q \in Processes : staged[p].open /\ staged[q].open => p = q
  BY <1>1 DEF NoTransaction
<1> QED
  BY <1>5, <1>6, <1>8, <1>9 DEF StartupInv

-----------------------------------------------------------------------------
(* Most steps change one process and leave the database alone.             *)
LEMMA OnlyProcess ==
    ASSUME StartupInv, NEW p \in Processes, NEW row, UNCHANGED <<db, staged, crashes>>,
           process' = [process EXCEPT ![p] = row],
           row \in [phase: Phases, version: Nat, users: BOOLEAN, legacy: BOOLEAN],
           ~staged[p].open, PhaseOK(p)'
    PROVE  StartupInv'
<1>1. /\ process'[p] = row
      /\ \A q \in Processes : q # p => process'[q] = process[q]
  BY DEF StartupInv, TypeOK
<1>2. TypeOK'
  BY DEF StartupInv, TypeOK
<1>3. ASSUME NEW q \in Processes PROVE StagedOK(q)' /\ PhaseOK(q)'
  BY <1>1 DEF StartupInv, StagedOK, PhaseOK, InPhase, Whole
<1> QED
  BY <1>2, <1>3 DEF StartupInv, Whole

LEMMA GotoTyped ==
    ASSUME NEW p \in Processes, NEW phase \in Phases, Goto(p, phase),
           process \in [Processes -> [phase: Phases, version: Nat, users: BOOLEAN,
                                     legacy: BOOLEAN]]
    PROVE  /\ process' \in [Processes -> [phase: Phases, version: Nat, users: BOOLEAN,
                                         legacy: BOOLEAN]]
           /\ process'[p] = [process[p] EXCEPT !.phase = phase]
           /\ InPhase(p, phase)'
           /\ process'[p].version = process[p].version
BY DEF Goto, InPhase

(* A step that changes the database outside of any transaction             *)
LEMMA OnlyDatabase ==
    ASSUME StartupInv, NEW p \in Processes, NEW new \in Databases, NEW phase \in Phases,
           ~Locked, db' = new, Goto(p, phase), UNCHANGED <<staged, crashes>>,
           Whole(new),
           Supported(db) => Supported(new),
           db.tables => new.tables,
           new.marker >= db.marker,
           \A q \in Processes : process[q].phase \in Installing => new.marker = db.marker,
           Settled(db) => Settled(new),
           db.guards => new.guards,
           db.users => new.users,
           new.legacy => db.legacy,
           PhaseOK(p)'
    PROVE  StartupInv'
<1>0. /\ process \in [Processes -> [phase: Phases, version: Nat, users: BOOLEAN,
                                    legacy: BOOLEAN]]
      /\ db \in Databases
  BY DEF StartupInv, TypeOK
<1>1. \A q \in Processes : q # p => process'[q] = process[q]
  BY <1>0 DEF Goto
<1>2. \A q \in Processes : ~staged[q].open
  BY DEF Locked
<1>3. TypeOK'
  <2>1. process' \in [Processes -> [phase: Phases, version: Nat, users: BOOLEAN,
                                    legacy: BOOLEAN]]
    BY <1>0, GotoTyped
  <2> QED
    BY <2>1 DEF StartupInv, TypeOK
<1>4. ASSUME NEW q \in Processes, q # p PROVE PhaseOK(q)'
  <2> USE DEF InPhase
  <2>1. PhaseOK(q) /\ process'[q] = process[q] /\ ~staged[q].open
    BY <1>1, <1>2, <1>4 DEF StartupInv
  <2>2. db.marker \in Nat /\ new.marker \in Nat /\ process[q].version \in Nat
    BY <1>0 DEF Databases
  <2>3. process[q].phase \in Working => Supported(new)
    BY <2>1 DEF PhaseOK
  <2>4. process[q].phase = "migrate" /\ process[q].version # 0
           => new.tables /\ process[q].version \in 2..new.marker
    BY <2>1, <2>2 DEF PhaseOK
  <2>5. process[q].phase # "ddl"
    BY <2>1 DEF PhaseOK
  <2>6. process[q].phase \in Installing
           => /\ new.tables /\ new.marker = CURRENT_SCHEMA_VERSION
              /\ process[q].phase # "frozen" => Settled(new)
              /\ process[q].phase \in {"reconcile", "commit", "serving"} => new.guards
              /\ process[q].phase = "serving" => new.users
    BY <2>1 DEF PhaseOK, Installing
  <2>7. process[q].phase = "serving" => ~new.legacy
    BY <2>1 DEF PhaseOK
  <2> HIDE DEF Supported
  <2>8. db' = new /\ staged' = staged
    OBVIOUS
  <2> QED
    BY <2>1, <2>3, <2>4, <2>5, <2>6, <2>7, <2>8
       DEF PhaseOK, Supported, Installing, Settled, CutShort
<1>5. \A q \in Processes : StagedOK(q)'
  BY <1>2 DEF StagedOK
<1> QED
  BY <1>2, <1>3, <1>4, <1>5 DEF StartupInv, Whole

-----------------------------------------------------------------------------
(* The steps of a process *)

LEMMA Idling ==
    ASSUME StartupInv, NEW p \in Processes, ~InPhase(p, "ddl") PROVE ~staged[p].open
BY DEF StartupInv, StagedOK

(* A process that goes to a phase of which nothing is known, and no more   *)
LEMMA GoesNowhere ==
    ASSUME StartupInv, NEW p \in Processes, ~InPhase(p, "ddl"),
           NEW phase \in {"open", "failed"}, Goto(p, phase),
           UNCHANGED <<db, staged, crashes>>
    PROVE  StartupInv'
<1> DEFINE row == [process[p] EXCEPT !.phase = phase]
<1>1. process' = [process EXCEPT ![p] = row]
  BY DEF Goto, StartupInv, TypeOK
<1>2. /\ row \in [phase: Phases, version: Nat, users: BOOLEAN, legacy: BOOLEAN]
      /\ row.phase = phase
  BY DEF StartupInv, TypeOK, Phases
<1> HIDE DEF row
<1>3. process'[p] = row
  BY <1>1 DEF StartupInv, TypeOK
<1>4. PhaseOK(p)'
  BY <1>2, <1>3 DEF PhaseOK, InPhase, Working, Installing
<1> QED
  BY <1>1, <1>2, <1>4, Idling, OnlyProcess

LEMMA OpenStep == ASSUME StartupInv, NEW p \in Processes, Open(p) PROVE StartupInv'
<1> DEFINE phase == IF Supported(db) THEN "migrate" ELSE "failed"
           row == [process[p] EXCEPT !.version = db.marker, !.phase = phase]
<1>0. /\ db.marker \in Nat
      /\ process[p] \in [phase: Phases, version: Nat, users: BOOLEAN, legacy: BOOLEAN]
      /\ phase \in Phases
  BY DEF StartupInv, TypeOK, Databases, Phases
<1>1. process' = [process EXCEPT ![p] = row]
  BY DEF Open, StartupInv, TypeOK
<1> HIDE DEF phase
<1>2. /\ row \in [phase: Phases, version: Nat, users: BOOLEAN, legacy: BOOLEAN]
      /\ row.phase = phase /\ row.version = db.marker
  BY <1>0
<1> HIDE DEF row
<1>3. process'[p] = row /\ UNCHANGED <<db, staged, crashes>>
  BY <1>1 DEF StartupInv, TypeOK, Open
<1>4. ~InPhase(p, "ddl")
  BY DEF Open, InPhase
<1>5. PhaseOK(p)'
  <2>1. CASE Supported(db)
    <3>1. db.marker # 0 => db.tables /\ db.marker \in 2..db.marker
      BY <1>0, <2>1 DEF Supported, StartupInv, Whole
    <3> QED
      BY <1>2, <1>3, <2>1, <3>1 DEF PhaseOK, InPhase, Supported, Installing, phase
  <2>2. CASE ~Supported(db)
    BY <1>2, <1>3, <2>2 DEF PhaseOK, InPhase, Working, Installing, phase
  <2> QED
    BY <2>1, <2>2
<1> QED
  BY <1>1, <1>2, <1>3, <1>4, <1>5, Idling, OnlyProcess

LEMMA ReconcileStep == ASSUME StartupInv, NEW p \in Processes, Reconcile(p) PROVE StartupInv'
<1> DEFINE row == [process[p] EXCEPT !.users = db.users, !.legacy = db.legacy,
                                     !.phase = "commit"]
<1>0. /\ db.users \in BOOLEAN /\ db.legacy \in BOOLEAN
      /\ process[p] \in [phase: Phases, version: Nat, users: BOOLEAN, legacy: BOOLEAN]
      /\ "commit" \in Phases
  BY DEF StartupInv, TypeOK, Databases, Phases
<1>1. process' = [process EXCEPT ![p] = row]
  BY DEF Reconcile, StartupInv, TypeOK
<1>2. /\ row \in [phase: Phases, version: Nat, users: BOOLEAN, legacy: BOOLEAN]
      /\ row.phase = "commit"
  BY <1>0
<1> HIDE DEF row
<1>3. process'[p] = row /\ UNCHANGED <<db, staged, crashes>>
  BY <1>1 DEF StartupInv, TypeOK, Reconcile
<1>4. process[p].phase = "reconcile"
  BY DEF Reconcile, InPhase
<1>5. PhaseOK(p)
  BY DEF StartupInv
<1>6. PhaseOK(p)'
  BY <1>2, <1>3, <1>4, <1>5
     DEF PhaseOK, InPhase, Working, Installing, Phases, Supported
<1>7. ~InPhase(p, "ddl")
  BY <1>4 DEF InPhase
<1> QED
  BY <1>1, <1>2, <1>3, <1>6, <1>7, Idling, OnlyProcess

LEMMA MigratedStep == ASSUME StartupInv, NEW p \in Processes, Migrated(p) PROVE StartupInv'
<1> DEFINE row == [process[p] EXCEPT !.phase = "frozen"]
<1>0. /\ process[p] \in [phase: Phases, version: Nat, users: BOOLEAN, legacy: BOOLEAN]
      /\ "frozen" \in Phases /\ db.marker \in Nat
  BY DEF StartupInv, TypeOK, Phases, Databases
<1>1. process' = [process EXCEPT ![p] = row]
  BY DEF Migrated, Goto, StartupInv, TypeOK
<1>2. /\ row \in [phase: Phases, version: Nat, users: BOOLEAN, legacy: BOOLEAN]
      /\ row.phase = "frozen"
  BY <1>0
<1> HIDE DEF row
<1>3. process'[p] = row /\ UNCHANGED <<db, staged, crashes>>
  BY <1>1 DEF StartupInv, TypeOK, Migrated
<1>4. process[p].phase = "migrate" /\ process[p].version >= 9
  BY DEF Migrated, InPhase
<1>5. PhaseOK(p)
  BY DEF StartupInv
<1>6. db.tables /\ db.marker = 9
  BY <1>0, <1>4, <1>5 DEF PhaseOK, InPhase, Supported, Working, Phases
<1>7. PhaseOK(p)'
  BY <1>2, <1>3, <1>6 DEF PhaseOK, InPhase, Working, Installing, Phases, Supported
<1>8. ~InPhase(p, "ddl")
  BY <1>4 DEF InPhase
<1> QED
  BY <1>1, <1>2, <1>3, <1>7, <1>8, Idling, OnlyProcess

LEMMA CreateStep == ASSUME StartupInv, NEW p \in Processes, Create(p) PROVE StartupInv'
<1>0. ~InPhase(p, "ddl") /\ process[p].phase = "migrate" /\ "frozen" \in Phases
  BY DEF Create, InPhase, Phases
<1>1. CASE db.marker # 0
  BY <1>0, <1>1, GoesNowhere DEF Create
<1>2. CASE db.marker = 0
  <2> DEFINE new == [db EXCEPT !.tables = TRUE, !.marker = CURRENT_SCHEMA_VERSION,
                               !.added = [v \in Migrations |-> "all"]]
  <2>1. /\ db \in Databases
        /\ process \in [Processes -> [phase: Phases, version: Nat, users: BOOLEAN,
                                      legacy: BOOLEAN]]
    BY DEF StartupInv, TypeOK
  <2>2. /\ new \in Databases
        /\ new.tables /\ new.marker = 9 /\ new.added = [v \in Migrations |-> "all"]
        /\ new.frozen = db.frozen /\ new.guards = db.guards
        /\ new.users = db.users /\ new.legacy = db.legacy
    BY <2>1 DEF Databases
  <2>3. /\ ~Locked /\ db' = new /\ Goto(p, "frozen") /\ UNCHANGED <<staged, crashes>>
    BY <1>2 DEF Create
  <2> HIDE DEF new
  <2>4. Whole(new)
    <3>1. Whole(db) /\ db \in Databases
      BY <2>1 DEF StartupInv
    <3>2. db.frozen # "old"
      BY <1>2, <3>1 DEF Whole, CutShort
    <3> QED
      BY <2>2, <3>2 DEF Whole, CutShort
  <2>5. \A q \in Processes : process[q].phase \notin Installing
    BY <1>2 DEF StartupInv, PhaseOK
  <2>6. process'[p].phase = "frozen"
    BY <2>1, <2>3 DEF Goto
  <2>7. PhaseOK(p)'
    BY <2>2, <2>3, <2>6 DEF PhaseOK, InPhase, Working, Installing, Phases, Supported
  <2>8. Supported(new)
    BY <2>2 DEF Supported
  <2>9. Settled(db) => Settled(new)
    <3>1. Whole(db) /\ db \in Databases
      BY <2>1 DEF StartupInv
    <3> QED
      BY <1>2, <2>2, <3>1 DEF Settled, Whole, CutShort
  <2> QED
    BY <1>0, <1>2, <2>2, <2>3, <2>4, <2>5, <2>7, <2>8, <2>9, OnlyDatabase
<1> QED
  BY <1>1, <1>2

LEMMA InstallFrozenStep ==
    ASSUME StartupInv, NEW p \in Processes, InstallFrozen(p)
    PROVE  StartupInv'
<1> DEFINE new == [db EXCEPT !.frozen = IF db.frozen = "none" THEN "new" ELSE db.frozen]
<1>1. /\ db \in Databases
      /\ process \in [Processes -> [phase: Phases, version: Nat, users: BOOLEAN,
                                    legacy: BOOLEAN]]
  BY DEF StartupInv, TypeOK
<1>2. /\ process[p].phase = "frozen" /\ PhaseOK(p) /\ "guards" \in Phases
      /\ db.marker = 9 /\ db.tables /\ (db.frozen = "old" => CutShort(db, 4))
  BY DEF StartupInv, PhaseOK, InstallFrozen, InPhase, Installing, Whole, Phases
<1>3. /\ new \in Databases
      /\ new.tables = db.tables /\ new.marker = db.marker /\ new.added = db.added
      /\ new.frozen = (IF db.frozen = "none" THEN "new" ELSE db.frozen)
      /\ new.guards = db.guards
      /\ new.users = db.users /\ new.legacy = db.legacy
  BY <1>1, <1>2 DEF Databases
<1>4. ~Locked /\ db' = new /\ Goto(p, "guards") /\ UNCHANGED <<staged, crashes>>
  BY DEF InstallFrozen
<1> HIDE DEF new
<1>5. Whole(new) /\ Supported(new) /\ new.marker >= db.marker
  BY <1>1, <1>2, <1>3 DEF Whole, StartupInv, Supported, CutShort
<1>6. process'[p].phase = "guards"
  BY <1>1, <1>4 DEF Goto
<1>8. Settled(new)
  BY <1>1, <1>2, <1>3 DEF Settled, CutShort, Databases
<1>9. Settled(db)'
  BY <1>4, <1>8
<1>7. PhaseOK(p)'
  BY <1>2, <1>3, <1>4, <1>6, <1>9
     DEF PhaseOK, InPhase, Working, Installing, Phases, Supported
<1> QED
  BY <1>2, <1>3, <1>4, <1>5, <1>7, <1>8, OnlyDatabase

LEMMA InstallGuardsStep ==
    ASSUME StartupInv, NEW p \in Processes, InstallGuards(p)
    PROVE  StartupInv'
<1> DEFINE new == [db EXCEPT !.guards = TRUE]
<1>1. /\ db \in Databases
      /\ process \in [Processes -> [phase: Phases, version: Nat, users: BOOLEAN,
                                    legacy: BOOLEAN]]
  BY DEF StartupInv, TypeOK
<1>2. /\ process[p].phase = "guards" /\ PhaseOK(p) /\ "reconcile" \in Phases
      /\ db.marker = 9 /\ db.tables /\ Settled(db)
  BY DEF StartupInv, PhaseOK, InstallGuards, InPhase, Installing, Phases
<1>3. /\ new \in Databases
      /\ new.tables = db.tables /\ new.marker = db.marker /\ new.added = db.added
      /\ new.frozen = db.frozen /\ new.guards
      /\ new.users = db.users /\ new.legacy = db.legacy
  BY <1>1 DEF Databases
<1>4. ~Locked /\ db' = new /\ Goto(p, "reconcile") /\ UNCHANGED <<staged, crashes>>
  BY DEF InstallGuards
<1> HIDE DEF new
<1>5. Whole(new) /\ Supported(new) /\ new.marker >= db.marker
  BY <1>2, <1>3 DEF Whole, StartupInv, Supported, CutShort
<1>6. process'[p].phase = "reconcile"
  BY <1>1, <1>4 DEF Goto
<1>8. Settled(new)
  BY <1>2, <1>3 DEF Settled, CutShort
<1>9. Settled(db)'
  BY <1>4, <1>8
<1>7. PhaseOK(p)'
  BY <1>2, <1>3, <1>4, <1>6, <1>9
     DEF PhaseOK, InPhase, Working, Installing, Phases, Supported
<1> QED
  BY <1>2, <1>3, <1>4, <1>5, <1>7, <1>8, OnlyDatabase

LEMMA ReconciledStep == ASSUME StartupInv, NEW p \in Processes, Reconciled(p) PROVE StartupInv'
<1>0. /\ process[p].phase = "commit" /\ ~InPhase(p, "ddl") /\ PhaseOK(p)
      /\ "serving" \in Phases
  BY DEF StartupInv, Reconciled, InPhase, Phases
<1>1. CASE UNCHANGED db /\ Goto(p, "failed")
  BY <1>0, <1>1, GoesNowhere DEF Reconciled
<1>2. CASE /\ db' = [db EXCEPT !.users = TRUE, !.legacy = FALSE,
                               !.converted = IF process[p].legacy THEN @ + 1 ELSE @]
           /\ Goto(p, "serving")
  <2> DEFINE count == IF process[p].legacy THEN db.converted + 1 ELSE db.converted
             new == [db EXCEPT !.users = TRUE, !.legacy = FALSE, !.converted = count]
  <2>1. /\ db \in Databases
        /\ process \in [Processes -> [phase: Phases, version: Nat, users: BOOLEAN,
                                      legacy: BOOLEAN]]
    BY DEF StartupInv, TypeOK
  <2>2. /\ new \in Databases
        /\ new.tables = db.tables /\ new.marker = db.marker /\ new.added = db.added
        /\ new.frozen = db.frozen /\ new.guards = db.guards
        /\ new.users = TRUE /\ new.legacy = FALSE
    <3>1. count \in Nat
      BY <2>1 DEF Databases
    <3> HIDE DEF count
    <3> QED
      BY <2>1, <3>1 DEF Databases
  <2>3. ~Locked /\ db' = new /\ Goto(p, "serving") /\ UNCHANGED <<staged, crashes>>
    BY <1>2 DEF Reconciled
  <2> HIDE DEF new, count
  <2>4. db.marker = 9 /\ db.tables /\ Settled(db) /\ db.guards
    BY <1>0 DEF PhaseOK, Installing
  <2>5. Whole(new) /\ Supported(new) /\ new.marker >= db.marker
    BY <2>2, <2>4 DEF Whole, StartupInv, Supported, CutShort
  <2>8. Settled(new)
    BY <2>2, <2>4 DEF Settled, CutShort
  <2>6. process'[p].phase = "serving"
    BY <2>1, <2>3 DEF Goto
  <2>7. PhaseOK(p)'
    <3>1. /\ db'.tables /\ db'.marker = 9 /\ Settled(db)'
          /\ db'.guards /\ db'.users /\ ~db'.legacy
      BY <2>2, <2>3, <2>4, <2>8
    <3> QED
      BY <2>6, <3>1 DEF PhaseOK, InPhase, Installing, Supported
  <2> QED
    BY <1>0, <2>2, <2>3, <2>4, <2>5, <2>7, <2>8, OnlyDatabase
<1> QED
  BY <1>1, <1>2 DEF Reconciled

-----------------------------------------------------------------------------
(* Transactions *)

Rows == [phase: Phases, version: Nat, users: BOOLEAN, legacy: BOOLEAN]
Transactions == {NoTransaction} \cup [open: {TRUE}, db: Databases]

LEMMA OpenTransaction ==
    ASSUME TypeOK, NEW p \in Processes, staged[p].open
    PROVE  /\ staged[p] \in [open: {TRUE}, db: Databases]
           /\ staged[p].db \in Databases
<1>1. staged[p] \in Transactions
  BY DEF TypeOK, Transactions
<1>2. ~NoTransaction.open
  BY DEF NoTransaction
<1>3. staged[p] # NoTransaction
  BY <1>2
<1> QED
  BY <1>1, <1>3 DEF Transactions

(* A step of p that begins, continues or gives up its transaction          *)
LEMMA OneProcess ==
    ASSUME StartupInv, NEW p \in Processes, NEW row \in Rows, NEW transaction \in Transactions,
           process' = [process EXCEPT ![p] = row],
           staged' = [staged EXCEPT ![p] = transaction],
           db' = db, crashes' \in Nat,
           \A q \in Processes \ {p} : transaction.open => ~staged[q].open,
           StagedOK(p)', PhaseOK(p)'
    PROVE  StartupInv'
<1>1. /\ process'[p] = row /\ staged'[p] = transaction
      /\ \A q \in Processes : q # p => process'[q] = process[q] /\ staged'[q] = staged[q]
  BY DEF StartupInv, TypeOK
<1>2. TypeOK'
  BY DEF StartupInv, TypeOK, Rows, Transactions
<1>3. ASSUME NEW q \in Processes PROVE StagedOK(q)' /\ PhaseOK(q)'
  BY <1>1 DEF StartupInv, StagedOK, PhaseOK, InPhase, Whole
<1>4. \A q, r \in Processes : staged'[q].open /\ staged'[r].open => q = r
  BY <1>1 DEF StartupInv
<1> QED
  BY <1>2, <1>3, <1>4 DEF StartupInv, Whole

(* ... to a phase of which nothing is known, without a transaction         *)
LEMMA GivesUp ==
    ASSUME StartupInv, NEW p \in Processes, NEW row \in Rows,
           row.phase \in {"down", "open", "failed"},
           process' = [process EXCEPT ![p] = row], Rollback(p),
           db' = db, crashes' \in Nat
    PROVE  StartupInv'
<1>1. NoTransaction \in Transactions /\ NoTransaction.open = FALSE
  BY DEF Transactions, NoTransaction
<1>2. process'[p] = row /\ staged'[p] = NoTransaction
  BY DEF StartupInv, TypeOK, Rollback
<1>3. StagedOK(p)' /\ PhaseOK(p)'
  BY <1>1, <1>2 DEF StagedOK, PhaseOK, InPhase, Working, Installing
<1> QED
  BY <1>1, <1>3, OneProcess DEF Rollback

LEMMA FailMigrationStep ==
    ASSUME StartupInv, NEW p \in Processes, FailMigration(p)
    PROVE  StartupInv'
<1> DEFINE row == [process[p] EXCEPT !.phase = "failed"]
<1>1. row \in Rows /\ row.phase = "failed"
  BY DEF StartupInv, TypeOK, Rows, Phases
<1>2. process' = [process EXCEPT ![p] = row]
  BY DEF FailMigration, Goto, StartupInv, TypeOK
<1>3. Rollback(p) /\ db' = db /\ crashes' \in Nat
  BY DEF FailMigration, StartupInv, TypeOK
<1> HIDE DEF row
<1> QED
  BY <1>1, <1>2, <1>3, GivesUp

LEMMA CrashStep == ASSUME StartupInv, NEW p \in Processes, Crash(p) PROVE StartupInv'
<1>1. Down \in Rows /\ Down.phase = "down"
  BY DEF Down, Rows, Phases
<1>2. process' = [process EXCEPT ![p] = Down] /\ Rollback(p) /\ db' = db
  BY DEF Crash
<1>3. crashes' \in Nat
  BY DEF Crash, StartupInv, TypeOK
<1> QED
  BY <1>1, <1>2, <1>3, GivesUp

LEMMA BeginMigrationStep ==
    ASSUME StartupInv, NEW p \in Processes, BeginMigration(p)
    PROVE  StartupInv'
<1>0. /\ process[p].phase = "migrate" /\ ~InPhase(p, "ddl")
      /\ process[p].version \in Migrations /\ PhaseOK(p) /\ ~Locked
  BY DEF BeginMigration, InPhase, StartupInv
<1>1. CASE db.marker # process[p].version
  BY <1>0, <1>1, GoesNowhere DEF BeginMigration
<1>2. CASE db.marker = process[p].version
  <2> DEFINE row == [process[p] EXCEPT !.phase = "ddl"]
             transaction == [open |-> TRUE, db |-> db]
  <2>1. row \in Rows /\ row.phase = "ddl" /\ row.version = process[p].version
    BY DEF StartupInv, TypeOK, Rows, Phases
  <2>2. /\ transaction \in Transactions /\ transaction.open = TRUE /\ transaction.db = db
    BY DEF StartupInv, TypeOK, Transactions
  <2>3. process' = [process EXCEPT ![p] = row]
    BY <1>2 DEF BeginMigration, Goto, StartupInv, TypeOK
  <2>4. staged' = [staged EXCEPT ![p] = transaction] /\ db' = db /\ crashes' \in Nat
    BY <1>2 DEF BeginMigration, Begin, StartupInv, TypeOK
  <2> HIDE DEF row, transaction
  <2>5. process'[p] = row /\ staged'[p] = transaction
    BY <2>3, <2>4 DEF StartupInv, TypeOK
  <2>6. Supported(db) /\ db.tables
    BY <1>0 DEF PhaseOK, InPhase, Working, Phases
  <2>7. PhaseOK(p)'
    BY <1>0, <2>1, <2>2, <2>4, <2>5, <2>6 DEF PhaseOK, InPhase, Working, Installing, Supported
  <2>8. StagedOK(p)'
    BY <1>2, <2>1, <2>2, <2>4, <2>5, <2>6 DEF StagedOK, InPhase, StartupInv, Whole
  <2>9. \A q \in Processes : ~staged[q].open
    BY <1>0 DEF Locked
  <2> QED
    BY <2>1, <2>2, <2>3, <2>4, <2>7, <2>8, <2>9, OneProcess
<1> QED
  BY <1>1, <1>2

LEMMA AddedWhole ==
    ASSUME NEW d \in Databases, NEW v \in Migrations, Whole(d), d.marker = v
    PROVE  /\ Added(d, v) \in Databases
           /\ Whole(Added(d, v))
           /\ Added(d, v).marker = v
           /\ Added(d, v).tables = d.tables
           /\ Added(d, v).added[v] # "cut"
           /\ \A w \in Migrations : w # v => Added(d, v).added[w] = d.added[w]
<1>1. CASE d.added[v] = "none"
  <2> DEFINE new == [d EXCEPT !.added[v] = "part"]
  <2>1. /\ new \in Databases /\ new.marker = v /\ new.tables = d.tables
        /\ new.frozen = d.frozen
        /\ new.added = [d.added EXCEPT ![v] = "part"]
    BY DEF Databases
  <2>2. /\ new.added[v] = "part"
        /\ \A w \in Migrations : w # v => new.added[w] = d.added[w]
    BY <2>1 DEF Databases
  <2>3. new = Added(d, v)
    BY <1>1 DEF Added
  <2> HIDE DEF new
  <2>4. Whole(new)
    BY <2>1, <2>2, <1>1 DEF Whole, CutShort
  <2> QED
    BY <2>1, <2>2, <2>3, <2>4
<1>2. CASE d.added[v] # "none"
  <2> DEFINE frozen == IF v = 4 THEN "none" ELSE d.frozen
             new == [d EXCEPT !.added[v] = "all", !.frozen = frozen]
  <2>0. frozen \in {"none", "old", "new"}
    BY DEF Databases
  <2>3. new = Added(d, v)
    BY <1>2 DEF Added
  <2> HIDE DEF frozen
  <2>1. /\ new \in Databases /\ new.marker = v /\ new.tables = d.tables
        /\ new.frozen = frozen
        /\ new.added = [d.added EXCEPT ![v] = "all"]
    BY <2>0 DEF Databases
  <2>2. /\ new.added[v] = "all"
        /\ \A w \in Migrations : w # v => new.added[w] = d.added[w]
    BY <2>1 DEF Databases
  <2> HIDE DEF new
  <2>4. Whole(new)
    BY <2>1, <2>2 DEF Whole, CutShort, frozen
  <2> QED
    BY <2>1, <2>2, <2>3, <2>4
<1> QED
  BY <1>1, <1>2

LEMMA ExecuteStep == ASSUME StartupInv, NEW p \in Processes, Execute(p) PROVE StartupInv'
<1> DEFINE v == process[p].version
           new == Added(staged[p].db, v)
           transaction == [staged[p] EXCEPT !.db = new]
<1>0. /\ process[p].phase = "ddl" /\ v \in Migrations /\ staged[p].open
      /\ StagedOK(p) /\ PhaseOK(p)
  BY DEF Execute, InPhase, StartupInv, PhaseOK
<1>1. staged[p] \in [open: {TRUE}, db: Databases] /\ staged[p].db \in Databases
  BY <1>0, OpenTransaction DEF StartupInv
<1>2. Whole(staged[p].db) /\ staged[p].db.marker = v
  BY <1>0 DEF StagedOK
<1>3. /\ new \in Databases /\ Whole(new) /\ new.marker = v
      /\ new.tables = staged[p].db.tables
      /\ new.added[v] # "cut"
      /\ \A w \in Migrations : w # v => new.added[w] = staged[p].db.added[w]
  BY <1>0, <1>1, <1>2, AddedWhole
<1>4. staged' = [staged EXCEPT ![p].db = new] /\ UNCHANGED <<db, process, crashes>>
  BY DEF Execute, Stage
<1> HIDE DEF new
<1>5. staged' = [staged EXCEPT ![p] = transaction]
  BY <1>4 DEF StartupInv, TypeOK
<1>6. transaction \in Transactions /\ transaction.open = TRUE /\ transaction.db = new
  BY <1>1, <1>3 DEF Transactions
<1> HIDE DEF transaction
<1>7. staged'[p] = transaction
  BY <1>5 DEF StartupInv, TypeOK
<1>8. StagedOK(p)'
  BY <1>0, <1>3, <1>4, <1>6, <1>7 DEF StagedOK, InPhase, Whole
<1>9. PhaseOK(p)'
  BY <1>0, <1>4, <1>6, <1>7 DEF PhaseOK, InPhase, Working, Installing, Supported
<1>10. process[p] \in Rows /\ process' = [process EXCEPT ![p] = process[p]] /\ crashes' \in Nat
  BY <1>4 DEF StartupInv, TypeOK, Rows
<1>11. \A q \in Processes \ {p} : ~staged[q].open
  BY <1>0 DEF StartupInv
<1> QED
  BY <1>4, <1>5, <1>6, <1>8, <1>9, <1>10, <1>11, OneProcess

(* Nobody has finished its start, or is in another migration.              *)
LEMMA AdvanceStep == ASSUME StartupInv, NEW p \in Processes, Advance(p) PROVE StartupInv'
<1> DEFINE v == process[p].version
           row == [process[p] EXCEPT !.phase = "migrate", !.version = v + 1]
           new == [staged[p].db EXCEPT !.marker = v + 1]
<1>0. /\ process[p].phase = "ddl" /\ v \in Migrations /\ staged[p].open
      /\ StagedOK(p) /\ PhaseOK(p)
  BY DEF Advance, InPhase, StartupInv, PhaseOK
<1>1. staged[p].db \in Databases
  BY <1>0, OpenTransaction DEF StartupInv
<1>2. /\ Whole(staged[p].db) /\ staged[p].db.marker = v /\ staged[p].db.tables
      /\ db.marker = v /\ db.tables
  BY <1>0 DEF StagedOK, InPhase
<1>3. /\ new \in Databases /\ new.marker = v + 1
      /\ new.tables = staged[p].db.tables /\ new.added = staged[p].db.added
      /\ new.frozen = staged[p].db.frozen
  BY <1>0, <1>1 DEF Databases
<1>4. /\ db' = new /\ Rollback(p) /\ UNCHANGED crashes
      /\ process' = [process EXCEPT ![p].phase = "migrate", ![p].version = v + 1]
      /\ staged[p].db.added[v] \in {"cut", "all"}
  BY DEF Advance, TakenAsDone
<1> HIDE DEF new
<1>5. Whole(new)
  BY <1>0, <1>2, <1>3, <1>4 DEF Whole, CutShort
<1>6. Supported(new) /\ new.tables /\ v \in 2..8
  BY <1>0, <1>2, <1>3 DEF Supported
<1>7. process' = [process EXCEPT ![p] = row]
  BY <1>4 DEF StartupInv, TypeOK
<1>8. row \in Rows /\ row.phase = "migrate" /\ row.version = v + 1
  <2>1. process[p] \in Rows /\ v + 1 \in Nat /\ "migrate" \in Phases
    BY <1>0 DEF StartupInv, TypeOK, Rows, Phases
  <2> HIDE DEF v
  <2> QED
    BY <2>1 DEF Rows
<1> HIDE DEF row
<1>9. /\ process'[p] = row /\ staged'[p] = NoTransaction
      /\ \A q \in Processes : q # p => process'[q] = process[q] /\ staged'[q] = staged[q]
  BY <1>4, <1>7 DEF StartupInv, TypeOK, Rollback
<1>10. ~NoTransaction.open
  BY DEF NoTransaction
<1>11. \A q \in Processes : q # p => ~staged[q].open
  BY <1>0 DEF StartupInv
<1>12. \A q \in Processes : ~staged'[q].open
  BY <1>9, <1>10, <1>11
<1>13. \A q \in Processes : StagedOK(q)'
  BY <1>12 DEF StagedOK
<1>14. PhaseOK(p)'
  BY <1>3, <1>4, <1>6, <1>8, <1>9 DEF PhaseOK, InPhase, Installing, Supported
<1>15. ASSUME NEW q \in Processes, q # p PROVE PhaseOK(q)'
  <2>1. PhaseOK(q) /\ ~staged[q].open /\ process'[q] = process[q]
    BY <1>9, <1>11, <1>15 DEF StartupInv
  <2>2. process[q].phase \notin Installing /\ process[q].phase # "ddl"
    BY <1>2, <1>6, <2>1 DEF PhaseOK, InPhase
  <2>3. process[q].phase = "migrate" /\ process[q].version # 0
          => new.tables /\ process[q].version \in 2..new.marker
    BY <1>2, <1>3, <1>6, <2>1 DEF PhaseOK, InPhase
  <2> HIDE DEF v
  <2> QED
    BY <1>4, <1>6, <2>1, <2>2, <2>3 DEF PhaseOK, InPhase, Installing, Supported
<1>16. TypeOK'
  BY <1>3, <1>4, <1>7, <1>8 DEF StartupInv, TypeOK, Rows, Rollback
<1> QED
  BY <1>4, <1>5, <1>12, <1>13, <1>14, <1>15, <1>16 DEF StartupInv

LEMMA StartStep == ASSUME StartupInv, NEW p \in Processes, Start(p) PROVE StartupInv'
BY GoesNowhere DEF Start, InPhase

LEMMA NextInv == ASSUME StartupInv, Next PROVE StartupInv'
<1>1. PICK p \in Processes : Step(p) \/ Crash(p)
  BY DEF Next
<1>2. CASE Start(p) \/ Open(p) \/ Create(p) \/ Migrated(p)
  BY <1>2, StartStep, OpenStep, CreateStep, MigratedStep
<1>3. CASE BeginMigration(p) \/ Execute(p) \/ FailMigration(p) \/ Advance(p)
  BY <1>3, BeginMigrationStep, ExecuteStep, FailMigrationStep, AdvanceStep
<1>4. CASE InstallFrozen(p) \/ InstallGuards(p)
  BY <1>4, InstallFrozenStep, InstallGuardsStep
<1>5. CASE Reconcile(p) \/ Reconciled(p) \/ Crash(p)
  BY <1>5, ReconcileStep, ReconciledStep, CrashStep
<1> QED
  BY <1>1, <1>2, <1>3, <1>4, <1>5 DEF Step

LEMMA StartupStutter == ASSUME StartupInv, UNCHANGED vars PROVE StartupInv'
<1> USE DEF vars
<1>1. TypeOK'
  BY DEF StartupInv, TypeOK
<1>2. Whole(db)'
  BY DEF StartupInv, Whole
<1>3. ASSUME NEW p \in Processes PROVE StagedOK(p)' /\ PhaseOK(p)'
  <2>1. StagedOK(p)'
    BY DEF StartupInv, StagedOK, InPhase, Whole
  <2>2. PhaseOK(p)'
    BY DEF StartupInv, PhaseOK, InPhase, Supported
  <2> QED
    BY <2>1, <2>2
<1> QED
  BY <1>1, <1>2, <1>3 DEF StartupInv

(* The induction.                                                          *)
THEOREM StartupInvariance == Spec => []StartupInv
<1>1. StartupInv /\ [Next]_vars => StartupInv'
  BY NextInv, StartupStutter
<1> QED
  BY StartupInitInv, <1>1, PTL DEF Spec

-----------------------------------------------------------------------------
(* Every database, transaction and process has its type, for any number of *)
(* processes and of crashes.                                               *)
THEOREM StartupTyped == Spec => []TypeOK
<1>1. StartupInv => TypeOK
  BY DEF StartupInv
<1> QED
  BY StartupInvariance, <1>1, PTL

(* The marker tells what the schema is, after any crash.                   *)
THEOREM MarkerTellsTheSchema == Spec => []MarkerMatchesSchema
<1>1. StartupInv => MarkerMatchesSchema
  BY DEF StartupInv, Whole, MarkerMatchesSchema
<1> QED
  BY StartupInvariance, <1>1, PTL

(* Whoever serves finds the schema, the triggers and the data in order,    *)
(* and keeps them however many processes start after it.                   *)
THEOREM WhoeverServesIsReady == Spec => []ServingMeansReady
<1>1. StartupInv => ServingMeansReady
  <2> SUFFICES ASSUME StartupInv, NEW p \in Processes, process[p].phase = "serving"
               PROVE  /\ db.marker = CURRENT_SCHEMA_VERSION
                      /\ \A v \in Migrations : db.added[v] = "all" \/ CutShort(db, v)
                      /\ db.frozen = "new" \/ (db.frozen = "old" /\ CutShort(db, 4))
                      /\ db.guards
                      /\ db.users /\ ~db.legacy
    BY DEF ServingMeansReady, InPhase
  <2>1. PhaseOK(p) /\ Whole(db)
    BY DEF StartupInv
  <2>2. /\ db.marker = 9 /\ Settled(db) /\ db.guards
        /\ db.users /\ ~db.legacy
    BY <2>1 DEF PhaseOK, InPhase, Installing
  <2> QED
    BY <2>1, <2>2 DEF Whole, Settled
<1> QED
  BY StartupInvariance, <1>1, PTL

(* A migration that dies leaves no part of itself in the database, and     *)
(* none that passes for the whole.                                         *)
THEOREM NoPartIsLeft == Spec => MigrationsLeaveNoParts
<1>1. StartupInv /\ [Next]_vars
        => [\A v \in Migrations :
              db'.added[v] \in {"part", "cut"} => db.added[v] = db'.added[v]]_vars
  <2> SUFFICES ASSUME StartupInv, Next, NEW v \in Migrations,
                      db'.added[v] \in {"part", "cut"}
               PROVE  db.added[v] = db'.added[v]
    OBVIOUS
  <2>0. db \in Databases
    BY DEF StartupInv, TypeOK
  <2>1. PICK p \in Processes : Step(p) \/ Crash(p)
    BY DEF Next
  <2>2. CASE db' = db
    BY <2>2
  <2>3. CASE Create(p) /\ db' # db
    <3>1. db' = [db EXCEPT !.tables = TRUE, !.marker = CURRENT_SCHEMA_VERSION,
                           !.added = [w \in Migrations |-> "all"]]
      BY <2>3 DEF Create
    <3>2. db'.added = [w \in Migrations |-> "all"]
      BY <2>0, <3>1 DEF Databases
    <3> QED
      BY <3>2
  <2>4. CASE InstallFrozen(p) \/ InstallGuards(p) \/ Reconciled(p)
    <3>1. db'.added = db.added
      BY <2>0, <2>4 DEF InstallFrozen, InstallGuards, Reconciled, Databases
    <3> QED
      BY <3>1
  <2>5. CASE Advance(p)
    <3>1. /\ process[p].phase = "ddl" /\ staged[p].open
          /\ db' = [staged[p].db EXCEPT !.marker = process[p].version + 1]
      BY <2>5 DEF Advance, InPhase, StartupInv, PhaseOK
    <3>2. db'.added = staged[p].db.added
      BY <3>1, OpenTransaction DEF StartupInv, Databases
    <3>3. \/ v = process[p].version /\ staged[p].db.added[v] # "cut"
          \/ staged[p].db.added[v] = db.added[v]
      BY <3>1 DEF StartupInv, StagedOK
    <3>4. staged[p].db.added[process[p].version] # "part"
      BY <2>5 DEF Advance, TakenAsDone
    <3> QED
      BY <3>2, <3>3, <3>4
  <2> QED
    BY <2>1, <2>2, <2>3, <2>4, <2>5
       DEF Step, Start, Open, BeginMigration, Execute, FailMigration, Migrated,
           Reconcile, Crash
<1> QED
  BY StartupInvariance, <1>1, PTL DEF Spec, MigrationsLeaveNoParts

(* A database with an unsupported marker, or with none, is never written.  *)
THEOREM UnsupportedIsLeftAlone == Spec => FailsClosed
<1>1. StartupInv /\ [Next]_vars
        => [db.tables
              /\ db.marker \notin MINIMUM_MIGRATABLE_SCHEMA_VERSION .. CURRENT_SCHEMA_VERSION
              => UNCHANGED db]_vars
  <2> SUFFICES ASSUME StartupInv, Next, ~Supported(db) PROVE db' = db
    BY DEF Supported
  <2>1. PICK p \in Processes : Step(p) \/ Crash(p)
    BY DEF Next
  <2>2. process[p].phase \notin Working
    BY DEF StartupInv, PhaseOK
  <2> QED
    BY <2>1, <2>2
       DEF Step, Start, Open, Create, BeginMigration, Execute, FailMigration, Advance,
           Migrated, InstallFrozen, InstallGuards, Reconcile, Reconciled, Crash,
           InPhase, Working, Phases
<1> QED
  BY StartupInvariance, <1>1, PTL DEF Spec, FailsClosed

-----------------------------------------------------------------------------
(* Maintenance                                                             *)

Keys == {"old", "new"}
Images == [key: Keys, data: Nat, whole: BOOLEAN]
Backups == [image: Images, since: Nat, key: Keys]

BackupSteps == {"snapshot", "copying", "verify"}
BeforeRekey == {"fold", "copy", "copying", "verify", "rekey"}
AfterRekey == {"rekeying", "check", "restore", "sidecars", "replace", "restored"}
Commands ==
    [op: {"backup"}, step: BackupSteps, since: Nat, key: Keys]
        \cup [op: {"rotate"}, step: BeforeRekey \cup AfterRekey, since: Nat, key: {"old"}]

FilesTyped ==
    /\ main \in Images
    /\ wal \in Nat \cup {NoWal}
    /\ journal \in Images \cup {NoFile}
    /\ temporary \in Images \cup {NoFile}
    /\ published \in SUBSET Backups

Typed ==
    /\ FilesTyped
    /\ application \in {"running", "stopped"}
    /\ command \in Commands \cup {Idle}
    /\ committed \in Nat
    /\ outcome \in {"none", "success", "error", "unrestored", "killed"}
    /\ faults \in Nat

(* The database, between any two steps: a journal holds the same commits   *)
(* as the file it was made of, and only a stopped application leaves one.  *)
Sound ==
    /\ Recovered.whole /\ Recovered.data = committed
    /\ journal = NoFile => main.whole
    /\ journal # NoFile => main.data = committed /\ journal.data = committed
                           /\ journal.whole /\ application = "stopped"
    /\ application = "running" => wal \in {NoWal, committed} /\ outcome = "none"

Kept == \E p \in published : p.key = "old" /\ p.image.data = committed

(* A published file is complete, and never has more than what was          *)
(* committed.                                                              *)
PublishedOK ==
    \A p \in published :
        /\ p.image.whole /\ p.image.key = p.key
        /\ p.since <= p.image.data /\ p.image.data <= committed

(* The temporary file of a command that has a copy in it                   *)
CopyOK ==
    At("copying") \/ At("verify") =>
        /\ temporary # NoFile
        /\ temporary.key = command.key
        /\ command.since <= temporary.data /\ temporary.data <= committed

BackupOK ==
    command.op = "backup" =>
        /\ Recovered.key = command.key
        /\ command.since <= committed
        /\ outcome = "none"

(* The recovery copy of the rotation under way                             *)
CopyKept ==
    \E p \in published : p.since = command.since /\ p.key = "old"

RotationOK ==
    Rotating =>
        /\ application = "stopped" /\ outcome = "none"
        /\ command.since = committed
        /\ command.step # "fold" => wal = NoWal
        /\ command.step \in BeforeRekey => journal = NoFile /\ main.key = "old"
        /\ At("rekey") \/ command.step \in AfterRekey => CopyKept
        /\ At("rekeying") => journal # NoFile /\ journal.key = "old"
        /\ At("check") => journal = NoFile
        /\ At("sidecars") \/ At("replace") =>
              temporary # NoFile /\ temporary.whole /\ temporary.data = committed
        /\ At("restored") => main.whole /\ main.data = committed

OutcomeOK ==
    outcome # "none" =>
        /\ command = Idle /\ application = "stopped"
        /\ outcome = "success" => Opens("new") /\ Kept
        /\ outcome = "error" => Opens("old")
        /\ outcome = "unrestored" => Kept

MaintenanceInv ==
    /\ Typed
    /\ Sound /\ PublishedOK /\ CopyOK /\ BackupOK /\ RotationOK /\ OutcomeOK

-----------------------------------------------------------------------------
(* What the operators of the model return                                  *)

LEMMA NoFileIsNoImage == NoFile \notin Images /\ NoFile.key = "none" /\ ~NoFile.whole
BY DEF NoFile, Images, Keys

LEMMA TornFields ==
    ASSUME NEW image \in Images
    PROVE  /\ Torn(image) \in Images
           /\ Torn(image).key = image.key /\ Torn(image).data = image.data
BY DEF Torn, Images

(* Recovery takes the journal when there is one, and reads the log.        *)
Recovers ==
    /\ Recovered \in Images
    /\ journal = NoFile =>
          /\ Recovered.key = main.key /\ Recovered.whole = main.whole
          /\ Recovered.data = IF wal > main.data THEN wal ELSE main.data
    /\ journal # NoFile =>
          /\ Recovered.key = journal.key /\ Recovered.whole = journal.whole
          /\ Recovered.data = IF wal > journal.data THEN wal ELSE journal.data

LEMMA RecoveredFields == FilesTyped => Recovers
<1> SUFFICES ASSUME FilesTyped PROVE Recovers
  OBVIOUS
<1>1. PICK image \in Images :
          /\ Recovered = [image EXCEPT !.data = IF wal > @ THEN wal ELSE @]
          /\ journal = NoFile => image = main
          /\ journal # NoFile => image = journal
  BY DEF Recovered, FilesTyped
<1>2. /\ Recovered.key = image.key /\ Recovered.whole = image.whole
      /\ Recovered.data = IF wal > image.data THEN wal ELSE image.data
  BY <1>1 DEF Images
<1>3. wal > image.data => wal \in Nat
  BY DEF FilesTyped, NoWal, Images
<1>4. Recovered \in Images
  BY <1>1, <1>3 DEF Images
<1> QED
  BY <1>1, <1>2, <1>4 DEF Recovers

LEMMA RecoveredFieldsNext == FilesTyped' => Recovers'
BY RecoveredFields, PTL

(* Without a journal and a log, the file is all there is.                  *)
Folded == FilesTyped /\ journal = NoFile /\ wal = NoWal

LEMMA Clean == Folded => Recovered = main
BY DEF Folded, FilesTyped, Recovered, NoWal, NoFile, Images

LEMMA CleanNext == Folded' => (Recovered = main)'
BY Clean, PTL

LEMMA ProceedFields ==
    ASSUME command \in Commands, NEW s, Proceed(s)
    PROVE  /\ command'.op = command.op /\ command'.since = command.since
           /\ command'.key = command.key /\ command'.step = s
           /\ command.op = "backup" /\ s \in BackupSteps => command' \in Commands
           /\ command.op = "rotate" /\ s \in BeforeRekey \cup AfterRekey
                 => command' \in Commands
BY DEF Proceed, Commands

LEMMA IdleFields == Idle.op = "none" /\ Idle.step = "idle"
BY DEF Idle

LEMMA AtWork ==
    ASSUME Typed, command # Idle
    PROVE  /\ command \in Commands
           /\ command.op \in {"backup", "rotate"}
           /\ command.since \in Nat /\ command.key \in Keys
           /\ command.op = "backup" => command.step \in BackupSteps
           /\ Rotating => command.step \in BeforeRekey \cup AfterRekey /\ command.key = "old"
BY DEF Typed, Commands, Keys, Rotating

LEMMA BackupAtWork ==
    ASSUME Typed, command.op = "backup"
    PROVE  command # Idle /\ ~Rotating
BY IdleFields DEF Rotating

(* What stays when a step leaves the state alone                           *)
LEMMA SameDatabase ==
    ASSUME UNCHANGED <<main, wal, journal>> PROVE Recovered' = Recovered
BY DEF Recovered

LEMMA SameSound ==
    ASSUME Sound, UNCHANGED <<main, wal, journal, application, committed, outcome>>
    PROVE  Sound'
BY SameDatabase DEF Sound

LEMMA SamePublished ==
    ASSUME PublishedOK, UNCHANGED <<published, committed>> PROVE PublishedOK'
BY DEF PublishedOK

LEMMA EndOfCommand ==
    ASSUME command' = Idle PROVE CopyOK' /\ BackupOK' /\ RotationOK'
BY IdleFields DEF CopyOK, BackupOK, RotationOK, Rotating, At

LEMMA NoOutcomeYet ==
    ASSUME MaintenanceInv, command # Idle \/ application = "running" PROVE outcome = "none"
BY DEF MaintenanceInv, OutcomeOK

LEMMA NoOutcome ==
    ASSUME outcome' = "none" PROVE OutcomeOK'
BY DEF OutcomeOK

LEMMA BesideTheDatabase ==
    ASSUME MaintenanceInv, command # Idle, application' = application, outcome' = outcome,
           UNCHANGED <<main, wal, journal, published, committed>>
    PROVE  Sound' /\ PublishedOK' /\ OutcomeOK' /\ Recovered' = Recovered
BY SameDatabase, SameSound, SamePublished, NoOutcomeYet, NoOutcome DEF MaintenanceInv

-----------------------------------------------------------------------------
LEMMA MaintenanceInitInv == MaintenanceInit => MaintenanceInv
<1> SUFFICES ASSUME MaintenanceInit PROVE MaintenanceInv
  OBVIOUS
<1>1. Typed
  BY DEF MaintenanceInit, Typed, FilesTyped, Images, Keys
<1>2. Recovered = main
  BY <1>1, Clean DEF MaintenanceInit, Typed, Folded
<1>3. Sound
  BY <1>2 DEF MaintenanceInit, Sound
<1>4. PublishedOK
  BY DEF MaintenanceInit, PublishedOK
<1> QED
  BY <1>1, <1>3, <1>4, IdleFields
     DEF MaintenanceInit, MaintenanceInv, CopyOK, BackupOK, RotationOK, OutcomeOK, Rotating, At

(* The application *)
LEMMA WithoutJournal ==
    ASSUME MaintenanceInv, journal = NoFile
    PROVE  /\ Recovers /\ Recovered \in Images /\ Recovered.data = committed
           /\ main.data \in Nat /\ main.data <= committed /\ committed \in Nat
<1>1. main.data \in Nat /\ wal \in Int /\ committed \in Nat /\ Recovers
  BY RecoveredFields DEF MaintenanceInv, Typed, FilesTyped, Images, NoWal
<1>2. Recovered \in Images /\ Recovered.data = committed
  BY <1>1 DEF Recovers, MaintenanceInv, Sound
<1>3. Recovered.data = IF wal > main.data THEN wal ELSE main.data
  BY <1>1 DEF Recovers
<1> QED
  BY <1>1, <1>2, <1>3

LEMMA WhileRunning ==
    ASSUME MaintenanceInv, application = "running"
    PROVE  journal = NoFile /\ ~Rotating /\ outcome = "none"
BY DEF MaintenanceInv, Sound, RotationOK

LEMMA CommitStep == ASSUME MaintenanceInv, Commit PROVE MaintenanceInv'
<1> USE DEF Commit
<1>1. /\ journal = NoFile /\ ~Rotating /\ outcome = "none"
      /\ main.data <= committed /\ committed \in Nat /\ main.data \in Nat
      /\ Recovers
  BY WhileRunning, WithoutJournal
<1>2. Typed /\ Typed'
  BY DEF MaintenanceInv, Typed, FilesTyped
<1>3. Recovers'
  BY <1>2, RecoveredFieldsNext DEF Typed
<1>4. /\ Recovered'.whole = main.whole /\ Recovered'.key = main.key
      /\ Recovered'.data = IF wal' > main.data THEN wal' ELSE main.data
      /\ Recovered.whole = main.whole /\ Recovered.key = main.key
  BY <1>1, <1>3 DEF Recovers
<1>5. Recovered'.data = committed'
  BY <1>1, <1>4
<1>6. Sound'
  BY <1>1, <1>4, <1>5 DEF MaintenanceInv, Sound
<1>7. PublishedOK'
  BY <1>1, <1>2 DEF MaintenanceInv, PublishedOK, Typed, FilesTyped, Backups, Images
<1>8. CopyOK'
  BY <1>1, <1>2 DEF MaintenanceInv, CopyOK, At, Typed, FilesTyped, Images
<1>9. BackupOK'
  BY <1>1, <1>2, <1>4, AtWork, BackupAtWork DEF MaintenanceInv, BackupOK
<1>10. RotationOK' /\ OutcomeOK'
  BY <1>1 DEF RotationOK, OutcomeOK, Rotating
<1> QED
  BY <1>2, <1>6, <1>7, <1>8, <1>9, <1>10 DEF MaintenanceInv

LEMMA CheckpointStep == ASSUME MaintenanceInv, Checkpoint PROVE MaintenanceInv'
<1> USE DEF Checkpoint
<1>1. /\ journal = NoFile /\ ~Rotating /\ outcome = "none"
      /\ wal = committed /\ committed \in Nat
      /\ Recovers
  BY WhileRunning, WithoutJournal DEF MaintenanceInv, Sound
<1>2. Typed'
  BY <1>1 DEF MaintenanceInv, Typed, FilesTyped, Images
<1>3. Recovers'
  BY <1>2, RecoveredFieldsNext DEF Typed
<1>4. main'.whole = main.whole /\ main'.key = main.key /\ main'.data = committed
  BY <1>1 DEF MaintenanceInv, Typed, FilesTyped, Images
<1>5. /\ Recovered'.whole = Recovered.whole /\ Recovered'.key = Recovered.key
      /\ Recovered'.data = committed
  BY <1>1, <1>3, <1>4 DEF Recovers
<1>6. Sound'
  BY <1>1, <1>4, <1>5 DEF MaintenanceInv, Sound
<1>7. PublishedOK' /\ CopyOK'
  BY DEF MaintenanceInv, PublishedOK, CopyOK, At
<1>8. BackupOK'
  BY <1>5 DEF MaintenanceInv, BackupOK
<1>9. RotationOK' /\ OutcomeOK'
  BY <1>1 DEF RotationOK, OutcomeOK, Rotating
<1> QED
  BY <1>2, <1>6, <1>7, <1>8, <1>9 DEF MaintenanceInv

LEMMA StopStep == ASSUME MaintenanceInv, Stop PROVE MaintenanceInv'
<1> USE DEF Stop
<1>1. journal = NoFile /\ ~Rotating /\ outcome = "none" /\ Recovered \in Images
  BY WhileRunning, WithoutJournal
<1>2. Typed'
  BY <1>1 DEF MaintenanceInv, Typed, FilesTyped
<1>3. Recovered' = Recovered
  <2>1. CASE main' = Recovered /\ wal' = NoWal
    BY <1>1, <1>2, <2>1, CleanNext DEF Folded, Typed
  <2>2. CASE UNCHANGED <<main, wal>>
    BY <2>2, SameDatabase
  <2> QED
    BY <2>1, <2>2
<1>4. main' = Recovered \/ main' = main
  OBVIOUS
<1>5. Sound'
  BY <1>1, <1>3, <1>4 DEF MaintenanceInv, Sound
<1>6. PublishedOK' /\ CopyOK'
  BY DEF MaintenanceInv, PublishedOK, CopyOK, At
<1>7. BackupOK'
  BY <1>3 DEF MaintenanceInv, BackupOK
<1>8. RotationOK' /\ OutcomeOK'
  BY <1>1 DEF RotationOK, OutcomeOK, Rotating
<1> QED
  BY <1>2, <1>5, <1>6, <1>7, <1>8 DEF MaintenanceInv

LEMMA RestartStep == ASSUME MaintenanceInv, Restart PROVE MaintenanceInv'
<1> USE DEF Restart
<1>1. Recovered \in Images /\ Recovered.data = committed /\ committed \in Nat
      /\ Recovered.whole
  BY RecoveredFields DEF Recovers, MaintenanceInv, Typed, Sound
<1>2. Typed'
  BY <1>1 DEF MaintenanceInv, Typed, FilesTyped
<1>3. Recovers'
  BY <1>2, RecoveredFieldsNext DEF Typed
<1>4. /\ Recovered'.whole /\ Recovered'.data = committed
      /\ Recovered'.key = Recovered.key
  BY <1>1, <1>3 DEF Recovers
<1>5. Sound'
  BY <1>1, <1>4 DEF Sound
<1>6. PublishedOK' /\ CopyOK'
  BY DEF MaintenanceInv, PublishedOK, CopyOK, At
<1>7. BackupOK'
  BY <1>4 DEF MaintenanceInv, BackupOK
<1>8. RotationOK' /\ OutcomeOK'
  BY DEF RotationOK, OutcomeOK, Rotating
<1> QED
  BY <1>2, <1>5, <1>6, <1>7, <1>8 DEF MaintenanceInv

-----------------------------------------------------------------------------
(* Backups, and the copy that a rotation makes *)
LEMMA BeginBackupStep == ASSUME MaintenanceInv, BeginBackup PROVE MaintenanceInv'
<1> USE DEF BeginBackup, files
<1>1. ~Rotating /\ outcome = "none" /\ Recovered \in Images /\ committed \in Nat
  BY WhileRunning, WithoutJournal
<1>2. Typed'
  BY <1>1 DEF MaintenanceInv, Typed, FilesTyped, Commands, BackupSteps, Images
<1>3. Sound' /\ PublishedOK' /\ Recovered' = Recovered
  BY SameSound, SamePublished, SameDatabase DEF MaintenanceInv
<1>4. CopyOK' /\ BackupOK' /\ RotationOK' /\ OutcomeOK'
  BY <1>1, <1>3 DEF CopyOK, BackupOK, RotationOK, OutcomeOK, Rotating, At
<1> QED
  BY <1>2, <1>3, <1>4 DEF MaintenanceInv

LEMMA SnapshotStep == ASSUME MaintenanceInv, Snapshot PROVE MaintenanceInv'
<1> USE DEF Snapshot
<1>1. Typed /\ Sound /\ BackupOK /\ command # Idle /\ command.step = "snapshot"
  BY IdleFields DEF MaintenanceInv, At
<1>2. command \in Commands /\ command.op = "backup"
  BY <1>1, AtWork DEF Rotating, BeforeRekey, AfterRekey
<1>3. /\ command'.op = "backup" /\ command'.since = command.since
      /\ command'.key = command.key /\ command'.step = "copying"
      /\ command' \in Commands
  BY <1>2, ProceedFields DEF BackupSteps
<1>4. Recovered \in Images /\ Recovered.data = committed
  BY <1>1, RecoveredFields DEF Recovers, Typed, Sound
<1>5. /\ temporary' \in Images /\ temporary'.key = Recovered.key
      /\ temporary'.data = committed
  BY <1>4, TornFields
<1>6. Typed'
  BY <1>1, <1>3, <1>5 DEF Typed, FilesTyped
<1>7. Sound' /\ PublishedOK' /\ OutcomeOK' /\ Recovered' = Recovered
  BY <1>1, BesideTheDatabase
<1>8. CopyOK'
  BY <1>1, <1>2, <1>3, <1>5, NoFileIsNoImage DEF CopyOK, BackupOK, Typed
<1>9. BackupOK' /\ RotationOK'
  BY <1>1, <1>2, <1>3, <1>7 DEF BackupOK, RotationOK, Rotating
<1> QED
  BY <1>6, <1>7, <1>8, <1>9 DEF MaintenanceInv

LEMMA BeginRotationStep == ASSUME MaintenanceInv, BeginRotation PROVE MaintenanceInv'
<1> USE DEF BeginRotation
<1>1. Typed /\ Sound
  BY DEF MaintenanceInv
<1>2. /\ main' \in Images /\ main'.key = "old" /\ main'.whole
      /\ main'.data = main.data
  BY <1>1 DEF Typed, FilesTyped, Images, Keys
<1>3. Typed'
  BY <1>1, <1>2 DEF Typed, FilesTyped, Commands, BeforeRekey
<1>4. Recovered.data = committed /\ Recovers /\ Recovers'
  BY <1>1, <1>3, RecoveredFields, RecoveredFieldsNext DEF Typed, Sound
<1>5. Recovered'.whole /\ Recovered'.data = committed
  <2>1. Recovered'.whole /\ Recovered'.data = IF wal > main.data THEN wal ELSE main.data
    BY <1>2, <1>4 DEF Recovers
  <2>2. CASE journal = NoFile
    BY <1>4, <2>1, <2>2 DEF Recovers
  <2>3. CASE journal # NoFile
    BY <1>1, <1>4, <2>1, <2>3 DEF Recovers, Sound
  <2> QED
    BY <2>2, <2>3
<1>6. Sound'
  BY <1>2, <1>5 DEF Sound
<1>7. PublishedOK'
  BY SamePublished DEF MaintenanceInv
<1>8. CopyOK' /\ BackupOK' /\ OutcomeOK'
  BY DEF CopyOK, BackupOK, OutcomeOK, At
<1>9. RotationOK'
  BY <1>2 DEF RotationOK, Rotating, At, AfterRekey
<1> QED
  BY <1>3, <1>6, <1>7, <1>8, <1>9 DEF MaintenanceInv

(* What is known at a step of a rotation                                   *)
LEMMA InRotation ==
    ASSUME MaintenanceInv, command.step \in {"fold", "copy", "rekey"} \cup AfterRekey
    PROVE  /\ Typed /\ Sound /\ PublishedOK /\ RotationOK /\ Recovers
           /\ command # Idle /\ command \in Commands
           /\ Rotating /\ command.op = "rotate" /\ command.key = "old"
           /\ application = "stopped" /\ outcome = "none"
           /\ command.since = committed /\ committed \in Nat
           /\ Recovered \in Images /\ Recovered.whole /\ Recovered.data = committed
<1>1. Typed /\ Sound /\ PublishedOK /\ RotationOK /\ Recovers
  BY RecoveredFields DEF MaintenanceInv, Typed
<1>2. command # Idle
  BY IdleFields DEF AfterRekey
<1>3. command \in Commands /\ Rotating /\ command.op = "rotate"
  BY <1>1, <1>2, AtWork DEF Rotating, BackupSteps, AfterRekey
<1> QED
  BY <1>1, <1>2, <1>3, AtWork DEF RotationOK, Sound, Recovers, Typed

LEMMA FoldLogStep == ASSUME MaintenanceInv, FoldLog PROVE MaintenanceInv'
<1> USE DEF FoldLog
<1>1. command.step = "fold"
  BY DEF At
<1>2. /\ Typed /\ Sound /\ RotationOK /\ Recovers /\ command \in Commands
      /\ Rotating /\ command.op = "rotate" /\ application = "stopped"
      /\ outcome = "none" /\ command.since = committed
      /\ Recovered \in Images /\ Recovered.whole /\ Recovered.data = committed
  BY <1>1, InRotation
<1>3. journal = NoFile /\ Recovered.key = "old"
  BY <1>1, <1>2 DEF RotationOK, BeforeRekey, Recovers
<1>4. /\ command'.op = "rotate" /\ command'.since = command.since
      /\ command'.step = "copy" /\ command' \in Commands
  BY <1>2, ProceedFields DEF BeforeRekey
<1>5. Typed'
  BY <1>2, <1>4 DEF Typed, FilesTyped
<1>6. Recovered' = Recovered
  BY <1>3, <1>5, CleanNext DEF Folded, Typed
<1>7. Sound'
  BY <1>2, <1>6 DEF Sound
<1>8. PublishedOK'
  BY SamePublished DEF MaintenanceInv
<1>9. CopyOK' /\ BackupOK' /\ OutcomeOK'
  BY <1>2, <1>4 DEF CopyOK, BackupOK, OutcomeOK, At
<1>10. RotationOK'
  BY <1>2, <1>3, <1>4 DEF RotationOK, Rotating, At, AfterRekey
<1> QED
  BY <1>5, <1>7, <1>8, <1>9, <1>10 DEF MaintenanceInv

LEMMA CopyDatabaseStep == ASSUME MaintenanceInv, CopyDatabase PROVE MaintenanceInv'
<1> USE DEF CopyDatabase
<1>1. command.step = "copy"
  BY DEF At
<1>2. /\ Typed /\ RotationOK /\ command # Idle /\ command \in Commands
      /\ Rotating /\ command.op = "rotate" /\ command.key = "old"
      /\ application = "stopped" /\ outcome = "none"
      /\ command.since = committed /\ committed \in Nat /\ Recovered.data = committed
  BY <1>1, InRotation
<1>3. journal = NoFile /\ wal = NoWal /\ main.key = "old"
  BY <1>1, <1>2 DEF RotationOK, BeforeRekey
<1>4. main \in Images /\ main.data = committed
  BY <1>2, <1>3, Clean DEF Folded, Typed, FilesTyped
<1>5. /\ command'.op = "rotate" /\ command'.since = command.since
      /\ command'.key = "old" /\ command'.step = "copying" /\ command' \in Commands
  BY <1>2, ProceedFields DEF BeforeRekey
<1>6. temporary' \in Images /\ temporary'.key = "old" /\ temporary'.data = committed
  BY <1>3, <1>4, TornFields
<1>7. Typed'
  BY <1>2, <1>5, <1>6 DEF Typed, FilesTyped
<1>8. Sound' /\ PublishedOK' /\ OutcomeOK'
  BY <1>2, BesideTheDatabase
<1>9. CopyOK'
  BY <1>2, <1>5, <1>6, NoFileIsNoImage DEF CopyOK
<1>10. BackupOK' /\ RotationOK'
  BY <1>2, <1>3, <1>5 DEF BackupOK, RotationOK, Rotating, At, AfterRekey
<1> QED
  BY <1>7, <1>8, <1>9, <1>10 DEF MaintenanceInv

LEMMA EndCopyStep == ASSUME MaintenanceInv, EndCopy PROVE MaintenanceInv'
<1> USE DEF EndCopy
<1>1. /\ Typed /\ CopyOK /\ BackupOK /\ RotationOK
      /\ command # Idle /\ command.step = "copying"
  BY IdleFields DEF MaintenanceInv, At
<1>2. command \in Commands /\ command.op \in {"backup", "rotate"}
  BY <1>1, AtWork
<1>3. /\ command'.op = command.op /\ command'.since = command.since
      /\ command'.key = command.key /\ command'.step = "verify"
      /\ command' \in Commands
  BY <1>2, ProceedFields DEF BackupSteps, BeforeRekey
<1>4. temporary \in Images
  BY <1>1 DEF Typed, FilesTyped, CopyOK, At
<1>5. /\ temporary' \in Images /\ temporary'.key = temporary.key
      /\ temporary'.data = temporary.data
  BY <1>4 DEF Images
<1>6. Typed'
  BY <1>1, <1>3, <1>5 DEF Typed, FilesTyped
<1>7. Sound' /\ PublishedOK' /\ OutcomeOK' /\ Recovered' = Recovered
  BY <1>1, BesideTheDatabase
<1>8. CopyOK'
  BY <1>1, <1>3, <1>5, NoFileIsNoImage DEF CopyOK, At
<1>9. BackupOK'
  BY <1>1, <1>3, <1>7 DEF BackupOK
<1>10. RotationOK'
  BY <1>1, <1>3 DEF RotationOK, Rotating, At, BeforeRekey, AfterRekey
<1> QED
  BY <1>6, <1>7, <1>8, <1>9, <1>10 DEF MaintenanceInv

LEMMA PublishStep == ASSUME MaintenanceInv, Publish PROVE MaintenanceInv'
<1> USE DEF Publish
<1> DEFINE new == [image |-> temporary, since |-> command.since, key |-> command.key]
<1>1. /\ Typed /\ PublishedOK /\ CopyOK /\ BackupOK /\ RotationOK
      /\ command # Idle /\ command.step = "verify"
  BY IdleFields DEF MaintenanceInv, At
<1>2. /\ command \in Commands /\ command.op \in {"backup", "rotate"}
      /\ command.since \in Nat /\ command.key \in Keys
  BY <1>1, AtWork
<1>3. /\ temporary \in Images /\ temporary.whole /\ temporary.key = command.key
      /\ command.since <= temporary.data /\ temporary.data <= committed
  BY <1>1 DEF Typed, FilesTyped, CopyOK, At
<1>4. new \in Backups
  BY <1>2, <1>3 DEF Backups
<1>5. published' = published \cup {new}
  OBVIOUS
<1>6. PublishedOK'
  BY <1>1, <1>3, <1>5 DEF PublishedOK
<1>7. outcome = "none" /\ Sound'
  BY <1>1, SameSound, NoOutcomeYet DEF MaintenanceInv
<1>8. OutcomeOK'
  BY <1>7, NoOutcome
<1>9. CASE ~Rotating
  <2>1. Typed'
    BY <1>1, <1>4, <1>5, <1>9 DEF Typed, FilesTyped
  <2>2. CopyOK' /\ BackupOK' /\ RotationOK'
    BY <1>9, EndOfCommand
  <2> QED
    BY <1>6, <1>7, <1>8, <2>1, <2>2 DEF MaintenanceInv
<1>10. CASE Rotating
  <2>1. command.op = "rotate" /\ command.key = "old"
    BY <1>1, <1>10, AtWork DEF Rotating
  <2>2. /\ command'.op = "rotate" /\ command'.since = command.since
        /\ command'.step = "rekey" /\ command' \in Commands
    BY <1>2, <1>10, <2>1, ProceedFields DEF BeforeRekey
  <2>3. Typed'
    BY <1>1, <1>4, <1>5, <2>2 DEF Typed, FilesTyped
  <2>4. CopyKept'
    <3>1. new \in published' /\ new.since = command'.since /\ new.key = "old"
      BY <1>5, <2>1, <2>2
    <3> QED
      BY ONLY <3>1 DEF CopyKept
  <2>5. CopyOK' /\ BackupOK'
    BY <2>2 DEF CopyOK, BackupOK, At
  <2>6. /\ application = "stopped" /\ command.since = committed
        /\ wal = NoWal /\ journal = NoFile /\ main.key = "old"
    BY <1>1, <1>10 DEF RotationOK, BeforeRekey
  <2>7. RotationOK'
    BY <1>7, <2>2, <2>4, <2>6 DEF RotationOK, At, AfterRekey
  <2> QED
    BY <1>6, <1>7, <1>8, <2>3, <2>5, <2>7 DEF MaintenanceInv
<1> QED
  BY <1>9, <1>10

-----------------------------------------------------------------------------
(* The rekey, its failures and the restore *)
LEMMA BeginRekeyStep == ASSUME MaintenanceInv, BeginRekey PROVE MaintenanceInv'
<1> USE DEF BeginRekey
<1>1. command.step = "rekey"
  BY DEF At
<1>2. /\ Typed /\ Sound /\ RotationOK /\ command \in Commands
      /\ Rotating /\ command.op = "rotate"
      /\ application = "stopped" /\ outcome = "none" /\ command.since = committed
      /\ Recovered.whole /\ Recovered.data = committed
  BY <1>1, InRotation
<1>3. wal = NoWal /\ journal = NoFile /\ main.key = "old" /\ CopyKept
  BY <1>1, <1>2 DEF RotationOK, At, BeforeRekey
<1>4. main \in Images /\ main.whole /\ main.data = committed
  BY <1>2, <1>3, Clean DEF Folded, Typed, FilesTyped
<1>5. main' \in Images /\ main'.data = committed
  BY <1>4, TornFields
<1>6. /\ command'.op = "rotate" /\ command'.since = command.since
      /\ command'.step = "rekeying" /\ command' \in Commands
  BY <1>2, ProceedFields DEF AfterRekey
<1>7. Typed'
  BY <1>2, <1>4, <1>5, <1>6 DEF Typed, FilesTyped
<1>8. journal' = main /\ journal' # NoFile
  BY <1>4, NoFileIsNoImage
<1>9. Recovered'.whole /\ Recovered'.data = committed
  <2>1. Recovers' /\ main.data \in Nat /\ wal' = NoWal
    BY <1>3, <1>4, <1>7, RecoveredFieldsNext DEF Typed, Images
  <2>2. /\ Recovered'.whole = main.whole
        /\ Recovered'.data = IF wal' > main.data THEN wal' ELSE main.data
    BY <1>8, <2>1 DEF Recovers
  <2> QED
    BY <1>4, <2>1, <2>2 DEF NoWal
<1>10. Sound'
  BY <1>2, <1>4, <1>5, <1>8, <1>9 DEF Sound
<1>11. PublishedOK'
  BY SamePublished DEF MaintenanceInv
<1>12. CopyOK' /\ BackupOK' /\ OutcomeOK'
  BY <1>2, <1>6 DEF CopyOK, BackupOK, OutcomeOK, At
<1>13. CopyKept'
  BY <1>3, <1>6 DEF CopyKept
<1>14. RotationOK'
  BY <1>2, <1>3, <1>6, <1>8, <1>13 DEF RotationOK, Rotating, At, BeforeRekey
<1> QED
  BY <1>7, <1>10, <1>11, <1>12, <1>14 DEF MaintenanceInv

LEMMA EndRekeyStep == ASSUME MaintenanceInv, EndRekey PROVE MaintenanceInv'
<1> USE DEF EndRekey
<1>1. command.step = "rekeying"
  BY DEF At
<1>2. /\ Typed /\ Sound /\ RotationOK /\ command \in Commands
      /\ Rotating /\ command.op = "rotate"
      /\ application = "stopped" /\ outcome = "none" /\ command.since = committed
  BY <1>1, InRotation DEF AfterRekey
<1>3. wal = NoWal /\ journal # NoFile /\ main.data = committed /\ CopyKept
  BY <1>1, <1>2 DEF RotationOK, Sound, At, AfterRekey
<1>4. /\ main' \in Images /\ main'.whole /\ main'.data = committed
  BY <1>2, <1>3 DEF Typed, FilesTyped, Images, Keys
<1>5. /\ command'.op = "rotate" /\ command'.since = command.since
      /\ command'.step = "check" /\ command' \in Commands
  BY <1>2, ProceedFields DEF AfterRekey
<1>6. Typed'
  BY <1>2, <1>4, <1>5 DEF Typed, FilesTyped
<1>7. Recovered' = main'
  BY <1>3, <1>6, CleanNext DEF Folded, Typed
<1>8. Sound'
  BY <1>2, <1>4, <1>7 DEF Sound
<1>9. PublishedOK'
  BY SamePublished DEF MaintenanceInv
<1>10. CopyOK' /\ BackupOK' /\ OutcomeOK'
  BY <1>2, <1>5 DEF CopyOK, BackupOK, OutcomeOK, At
<1>11. CopyKept'
  BY <1>3, <1>5 DEF CopyKept
<1>12. RotationOK'
  BY <1>2, <1>3, <1>5, <1>11 DEF RotationOK, Rotating, At, BeforeRekey
<1> QED
  BY <1>6, <1>8, <1>9, <1>10, <1>12 DEF MaintenanceInv

(* A recovery copy has every commit: the application has been stopped      *)
(* since the rotation began.                                               *)
LEMMA RecoveryIsComplete ==
    ASSUME PublishedOK, committed \in Nat, published \in SUBSET Backups,
           NEW p \in published, p.since = committed
    PROVE  p.image.whole /\ p.image.data = committed /\ p.image.key = p.key
BY DEF PublishedOK, Backups, Images

LEMMA CopyKeptIsKept ==
    ASSUME MaintenanceInv, CopyKept, command.since = committed PROVE Kept
<1>1. PICK p \in published : p.since = command.since /\ p.key = "old"
  BY DEF CopyKept
<1>2. p.image.data = committed
  BY <1>1, RecoveryIsComplete DEF MaintenanceInv, Typed, FilesTyped
<1> QED
  BY <1>1, <1>2 DEF Kept

LEMMA SameKept ==
    ASSUME Kept, UNCHANGED <<published, committed>> PROVE Kept'
BY DEF Kept

LEMMA EndRotationStep == ASSUME MaintenanceInv, EndRotation PROVE MaintenanceInv'
<1> USE DEF EndRotation, files
<1>1. /\ Typed /\ Sound /\ RotationOK /\ application = "stopped"
      /\ command.since = committed /\ command.step = "check" /\ Rotating
  BY InRotation DEF At, AfterRekey
<1>2. Kept'
  BY <1>1, CopyKeptIsKept, SameKept DEF RotationOK, AfterRekey
<1>3. Typed'
  BY <1>1 DEF Typed, FilesTyped
<1>4. Recovered' = Recovered
  BY SameDatabase
<1>5. Sound' /\ PublishedOK'
  BY <1>1, <1>4, SamePublished DEF Sound, MaintenanceInv
<1>6. CopyOK' /\ BackupOK' /\ RotationOK'
  BY EndOfCommand
<1>7. OutcomeOK'
  BY <1>1, <1>2, <1>4 DEF OutcomeOK, Opens
<1> QED
  BY <1>3, <1>5, <1>6, <1>7 DEF MaintenanceInv

LEMMA FailEarlyStep == ASSUME MaintenanceInv, FailEarly PROVE MaintenanceInv'
<1> USE DEF FailEarly
<1>1. Typed /\ Sound /\ RotationOK /\ command # Idle
  BY IdleFields DEF MaintenanceInv
<1>2. Typed'
  BY <1>1 DEF Typed, FilesTyped
<1>3. Recovered' = Recovered /\ outcome = "none"
  BY <1>1, SameDatabase, NoOutcomeYet
<1>4. PublishedOK' /\ CopyOK' /\ BackupOK' /\ RotationOK'
  BY SamePublished, EndOfCommand DEF MaintenanceInv
<1>5. CASE ~Rotating
  <2>1. outcome' = "none"
    BY <1>3, <1>5
  <2>2. Sound' /\ OutcomeOK'
    BY <1>1, <1>3, <2>1, NoOutcome DEF Sound
  <2> QED
    BY <1>2, <1>4, <2>2 DEF MaintenanceInv
<1>6. CASE Rotating
  <2>1. application = "stopped" /\ outcome' = "error"
    BY <1>1, <1>6 DEF RotationOK
  <2>2. command.step \in BeforeRekey
    BY <1>1, <1>6, AtWork DEF BeforeRekey, AfterRekey
  <2>3. journal = NoFile /\ main.key = "old"
    BY <1>1, <1>6, <2>2 DEF RotationOK
  <2>4. Recovered.key = "old"
    BY <1>1, <2>3, RecoveredFields DEF Recovers, Typed
  <2>5. Sound'
    BY <1>1, <1>3, <2>1 DEF Sound
  <2>6. OutcomeOK'
    BY <1>1, <1>3, <2>1, <2>4 DEF OutcomeOK, Opens, Sound
  <2> QED
    BY <1>2, <1>4, <2>5, <2>6 DEF MaintenanceInv
<1> QED
  BY <1>5, <1>6

LEMMA FailRekeyStep == ASSUME MaintenanceInv, FailRekey PROVE MaintenanceInv'
<1> USE DEF FailRekey
<1>1. command.step \in AfterRekey
  BY DEF AfterRekey
<1>2. /\ Typed /\ Sound /\ RotationOK /\ command \in Commands
      /\ Rotating /\ command.op = "rotate"
      /\ application = "stopped" /\ outcome = "none" /\ command.since = committed
      /\ Recovered \in Images /\ Recovered.whole /\ Recovered.data = committed
  BY <1>1, InRotation
<1>3. wal = NoWal /\ CopyKept
  BY <1>1, <1>2 DEF RotationOK, AfterRekey
<1>4. /\ command'.op = "rotate" /\ command'.since = command.since
      /\ command'.step = "restore" /\ command' \in Commands
  BY <1>2, ProceedFields DEF AfterRekey
<1>5. Typed' /\ Sound'
  <2>1. CASE main' = [Recovered EXCEPT !.whole = TRUE] /\ journal' = NoFile
    <3>1. main' = Recovered
      BY <1>2, <2>1 DEF Images
    <3>2. FilesTyped'
      BY <1>2, <2>1, <3>1 DEF Typed, FilesTyped
    <3>3. Typed'
      BY <1>2, <1>4, <3>2 DEF Typed
    <3>4. Recovered' = main'
      BY <1>3, <2>1, <3>2, CleanNext DEF Folded
    <3> QED
      BY <1>2, <2>1, <3>1, <3>3, <3>4 DEF Sound
  <2>2. CASE UNCHANGED <<main, journal>>
    <3>1. Typed'
      BY <1>2, <1>4, <2>2 DEF Typed, FilesTyped
    <3>2. Sound'
      BY <1>2, <2>2, SameSound
    <3> QED
      BY <3>1, <3>2
  <2> QED
    BY <2>1, <2>2
<1>6. PublishedOK'
  BY SamePublished DEF MaintenanceInv
<1>7. CopyOK' /\ BackupOK' /\ OutcomeOK'
  BY <1>2, <1>4 DEF CopyOK, BackupOK, OutcomeOK, At
<1>8. CopyKept'
  BY <1>3, <1>4 DEF CopyKept
<1>9. RotationOK'
  BY <1>2, <1>3, <1>4, <1>8 DEF RotationOK, Rotating, At, BeforeRekey
<1> QED
  BY <1>5, <1>6, <1>7, <1>9 DEF MaintenanceInv

LEMMA CopyRecoveryStep == ASSUME MaintenanceInv, CopyRecovery PROVE MaintenanceInv'
<1> USE DEF CopyRecovery
<1>1. command.step = "restore"
  BY DEF At
<1>2. /\ Typed /\ RotationOK /\ PublishedOK /\ command # Idle /\ command \in Commands
      /\ Rotating /\ command.op = "rotate"
      /\ application = "stopped" /\ outcome = "none"
      /\ command.since = committed /\ committed \in Nat
  BY <1>1, InRotation DEF AfterRekey
<1>3. wal = NoWal /\ CopyKept
  BY <1>1, <1>2 DEF RotationOK, AfterRekey
<1>4. RecoveryCopy \in published /\ RecoveryCopy.since = committed
  BY <1>2, <1>3 DEF CopyKept, RecoveryCopy
<1>5. temporary'.whole /\ temporary'.data = committed /\ temporary' \in Images
  BY <1>2, <1>4, RecoveryIsComplete DEF Typed, FilesTyped, Backups
<1>6. /\ command'.op = "rotate" /\ command'.since = command.since
      /\ command'.step = "sidecars" /\ command' \in Commands
  BY <1>2, ProceedFields DEF AfterRekey
<1>7. FilesTyped'
  BY <1>2, <1>5 DEF Typed, FilesTyped
<1>8. Typed'
  BY <1>2, <1>6, <1>7 DEF Typed
<1>9. Sound' /\ PublishedOK' /\ OutcomeOK'
  BY <1>2, BesideTheDatabase
<1>10. CopyOK' /\ BackupOK'
  BY <1>6 DEF CopyOK, BackupOK, At
<1>11. CopyKept'
  BY <1>3, <1>6 DEF CopyKept
<1>12. RotationOK'
  BY <1>2, <1>3, <1>5, <1>6, <1>11, NoFileIsNoImage DEF RotationOK, Rotating, At, BeforeRekey
<1> QED
  BY <1>8, <1>9, <1>10, <1>12 DEF MaintenanceInv

LEMMA RemoveSidecarsStep == ASSUME MaintenanceInv, RemoveSidecars PROVE MaintenanceInv'
<1> USE DEF RemoveSidecars
<1>1. command.step = "sidecars"
  BY DEF At
<1>2. /\ Typed /\ RotationOK /\ command # Idle /\ command \in Commands
      /\ Rotating /\ command.op = "rotate"
      /\ application = "stopped" /\ outcome = "none" /\ command.since = committed
  BY <1>1, InRotation DEF AfterRekey
<1>3. /\ wal = NoWal /\ CopyKept
      /\ temporary # NoFile /\ temporary.whole /\ temporary.data = committed
  BY <1>1, <1>2 DEF RotationOK, AfterRekey, At
<1>4. /\ command'.op = "rotate" /\ command'.since = command.since
      /\ command'.step = "replace" /\ command' \in Commands
  BY <1>2, ProceedFields DEF AfterRekey
<1>5. Typed'
  BY <1>2, <1>4 DEF Typed, FilesTyped
<1>6. Sound' /\ PublishedOK' /\ OutcomeOK'
  BY <1>2, <1>3, BesideTheDatabase
<1>7. CopyOK' /\ BackupOK'
  BY <1>4 DEF CopyOK, BackupOK, At
<1>8. CopyKept'
  BY <1>3, <1>4 DEF CopyKept
<1>9. RotationOK'
  BY <1>2, <1>3, <1>4, <1>8 DEF RotationOK, Rotating, At, BeforeRekey
<1> QED
  BY <1>5, <1>6, <1>7, <1>9 DEF MaintenanceInv

LEMMA ReplaceStep == ASSUME MaintenanceInv, Replace PROVE MaintenanceInv'
<1> USE DEF Replace
<1>1. command.step = "replace"
  BY DEF At
<1>2. /\ Typed /\ Sound /\ RotationOK /\ Recovers /\ command # Idle /\ command \in Commands
      /\ Rotating /\ command.op = "rotate" /\ committed \in Nat
      /\ application = "stopped" /\ outcome = "none" /\ command.since = committed
  BY <1>1, InRotation DEF AfterRekey
<1>3. /\ wal = NoWal /\ CopyKept
      /\ temporary \in Images /\ temporary.whole /\ temporary.data = committed
  BY <1>1, <1>2 DEF RotationOK, AfterRekey, At, Typed, FilesTyped
<1>4. /\ command'.op = "rotate" /\ command'.since = command.since
      /\ command'.step = "restored" /\ command' \in Commands
  BY <1>2, ProceedFields DEF AfterRekey
<1>5. FilesTyped'
  BY <1>2, <1>3 DEF Typed, FilesTyped
<1>6. Typed'
  BY <1>2, <1>4, <1>5 DEF Typed
<1>7. Recovered'.whole /\ Recovered'.data = committed
  <2>1. CASE journal = NoFile
    BY <1>3, <1>5, <2>1, CleanNext DEF Folded
  <2>2. CASE journal # NoFile
    <3>1. Recovered' = Recovered
      BY <2>2 DEF Recovered
    <3> QED
      BY <1>2, <3>1 DEF Sound
  <2> QED
    BY <2>1, <2>2
<1>8. Sound'
  BY <1>2, <1>3, <1>7 DEF Sound
<1>9. PublishedOK'
  BY SamePublished DEF MaintenanceInv
<1>10. CopyOK' /\ BackupOK' /\ OutcomeOK'
  BY <1>2, <1>4 DEF CopyOK, BackupOK, OutcomeOK, At
<1>11. CopyKept'
  BY <1>3, <1>4 DEF CopyKept
<1>12. RotationOK'
  BY <1>2, <1>3, <1>4, <1>11 DEF RotationOK, Rotating, At, BeforeRekey
<1> QED
  BY <1>6, <1>8, <1>9, <1>10, <1>12 DEF MaintenanceInv

LEMMA VerifyRestoredStep == ASSUME MaintenanceInv, VerifyRestored PROVE MaintenanceInv'
<1> USE DEF VerifyRestored
<1>1. command.step = "restored"
  BY DEF At
<1>2. /\ Typed /\ Sound /\ RotationOK /\ Rotating /\ application = "stopped"
      /\ Recovered \in Images /\ Recovered.whole /\ Recovered.data = committed
  BY <1>1, InRotation DEF AfterRekey
<1>3. wal = NoWal
  BY <1>1, <1>2 DEF RotationOK
<1>4. FilesTyped'
  BY <1>2 DEF Typed, FilesTyped
<1>5. Typed'
  BY <1>2, <1>4 DEF Typed
<1>6. Recovered' = Recovered
  BY <1>3, <1>4, CleanNext DEF Folded
<1>7. Sound'
  BY <1>2, <1>6 DEF Sound
<1>8. PublishedOK' /\ CopyOK' /\ BackupOK' /\ RotationOK'
  BY SamePublished, EndOfCommand DEF MaintenanceInv
<1>9. OutcomeOK'
  BY <1>2, <1>6 DEF OutcomeOK, Opens
<1> QED
  BY <1>5, <1>7, <1>8, <1>9 DEF MaintenanceInv

LEMMA FailRestoreStep == ASSUME MaintenanceInv, FailRestore PROVE MaintenanceInv'
<1> USE DEF FailRestore
<1>1. command.step \in AfterRekey
  BY DEF AfterRekey
<1>2. /\ Typed /\ Sound /\ RotationOK /\ Rotating
      /\ application = "stopped" /\ command.since = committed
  BY <1>1, InRotation
<1>3. Kept'
  BY <1>1, <1>2, CopyKeptIsKept, SameKept DEF RotationOK
<1>4. Typed'
  BY <1>2 DEF Typed, FilesTyped
<1>5. Sound'
  BY <1>2, SameDatabase DEF Sound
<1>6. PublishedOK' /\ CopyOK' /\ BackupOK' /\ RotationOK'
  BY SamePublished, EndOfCommand DEF MaintenanceInv
<1>7. OutcomeOK'
  BY <1>2, <1>3 DEF OutcomeOK
<1> QED
  BY <1>4, <1>5, <1>6, <1>7 DEF MaintenanceInv

LEMMA KillStep == ASSUME MaintenanceInv, Kill PROVE MaintenanceInv'
<1> USE DEF Kill, files
<1>1. Typed /\ Sound /\ RotationOK /\ outcome = "none" /\ Recovered' = Recovered
  BY NoOutcomeYet, SameDatabase DEF MaintenanceInv
<1>2. Typed'
  BY <1>1 DEF Typed, FilesTyped
<1>3. Rotating => application = "stopped"
  BY <1>1 DEF RotationOK
<1>4. Sound'
  BY <1>1, <1>3 DEF Sound
<1>5. PublishedOK' /\ CopyOK' /\ BackupOK' /\ RotationOK'
  BY SamePublished, EndOfCommand DEF MaintenanceInv
<1>6. OutcomeOK'
  BY <1>1, <1>3 DEF OutcomeOK
<1> QED
  BY <1>2, <1>4, <1>5, <1>6 DEF MaintenanceInv

-----------------------------------------------------------------------------
LEMMA MaintenanceStutter ==
    ASSUME MaintenanceInv, UNCHANGED maintenanceVars
    PROVE  MaintenanceInv'
<1> USE DEF maintenanceVars, files
<1>1. Typed' /\ PublishedOK' /\ Sound' /\ Recovered' = Recovered
  BY SamePublished, SameSound, SameDatabase DEF MaintenanceInv, Typed, FilesTyped
<1>2. CopyOK' /\ BackupOK' /\ Kept' = Kept /\ CopyKept' = CopyKept
  BY <1>1 DEF MaintenanceInv, CopyOK, BackupOK, At, Kept, CopyKept
<1>3. RotationOK' /\ OutcomeOK'
  BY <1>1, <1>2 DEF MaintenanceInv, RotationOK, OutcomeOK, Rotating, At, Opens
<1> QED
  BY <1>1, <1>2, <1>3 DEF MaintenanceInv

(* The induction.                                                          *)
THEOREM MaintenanceInvariance == MaintenanceSpec => []MaintenanceInv
<1>1. MaintenanceInv /\ [MaintenanceNext]_maintenanceVars => MaintenanceInv'
  <2> SUFFICES ASSUME MaintenanceInv, [MaintenanceNext]_maintenanceVars PROVE MaintenanceInv'
    OBVIOUS
  <2>1. CASE Commit \/ Checkpoint \/ Stop \/ Restart
    BY <2>1, CommitStep, CheckpointStep, StopStep, RestartStep
  <2>2. CASE BeginBackup \/ Snapshot \/ EndCopy \/ Publish
    BY <2>2, BeginBackupStep, SnapshotStep, EndCopyStep, PublishStep
  <2>3. CASE BeginRotation \/ FoldLog \/ CopyDatabase \/ BeginRekey \/ EndRekey \/ EndRotation
    BY <2>3, BeginRotationStep, FoldLogStep, CopyDatabaseStep, BeginRekeyStep,
       EndRekeyStep, EndRotationStep
  <2>4. CASE FailEarly \/ FailRekey \/ FailRestore \/ Kill
    BY <2>4, FailEarlyStep, FailRekeyStep, FailRestoreStep, KillStep
  <2>5. CASE CopyRecovery \/ RemoveSidecars \/ Replace \/ VerifyRestored
    BY <2>5, CopyRecoveryStep, RemoveSidecarsStep, ReplaceStep, VerifyRestoredStep
  <2>6. CASE UNCHANGED maintenanceVars
    BY <2>6, MaintenanceStutter
  <2> QED
    BY <2>1, <2>2, <2>3, <2>4, <2>5, <2>6 DEF MaintenanceNext
<1> QED
  BY MaintenanceInitInv, <1>1, PTL DEF MaintenanceSpec

-----------------------------------------------------------------------------
(* Between any two steps of a backup, a rotation or a failed restore, and  *)
(* after any kill, opening the database with one of the keys finds every   *)
(* commit.                                                                 *)
THEOREM NoCommitIsLost == MaintenanceSpec => []DataRecoverable
<1>1. MaintenanceInv => DataRecoverable
  <2> SUFFICES ASSUME MaintenanceInv PROVE DataRecoverable
    OBVIOUS
  <2>1. Recovered.whole /\ Recovered.data = committed /\ Recovered \in Images
    BY RecoveredFields DEF MaintenanceInv, Sound, Typed, Recovers
  <2> QED
    BY <2>1 DEF DataRecoverable, Opens, Images, Keys
<1> QED
  BY MaintenanceInvariance, <1>1, PTL

(* A file with the name of a backup is a whole one, under the key of its   *)
(* command, with every commit from before the command.                     *)
THEOREM PublishedBackupsAreComplete == MaintenanceSpec => []BackupsAreComplete
<1>1. MaintenanceInv => BackupsAreComplete
  <2> SUFFICES ASSUME MaintenanceInv, NEW p \in published
               PROVE  p.image.whole /\ p.image.key = p.key /\ p.image.data >= p.since
    BY DEF BackupsAreComplete
  <2>1. p \in Backups /\ p.image.data \in Nat /\ p.since \in Nat
    BY DEF MaintenanceInv, Typed, FilesTyped, Backups, Images
  <2> QED
    BY <2>1 DEF MaintenanceInv, PublishedOK
<1> QED
  BY MaintenanceInvariance, <1>1, PTL

(* rotate_key reports what is true of the files.                           *)
THEOREM RotationReportsTheTruth == MaintenanceSpec => []RotationIsAllOrNothing
<1>1. MaintenanceInv => RotationIsAllOrNothing
  BY DEF MaintenanceInv, Sound, OutcomeOK, Kept, RotationIsAllOrNothing
<1> QED
  BY MaintenanceInvariance, <1>1, PTL
=============================================================================
