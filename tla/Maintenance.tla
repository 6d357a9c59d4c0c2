------------------------------ MODULE Maintenance ------------------------------
(***************************************************************************)
(* scripts/database_maintenance.py: key rotation of the stopped            *)
(* application's database and online backup of the running one, as steps   *)
(* on files.  Every step may fail with an exception, and the process may   *)
(* be killed between any two.                                              *)
(*                                                                         *)
(* A file is an image: its key, the commits it contains, and whether it is *)
(* whole.  Commits go to the write-ahead log first; a rekey rewrites every *)
(* page under a rollback journal that keeps the old image.                 *)
(***************************************************************************)
EXTENDS Integers

CONSTANTS MaxCommits, MaxFaults    \* bounds

MaintenanceAssumption == MaxCommits \in Nat /\ MaxFaults \in Nat

VARIABLES
    main,        \* the database file
    wal,         \* commits up to the end of its -wal file, or NoFile
    journal,     \* the image in its -journal file, or NoFile
    temporary,   \* the temporary file of the command, or NoFile
    published,   \* the finished backups
    application, \* "running", "stopped"
    command,     \* the maintenance command under way
    committed,   \* commits of the application so far
    outcome,     \* how the last key rotation ended
    faults

files == <<main, wal, journal, temporary, published>>
maintenanceVars == <<files, application, command, committed, outcome, faults>>

NoFile == [key |-> "none", data |-> -1, whole |-> FALSE]
NoWal == -1
Idle == [op |-> "none", step |-> "idle"]
Rotating == command.op = "rotate"

Torn(image) == [image EXCEPT !.whole = FALSE]

(* What opening the database finds: a hot journal is rolled back first,    *)
(* then the log is read.                                                   *)
Recovered ==
    LET image == IF journal # NoFile THEN journal ELSE main
    IN  [image EXCEPT !.data = IF wal > @ THEN wal ELSE @]

Opens(key) == Recovered.whole /\ Recovered.key = key

MaintenanceInit ==
    /\ main = [key |-> "old", data |-> 0, whole |-> TRUE]
    /\ wal = NoWal /\ journal = NoFile /\ temporary = NoFile
    /\ published = {}
    /\ application = "running"
    /\ command = Idle
    /\ committed = 0
    /\ outcome = "none"
    /\ faults = 0

-----------------------------------------------------------------------------
(* The application: commits, checkpoints, clean stops, crashes, restarts   *)

Commit ==
    /\ application = "running"
    /\ committed < MaxCommits
    /\ committed' = committed + 1
    /\ wal' = committed + 1
    /\ UNCHANGED <<main, journal, temporary, published, application, command, outcome, faults>>

Checkpoint ==
    /\ application = "running" /\ wal # NoWal
    /\ main' = [main EXCEPT !.data = wal]
    /\ UNCHANGED <<wal, journal, temporary, published, application, command, committed,
                   outcome, faults>>

(* The last connection to close folds the log in and removes it; a killed  *)
(* application leaves it.                                                  *)
Stop ==
    /\ application = "running"
    /\ application' = "stopped"
    /\ \/ /\ main' = Recovered /\ wal' = NoWal
          /\ UNCHANGED faults
       \/ /\ faults < MaxFaults /\ faults' = faults + 1
          /\ UNCHANGED <<main, wal>>
    /\ UNCHANGED <<journal, temporary, published, command, committed, outcome>>

(* The operator starts the application with whichever key opens the file;  *)
(* never during a rotation.                                                *)
Restart ==
    /\ application = "stopped" /\ ~Rotating
    /\ \E key \in {"old", "new"} : Opens(key)
    /\ application' = "running"
    /\ main' = Recovered /\ wal' = committed /\ journal' = NoFile
    /\ outcome' = "none"
    /\ UNCHANGED <<temporary, published, command, committed, faults>>

-----------------------------------------------------------------------------
At(step) == command.step = step
Proceed(step) == command' = [command EXCEPT !.step = step]

(* create_backup, while the application runs *)
BeginBackup ==
    /\ command = Idle /\ application = "running"
    /\ command' = [op |-> "backup", step |-> "snapshot", since |-> committed,
                   key |-> Recovered.key]
    /\ UNCHANGED <<files, application, committed, outcome, faults>>

(* source.backup(destination): a snapshot of the moment it begins *)
Snapshot ==
    /\ At("snapshot")
    /\ temporary' = Torn(Recovered)
    /\ Proceed("copying")
    /\ UNCHANGED <<main, wal, journal, published, application, committed, outcome, faults>>

(* rotate_key, on the stopped application *)
BeginRotation ==
    /\ command = Idle /\ application = "stopped"
    /\ Opens("old")
    /\ main' = [main EXCEPT !.whole = TRUE, !.key = "old"] /\ journal' = NoFile
    /\ command' = [op |-> "rotate", step |-> "fold", since |-> committed, key |-> "old"]
    /\ outcome' = "none"
    /\ UNCHANGED <<wal, temporary, published, application, committed, faults>>

(* Mutants: the log is discarded, or is left beside the copied file. *)
DropLog ==
    /\ At("fold")
    /\ wal' = NoWal /\ Proceed("copy")
    /\ UNCHANGED <<main, journal, temporary, published, application, committed, outcome, faults>>

LeaveLog ==
    /\ At("fold")
    /\ Proceed("copy")
    /\ UNCHANGED <<files, application, committed, outcome, faults>>

(* wal_checkpoint(TRUNCATE) and journal_mode = DELETE *)
FoldLog ==
    /\ At("fold")
    /\ main' = Recovered /\ wal' = NoWal
    /\ Proceed("copy")
    /\ UNCHANGED <<journal, temporary, published, application, committed, outcome, faults>>

CopyDatabase ==
    /\ At("copy")
    /\ temporary' = Torn(main)
    /\ Proceed("copying")
    /\ UNCHANGED <<main, wal, journal, published, application, committed, outcome, faults>>

EndCopy ==
    /\ At("copying")
    /\ temporary' = [temporary EXCEPT !.whole = TRUE]
    /\ Proceed("verify")
    /\ UNCHANGED <<main, wal, journal, published, application, committed, outcome, faults>>

(* verify_database, remove_sidecars, os.replace *)
Publish ==
    /\ At("verify")
    /\ temporary.whole /\ temporary.key = command.key
    /\ published' = published \cup {[image |-> temporary, since |-> command.since,
                                     key |-> command.key]}
    /\ temporary' = NoFile
    /\ IF Rotating THEN Proceed("rekey") ELSE command' = Idle
    /\ UNCHANGED <<main, wal, journal, application, committed, outcome, faults>>

BeginRekey ==
    /\ At("rekey")
    /\ journal' = main
    /\ main' = Torn(main)
    /\ Proceed("rekeying")
    /\ UNCHANGED <<wal, temporary, published, application, committed, outcome, faults>>

EndRekey ==
    /\ At("rekeying")
    /\ main' = [main EXCEPT !.key = "new", !.whole = TRUE]
    /\ journal' = NoFile
    /\ Proceed("check")
    /\ UNCHANGED <<wal, temporary, published, application, committed, outcome, faults>>

(* cipher_integrity_check, and verify_database with the new key *)
EndRotation ==
    /\ At("check")
    /\ Opens("new")
    /\ outcome' = "success"
    /\ command' = Idle
    /\ UNCHANGED <<files, application, committed, faults>>

-----------------------------------------------------------------------------
(* Exceptions.  Before the rekey the temporary file is discarded.          *)
FailEarly ==
    /\ faults < MaxFaults /\ faults' = faults + 1
    /\ command.step \in {"snapshot", "fold", "copy", "copying", "verify"}
    /\ temporary' = NoFile
    /\ outcome' = IF Rotating THEN "error" ELSE outcome
    /\ command' = Idle
    /\ UNCHANGED <<main, wal, journal, published, application, committed>>

(* Mutant: the failure is only reported. *)
FailRekeyOnly ==
    /\ faults < MaxFaults /\ faults' = faults + 1
    /\ command.step \in {"rekeying", "check"}
    /\ outcome' = "error" /\ command' = Idle
    /\ UNCHANGED <<files, application, committed>>

(* After it has begun, connection.close() rolls the rekey back, unless     *)
(* that fails too and leaves the journal, and restore_database begins.     *)
FailRekey ==
    /\ faults < MaxFaults /\ faults' = faults + 1
    /\ command.step \in {"rekeying", "check"}
    /\ \/ /\ main' = [Recovered EXCEPT !.whole = TRUE] /\ journal' = NoFile
       \/ UNCHANGED <<main, journal>>
    /\ Proceed("restore")
    /\ UNCHANGED <<wal, temporary, published, application, committed, outcome>>

RecoveryCopy ==
    CHOOSE p \in published : p.since = command.since /\ p.key = "old"

CopyRecovery ==
    /\ At("restore")
    /\ temporary' = RecoveryCopy.image
    /\ Proceed("sidecars")
    /\ UNCHANGED <<main, wal, journal, published, application, committed, outcome, faults>>

(* remove_sidecars: not the -journal file *)
RemoveSidecars ==
    /\ At("sidecars")
    /\ wal' = NoWal
    /\ Proceed("replace")
    /\ UNCHANGED <<main, journal, temporary, published, application, committed, outcome, faults>>

(* os.replace *)
Replace ==
    /\ At("replace")
    /\ main' = temporary /\ temporary' = NoFile
    /\ Proceed("restored")
    /\ UNCHANGED <<wal, journal, published, application, committed, outcome, faults>>

(* verify_database with the old key: a journal that was left is rolled     *)
(* back into the restored file.                                            *)
VerifyRestored ==
    /\ At("restored")
    /\ Opens("old")
    /\ main' = Recovered /\ journal' = NoFile
    /\ outcome' = "error"
    /\ command' = Idle
    /\ UNCHANGED <<wal, temporary, published, application, committed, faults>>

FailRestore ==
    /\ faults < MaxFaults /\ faults' = faults + 1
    /\ command.step \in {"restore", "sidecars", "replace", "restored"}
    /\ temporary' = NoFile
    /\ outcome' = "unrestored"
    /\ command' = Idle
    /\ UNCHANGED <<main, wal, journal, published, application, committed>>

(* The process is killed, and leaves the files as they are. *)
Kill ==
    /\ faults < MaxFaults /\ faults' = faults + 1
    /\ command # Idle
    /\ command' = Idle
    /\ outcome' = IF Rotating THEN "killed" ELSE outcome
    /\ UNCHANGED <<files, application, committed>>

MaintenanceNext ==
    \/ Commit \/ Checkpoint \/ Stop \/ Restart
    \/ BeginBackup \/ Snapshot
    \/ BeginRotation \/ FoldLog \/ CopyDatabase
    \/ EndCopy \/ Publish
    \/ BeginRekey \/ EndRekey \/ EndRotation
    \/ FailEarly \/ FailRekey \/ CopyRecovery \/ RemoveSidecars \/ Replace \/ VerifyRestored
    \/ FailRestore \/ Kill

MaintenanceSpec == MaintenanceInit /\ [][MaintenanceNext]_maintenanceVars

-----------------------------------------------------------------------------
(* Whatever step fails or is the last, opening the database with one of    *)
(* the keys finds every commit.                                            *)
DataRecoverable ==
    /\ \E key \in {"old", "new"} : Opens(key)
    /\ Recovered.data = committed

(* A file with the name of a backup is whole, opens with the key that the  *)
(* command was given, and has every commit from before the command began.  *)
BackupsAreComplete ==
    \A p \in published :
        p.image.whole /\ p.image.key = p.key /\ p.image.data >= p.since

(* rotate_key succeeds with the new key and a copy under the old one; it   *)
(* reports an error with the database under the old key, with every        *)
(* commit; when even the restore failed, the recovery copy has them.       *)
RotationIsAllOrNothing ==
    LET Kept == \E p \in published : p.key = "old" /\ p.image.data = committed
    IN  /\ outcome = "success" => Opens("new") /\ Recovered.data = committed /\ Kept
        /\ outcome = "error" => Opens("old") /\ Recovered.data = committed
        /\ outcome = "unrestored" => Kept
=============================================================================
