------------------------------ MODULE Database ------------------------------
(***************************************************************************)
(* Opening the SQLite database: the initialization lock, the migrations in *)
(* one immediate transaction, and the erasure of the raw receipt tokens    *)
(* that schema 9 kept (store/_database_collaborators.py,                   *)
(* store/_database_initialize.py, store/migrate.py, migration 010).        *)
(*                                                                         *)
(* Processes of this version open and close the store and may die at any   *)
(* step.  Processes of the version before the erasing migration run beside *)
(* them: they read, which pins frames of the write-ahead log, and write    *)
(* raw tokens for as long as their table exists.                           *)
(***************************************************************************)
EXTENDS Integers, Sequences

CONSTANTS
    Openers,            \* processes of this version
    LegacyProcesses,    \* processes of the version before Erasing
    Latest,             \* number of the last packaged migration
    Erasing,            \* number of the migration that drops raw tokens
    StartVersions       \* schema versions the file may start with

ASSUME DatabaseAssumption ==
    /\ Latest \in Nat /\ Erasing \in 1..Latest
    /\ StartVersions \subseteq 0..Latest
    /\ "none" \notin Openers

VARIABLES
    schema,     \* committed rows: schema_migrations and the pending marker
    tokens,     \* where raw tokens still are: "main" file, "wal" file
    initLock,   \* process that holds .db.init.lock, or "none"
    writer,     \* process inside BEGIN IMMEDIATE ... COMMIT, or "none"
    opener,     \* per process: the step it is at and its uncommitted rows
    current,    \* per process: the version its transaction began with
    reading     \* legacy processes inside a read transaction

databaseVars == <<schema, tokens, initLock, writer, opener, current, reading>>

Version(rows) == Len(rows.applied)
Closed(rows) == [pc |-> "closed", rows |-> rows]

(* A file of version 0..Erasing-1 may hold tokens; a migrated one was      *)
(* left by a finished open, or by one that died before the erasure.        *)
DatabaseInit ==
    /\ schema \in {[applied |-> [i \in 1..v |-> i], pending |-> b] :
                      v \in StartVersions, b \in BOOLEAN}
    /\ schema.pending => Version(schema) >= Erasing
    /\ tokens \in SUBSET {"main", "wal"}
    /\ tokens # {} => (Version(schema) < Erasing => Version(schema) > 0)
    /\ tokens # {} => (Version(schema) >= Erasing => schema.pending)
    /\ initLock = "none" /\ writer = "none"
    /\ opener = [p \in Openers |-> Closed(schema)]
    /\ current = [p \in Openers |-> 0]
    /\ reading = {}

At(p, pc) == opener[p].pc = pc
MoveTo(p, pc) == opener' = [opener EXCEPT ![p].pc = pc]

(* Closing a connection: SQLite rolls back what is open, the lock goes.    *)
Release(p) ==
    /\ initLock' = IF initLock = p THEN "none" ELSE initLock
    /\ writer' = IF writer = p THEN "none" ELSE writer
    /\ opener' = [opener EXCEPT ![p] = Closed(schema)]
    /\ current' = [current EXCEPT ![p] = 0]

(* open_private_parent, prepare_private_database_file, the Windows guard.  *)
Prepare(p) ==
    /\ At(p, "closed")
    /\ MoveTo(p, "waiting")
    /\ UNCHANGED <<schema, tokens, initLock, writer, reading, current>>

(* private_initialization_lock: flock waits for its turn.                  *)
Lock(p) ==
    /\ At(p, "waiting") /\ initLock = "none"
    /\ initLock' = p
    /\ MoveTo(p, "begin")
    /\ UNCHANGED <<schema, tokens, writer, reading, current>>

(* BEGIN IMMEDIATE, then current_version.                                  *)
BeginMigrations(p) ==
    /\ At(p, "begin") /\ writer = "none"
    /\ writer' = p
    /\ opener' = [opener EXCEPT ![p] = [pc |-> "migrating", rows |-> schema]]
    /\ current' = [current EXCEPT ![p] = Version(schema)]
    /\ UNCHANGED <<schema, tokens, initLock, reading>>

(* One pending migration and its schema_migrations row.                    *)
NextMigration(rows) == Version(rows) + 1

ApplyMigration(p) ==
    LET rows == opener[p].rows
        v == NextMigration(rows)
    IN  /\ At(p, "migrating") /\ Version(rows) < Latest
        /\ opener' = [opener EXCEPT ![p].rows =
                         [applied |-> Append(rows.applied, v),
                          pending |-> rows.pending \/ v = Erasing]]
        /\ UNCHANGED <<schema, tokens, initLock, writer, reading, current>>

(* What the transaction did is added to what is there when it commits.     *)
CommitMigrations(p) ==
    LET rows == opener[p].rows
    IN  /\ At(p, "migrating") /\ Version(rows) = Latest
        /\ schema' = [applied |-> schema.applied \o SubSeq(rows.applied, current[p] + 1, Latest),
                      pending |-> schema.pending \/ rows.pending]
        /\ writer' = "none"
        /\ MoveTo(p, "check")
        /\ current' = [current EXCEPT ![p] = 0]
        /\ UNCHANGED <<tokens, initLock, reading>>

(* Mutation: the marker is deleted where it is read.                       *)
CheckPendingClearing(p) ==
    /\ At(p, "check")
    /\ MoveTo(p, IF schema.pending THEN "erase" ELSE "secure")
    /\ schema' = [schema EXCEPT !.pending = FALSE]
    /\ UNCHANGED <<tokens, initLock, writer, reading, current>>

(* _complete_pending_receipt_erasure up to its early return.               *)
CheckPending(p) ==
    /\ At(p, "check")
    /\ MoveTo(p, IF schema.pending THEN "erase" ELSE "secure")
    /\ UNCHANGED <<schema, tokens, initLock, writer, reading, current>>

(* PRAGMA wal_checkpoint(TRUNCATE).  It waits for the writer and for every *)
(* reader up to the busy timeout; while one of them stays it may have      *)
(* copied the frames into the main file, but it does not empty the log.    *)
CheckpointBlocked == reading # {} \/ writer # "none"

CheckpointTruncates(p) ==
    /\ At(p, "erase") /\ ~CheckpointBlocked
    /\ tokens' = {}
    /\ MoveTo(p, "clear")
    /\ UNCHANGED <<schema, initLock, writer, reading, current>>

(* busy or frames left: ReceiptErasurePendingError closes the connection.  *)
CheckpointBusy(p) ==
    /\ At(p, "erase") /\ CheckpointBlocked
    /\ tokens' \in {tokens, tokens \ {"main"}}
    /\ Release(p)
    /\ UNCHANGED <<schema, reading>>

(* DELETE FROM migration_maintenance, an automatic transaction.            *)
ClearMarker(p) ==
    /\ At(p, "clear") /\ writer = "none"
    /\ schema' = [schema EXCEPT !.pending = FALSE]
    /\ MoveTo(p, "secure")
    /\ UNCHANGED <<tokens, initLock, writer, reading, current>>

(* The identity and sidecar checks, the end of the lock: the Store exists. *)
Expose(p) ==
    /\ At(p, "secure")
    /\ initLock' = "none"
    /\ MoveTo(p, "open")
    /\ UNCHANGED <<schema, tokens, writer, reading, current>>

Close(p) ==
    /\ At(p, "open")
    /\ Release(p)
    /\ UNCHANGED <<schema, tokens, reading>>

(* An OSError, sqlite3.Error or UnsafeDatabasePathError on the way, or the *)
(* death of the process: the transaction and the lock are gone with it.    *)
Abandon(p) ==
    /\ opener[p].pc \notin {"closed", "open"}
    /\ Release(p)
    /\ UNCHANGED <<schema, tokens, reading>>

(* The earlier version reads, and leases with raw tokens while it can.     *)
LegacyRead(l) ==
    /\ l \notin reading /\ reading' = reading \union {l}
    /\ UNCHANGED <<schema, tokens, initLock, writer, opener, current>>

LegacyReadEnds(l) ==
    /\ l \in reading /\ reading' = reading \ {l}
    /\ UNCHANGED <<schema, tokens, initLock, writer, opener, current>>

LegacyLease ==
    /\ writer = "none" /\ Version(schema) \in 1..(Erasing - 1)
    /\ tokens' = tokens \union {"wal"}
    /\ UNCHANGED <<schema, initLock, writer, opener, reading, current>>

DatabaseNext ==
    \/ \E p \in Openers :
        \/ Prepare(p) \/ Lock(p) \/ BeginMigrations(p) \/ ApplyMigration(p)
        \/ CommitMigrations(p) \/ CheckPending(p) \/ CheckpointTruncates(p)
        \/ CheckpointBusy(p) \/ ClearMarker(p) \/ Expose(p) \/ Close(p)
        \/ Abandon(p)
    \/ \E l \in LegacyProcesses : LegacyRead(l) \/ LegacyReadEnds(l)
    \/ LegacyLease

DatabaseSpec == DatabaseInit /\ [][DatabaseNext]_databaseVars

-----------------------------------------------------------------------------

(* No process works with the store while a raw token of schema 9 is still  *)
(* in the main file or in the log: "Checkpoint deleted v9 receipts before  *)
(* exposing the migrated store".                                           *)
ExposedOnlyErased ==
    \A p \in Openers : At(p, "open") => tokens = {}

(* Whatever dies and whenever, the durable marker outlives the tokens, so  *)
(* that the next open resumes the erasure.                                 *)
ErasureRemembered ==
    Version(schema) >= Erasing /\ tokens # {} => schema.pending

(* Every migration is committed once, in order, by whichever process comes *)
(* first, and none without all that follow it: a process that had read the *)
(* version before another one committed would add its migrations again     *)
(* (apply_migrations reads it inside BEGIN IMMEDIATE).                     *)
MigratedOnce ==
    /\ schema.applied = [i \in 1..Version(schema) |-> i]
    /\ Version(schema) \in StartVersions \union {Latest}

(* The three together: whoever dies, reads or races, migrations are whole  *)
(* and no store is handed out before its old tokens are gone.              *)
ErasureInv == MigratedOnce /\ ErasureRemembered /\ ExposedOnlyErased
=============================================================================
