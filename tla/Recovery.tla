------------------------------- MODULE Recovery -------------------------------
(***************************************************************************)
(* The database file across releases, crashes and restores.                *)
(* MigrationRunnerService (migration-runner.service.ts) brings the schema  *)
(* up to date at boot, one transaction per migration; BackupService        *)
(* (backup.service.ts) seals the database and the .env into one file per   *)
(* day and writes them back; CredentialsService.set                        *)
(* (credentials.service.ts) rewrites the .env.  A file is written in place *)
(* and the process can stop while it is.                                   *)
(***************************************************************************)
EXTENDS Integers, FiniteSets

CONSTANTS
    MigrationCount,  \* directories of prisma/migrations, in their order
    DayCount,      \* a backup's file is named after its day
    Backups,       \* calls of createBackup under way
    Passphrases,   \* of 12 characters or more; createBackup refuses the others
    MaxData, MaxEnv, MaxCrashes, MaxRestores   \* bounds

ASSUME RecoveryAssumption ==
    /\ {MigrationCount, MaxData, MaxCrashes, MaxRestores} \subseteq Nat
    /\ {DayCount, MaxEnv} \subseteq Nat \ {0}

Migrations == 1..MigrationCount
Days == 1..DayCount

VARIABLES
    db,        \* the SQLite file
    env,       \* the .env file: its version, 0 when there is none, -1 when cut short
    copies,    \* <file>.backup-<ms>: the databases and .env files that restores have kept
    backups,   \* the sealed file of each day
    sealing,   \* createBackup, between reading the files and writing the result
    restore,   \* applyPayload: where it is, and what it writes
    shipped,   \* migrations the running release brings
    process,   \* "down", "migrating", "up"
    today, crashes, restores,
    moments,   \* history: what the two files held at one time
    replaced,  \* history: the ones they have written over
    rebooted   \* history: no restore since the last boot

recoveryVars == <<db, env, copies, backups, sealing, restore, shipped, process, today, crashes,
                  restores, moments, replaced, rebooted>>
fileVars == <<db, env, moments>>
restoreVars == <<copies, restore, restores, replaced, rebooted>>
processVars == <<shipped, process, today, crashes>>

\* ran[m]: how often the script of m has run; history: the rows of _migration_history.
NoFile == [file |-> "none", data |-> 0, ran |-> [m \in Migrations |-> 0], history |-> {}]
CutShort == [NoFile EXCEPT !.file = "garbage"]
NoBackup == [file |-> "none", pass |-> "", db |-> NoFile, env |-> 0]
NotSealing == [pc |-> "idle", day |-> 0, payload |-> NoBackup]
NotRestoring == [pc |-> "idle", payload |-> NoBackup]
NoneKept == [dbs |-> {}, envs |-> {}]

RecoveryInit ==
    /\ db = NoFile /\ env \in {0, 1} /\ copies = NoneKept
    /\ backups = [d \in Days |-> NoBackup]
    /\ sealing = [b \in Backups |-> NotSealing] /\ restore = NotRestoring
    /\ shipped \in {1..n : n \in Migrations}
    /\ process = "down" /\ today = 1 /\ crashes = 0 /\ restores = 0
    /\ moments = {<<db, env>>} /\ replaced = NoneKept /\ rebooted = TRUE

\* What the files hold after a step is something they held at one time.
Moment == moments' = moments \cup {<<db', env'>>}

-----------------------------------------------------------------------------
(* Boot *)

\* runMigrations opens the file, or creates it; better-sqlite3 throws on garbage.
OpenDatabase ==
    /\ process = "down" /\ db.file # "garbage"
    /\ db' = [db EXCEPT !.file = "whole"]
    /\ process' = "migrating" /\ rebooted' = TRUE
    /\ UNCHANGED <<env, copies, backups, sealing, restore, restores, replaced, shipped, today,
                   crashes>>
    /\ Moment

Pending == shipped \ db.history
NextMigration == CHOOSE m \in Pending : \A k \in Pending : m <= k

\* A stopped process takes every call under way with it.
Stops ==
    /\ process' = "down" /\ crashes' = crashes + 1 /\ crashes < MaxCrashes
    /\ sealing' = [b \in Backups |-> NotSealing] /\ restore' = NotRestoring

\* Mutant: the script and its row are written one after the other.
ApplyMigrationUntransacted ==
    /\ process = "migrating" /\ Pending # {}
    /\ \/ /\ db' = [db EXCEPT !.ran[NextMigration] = @ + 1,
                          !.history = @ \cup {NextMigration}]
          /\ UNCHANGED <<sealing, restore, process, crashes>>
       \/ db' = [db EXCEPT !.ran[NextMigration] = @ + 1] /\ Stops
    /\ UNCHANGED <<env, backups, copies, restores, replaced, rebooted, shipped, today>>
    /\ Moment

\* One transaction: the script and its row.
ApplyMigration ==
    /\ process = "migrating" /\ Pending # {}
    /\ db' = [db EXCEPT !.ran[NextMigration] = @ + 1, !.history = @ \cup {NextMigration}]
    /\ UNCHANGED <<env, backups, sealing, restoreVars, processVars>>
    /\ Moment

\* A script that fails is rolled back, and the process does not start.
MigrationFails ==
    /\ process = "migrating" /\ Pending # {} /\ crashes < MaxCrashes
    /\ process' = "down" /\ crashes' = crashes + 1
    /\ UNCHANGED <<fileVars, backups, sealing, restoreVars, shipped, today>>

StartServing ==
    /\ process = "migrating" /\ Pending = {}
    /\ process' = "up"
    /\ UNCHANGED <<fileVars, backups, sealing, restoreVars, shipped, today, crashes>>

ServerStops ==
    /\ process # "down" /\ Stops
    /\ UNCHANGED <<fileVars, backups, copies, restores, replaced, rebooted, shipped, today>>

\* The next release adds a migration behind the others.
Upgrade ==
    /\ process = "down" /\ shipped # Migrations
    /\ shipped' = shipped \cup {Cardinality(shipped) + 1}
    /\ UNCHANGED <<fileVars, backups, sealing, restoreVars, process, today, crashes>>

-----------------------------------------------------------------------------
(* The running platform *)

\* What applyPayload does, it does without an await.
Idle == process = "up" /\ restore.pc \in {"idle", "opening"}

WriteData ==
    /\ Idle /\ db.data < MaxData
    /\ db' = [db EXCEPT !.data = @ + 1]
    /\ UNCHANGED <<env, backups, sealing, restoreVars, processVars>>
    /\ Moment

\* set(): the whole file is read and written again.
WriteCredential ==
    /\ Idle /\ env' \in {v \in 1..MaxEnv : v > env}
    /\ UNCHANGED <<db, backups, sealing, restoreVars, processVars>>
    /\ Moment
WriteCredentialStops ==
    /\ Idle /\ env' = -1 /\ Stops
    /\ UNCHANGED <<db, backups, copies, restores, replaced, rebooted, shipped, today>>
    /\ Moment

DayPasses ==
    /\ Idle /\ today + 1 \in Days /\ today' = today + 1
    /\ UNCHANGED <<fileVars, backups, sealing, restoreVars, shipped, process, crashes>>

-----------------------------------------------------------------------------
(* createBackup *)

\* The name and both files are read before the key is derived.
CollectPayload(b, pass) ==
    /\ Idle /\ sealing[b].pc = "idle"
    /\ sealing' = [sealing EXCEPT ![b] =
           [pc |-> "sealing", day |-> today,
            payload |-> [file |-> "whole", pass |-> pass, db |-> db, env |-> env]]]
    /\ UNCHANGED <<fileVars, backups, restoreVars, processVars>>

\* The file of the day is written over, whichever call comes last.
WriteBackup(b) ==
    /\ Idle /\ sealing[b].pc = "sealing"
    /\ backups' = [backups EXCEPT ![sealing[b].day] = sealing[b].payload]
    /\ sealing' = [sealing EXCEPT ![b] = NotSealing]
    /\ UNCHANGED <<fileVars, restoreVars, processVars>>
WriteBackupStops(b) ==
    /\ Idle /\ sealing[b].pc = "sealing"
    /\ backups' = [backups EXCEPT ![sealing[b].day] = [NoBackup EXCEPT !.file = "garbage"]]
    /\ Stops
    /\ UNCHANGED <<fileVars, copies, restores, replaced, rebooted, shipped, today>>

-----------------------------------------------------------------------------
(* restoreBackup *)

\* decrypt() throws on a file cut short and on another passphrase.
Opens(d, pass) == backups[d].file = "whole" /\ backups[d].pass = pass

RestoreBackup(d, pass) ==
    /\ Idle /\ restore.pc = "idle" /\ restores < MaxRestores /\ Opens(d, pass)
    /\ restore' = [pc |-> "opening", payload |-> backups[d]] /\ restores' = restores + 1
    /\ UNCHANGED <<fileVars, backups, sealing, copies, replaced, rebooted, processVars>>

\* The key is derived, and what was read is opened.
ApplyPayload ==
    /\ restore.pc = "opening" /\ restore' = [restore EXCEPT !.pc = "copyDb"]
    /\ UNCHANGED <<fileVars, backups, sealing, copies, restores, replaced, rebooted, processVars>>

CopyDatabase ==
    /\ restore.pc = "copyDb"
    /\ copies' = [copies EXCEPT !.dbs = @ \cup {db}]
    /\ restore' = [restore EXCEPT !.pc = "writeDb"]
    /\ UNCHANGED <<fileVars, backups, sealing, restores, replaced, rebooted, processVars>>

\* A backup without a .env leaves the one that is there.
WriteDatabase ==
    /\ restore.pc = "writeDb"
    /\ db' = restore.payload.db
    /\ restore' = IF restore.payload.env = 0 THEN NotRestoring
                  ELSE [restore EXCEPT !.pc = "copyEnv"]
    /\ replaced' = [replaced EXCEPT !.dbs = @ \cup {db}] /\ rebooted' = FALSE
    /\ UNCHANGED <<env, backups, sealing, copies, restores, processVars>>
    /\ Moment
\* writeFileSync empties the file first.
WriteDatabaseStops ==
    /\ restore.pc = "writeDb"
    /\ db' \in {NoFile, CutShort} /\ replaced' = [replaced EXCEPT !.dbs = @ \cup {db}] /\ Stops
    /\ UNCHANGED <<env, backups, copies, restores, rebooted, shipped, today>>
    /\ Moment

CopyEnv ==
    /\ restore.pc = "copyEnv"
    /\ copies' = [copies EXCEPT !.envs = @ \cup ({env} \ {0})]
    /\ restore' = [restore EXCEPT !.pc = "writeEnv"]
    /\ UNCHANGED <<fileVars, backups, sealing, restores, replaced, rebooted, processVars>>

EnvReplaced == replaced' = [replaced EXCEPT !.envs = @ \cup ({env} \ {0})]
WriteEnv ==
    /\ restore.pc = "writeEnv"
    /\ env' = restore.payload.env /\ EnvReplaced
    /\ restore' = NotRestoring
    /\ UNCHANGED <<db, backups, sealing, copies, restores, rebooted, processVars>>
    /\ Moment
WriteEnvStops ==
    /\ restore.pc = "writeEnv"
    /\ env' = -1 /\ EnvReplaced /\ Stops
    /\ UNCHANGED <<db, backups, copies, restores, rebooted, shipped, today>>
    /\ Moment

-----------------------------------------------------------------------------
RecoveryNext ==
    \/ OpenDatabase \/ ApplyMigration \/ MigrationFails \/ StartServing \/ ServerStops \/ Upgrade
    \/ WriteData \/ WriteCredential \/ WriteCredentialStops \/ DayPasses
    \/ \E b \in Backups :
          WriteBackup(b) \/ WriteBackupStops(b) \/ \E pass \in Passphrases : CollectPayload(b, pass)
    \/ \E d \in Days, pass \in Passphrases : RestoreBackup(d, pass)
    \/ ApplyPayload \/ CopyDatabase \/ WriteDatabase \/ WriteDatabaseStops
    \/ CopyEnv \/ WriteEnv \/ WriteEnvStops

RecoverySpec == RecoveryInit /\ [][RecoveryNext]_recoveryVars

-----------------------------------------------------------------------------
(* Properties *)

RecoveryTypeOK ==
    /\ db \in [file : {"none", "garbage", "whole"}, data : 0..MaxData,
               ran : [Migrations -> Nat], history : SUBSET Migrations]
    /\ env \in -1..MaxEnv
    /\ shipped \subseteq Migrations /\ process \in {"down", "migrating", "up"}
    /\ \A b \in Backups : sealing[b].pc \in {"idle", "sealing"}
    /\ restore.pc \in {"idle", "opening", "copyDb", "writeDb", "copyEnv", "writeEnv"}
    /\ today \in Days /\ crashes \in 0..MaxCrashes /\ restores \in 0..MaxRestores

\* Whatever crash, failed script or restore came between, each script has run
\* once on the database if its row is there and never if it is not, and no
\* migration is there without those before it.
SchemaIsItsHistory ==
    \A m \in Migrations :
        /\ db.ran[m] = IF m \in db.history THEN 1 ELSE 0
        /\ m \in db.history => \A k \in Migrations : k < m => k \in db.history

\* A process that serves has every migration of its release, until somebody
\* restores an older database under it.
ServesMigrated == (process = "up" /\ rebooted) => shipped \subseteq db.history

\* What a restore has written over is kept whole beside it, even if the process
\* stopped in the middle of the restore.
ReplacedIsKept == replaced.dbs \subseteq copies.dbs /\ replaced.envs \subseteq copies.envs

\* A backup holds a database and a .env that were there at the same time,
\* however long the key took to derive and whatever was written meanwhile.
BackupIsOneMoment ==
    \A d \in Days : backups[d].file = "whole" => <<backups[d].db, backups[d].env>> \in moments
=============================================================================
