------------------------------- MODULE Backup -------------------------------
(***************************************************************************)
(* Backup and restore of the key-value store of aegis-server, on top of    *)
(* its checkpoints and redo log.  create_backup takes a checkpoint and     *)
(* copies the files; restore_backup writes the copy over the files of the  *)
(* running server and asks for a restart; a server that is told to stop    *)
(* takes a checkpoint and exits.  Neither handler touches the store in     *)
(* memory or the redo log.                                                 *)
(*                                                                         *)
(* There is one backup, the latest; a restore is one step.  Nothing goes   *)
(* wrong here: every file can be written, and the server ends only when it *)
(* is told to.                                                             *)
(***************************************************************************)
EXTENDS RedoLog

CONSTANT NoBackup   \* no backup, no restore

VARIABLES
    backup,     \* kv_store.json in the backup
    pending,    \* the handler whose save_to_disk is running, or ran last
    restored,   \* history: what was restored, until a client writes
    restarted   \* history: whether the server was restarted since

backupVars == <<backup, pending, restored, restarted>>

BackupInit ==
    /\ Init
    /\ backup = NoBackup
    /\ pending = "none"
    /\ restored = NoBackup
    /\ restarted = FALSE

\* The create_backup handler calls save_to_disk first.
CreateBackup ==
    /\ pending = "none"
    /\ Cut
    /\ pending' = "backup"
    /\ UNCHANGED <<backup, restored, restarted>>

\* BackupManager::create_backup, once save_to_disk has returned.
CopyFiles ==
    /\ pending = "backup"
    /\ pc = "idle"
    /\ backup' = kvFile
    /\ pending' = "none"
    /\ UNCHANGED <<vars, restored, restarted>>

\* BackupManager::restore_backup.
RestoreBackup ==
    /\ backup # NoBackup
    /\ kvFile' = backup
    /\ restored' = backup
    /\ restarted' = FALSE
    /\ UNCHANGED <<logVars, engineVars, checkpointVars, tsFile, tsCovers, historyVars>>
    /\ UNCHANGED <<backup, pending>>

\* shutdown_signal and cluster_shutdown call save_to_disk.
ShutdownSignal ==
    /\ pending = "none"
    /\ Cut
    /\ pending' = "shutdown"
    /\ UNCHANGED <<backup, restored, restarted>>

\* The process exits when its checkpoint is taken, and is started again.
ExitAndStart ==
    /\ pending = "shutdown"
    /\ pc = "idle"
    /\ Kill
    /\ pending' = "none"
    /\ restarted' = TRUE
    /\ UNCHANGED <<backup, restored>>

\* A client writes: the store is no longer to be what was restored.
ClientWrites ==
    /\ \E k \in Key : KvSet(k) \/ KvDelete(k)
    /\ restored' = NoBackup
    /\ UNCHANGED <<backup, pending, restarted>>

\* The periodic checkpoint, and the steps of every checkpoint.
CheckpointRuns ==
    /\ Cut \/ Capture \/ ListKv \/ SaveKv \/ SaveTs \/ Retire \/ RetireDone
    /\ UNCHANGED backupVars

BackupNext ==
    \/ CreateBackup \/ CopyFiles \/ RestoreBackup
    \/ ShutdownSignal \/ ExitAndStart
    \/ ClientWrites \/ CheckpointRuns

BackupSpec == BackupInit /\ [][BackupNext]_<<vars, backupVars>>

\* restore_backup answers "Please restart the server to load restored data":
\* when no client wrote meanwhile, a server restarted after it holds what was
\* restored.
RestoredIsLoaded == restored # NoBackup /\ restarted => kv = restored
=============================================================================
