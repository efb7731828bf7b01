---------------------------- MODULE Installation ----------------------------
(***************************************************************************)
(* Installing a staged bundle: install_staged_and_open and install_inner   *)
(* of edit/commit.rs with the replacement and append strategies of         *)
(* edit/commit/rename.rs and edit/commit/append.rs.                        *)
(*                                                                         *)
(* pc is the next file system call; mem is the TransactionJournal value    *)
(* the process holds; at is the position in a loop that does not advance   *)
(* mem.installed; recovering tells the clean-up and journal code, shared   *)
(* with recovery, who called it.                                           *)
(***************************************************************************)
EXTENDS Volume

VARIABLES pc, mem, at, recovering

process == <<pc, mem, at, recovering>>

Goto(label) == pc' = label /\ UNCHANGED <<mem, at, recovering>>
GotoAt(label, index) == pc' = label /\ at' = index /\ UNCHANGED <<mem, recovering>>

-----------------------------------------------------------------------------
(* write_journal: journal.tmp is written and flushed, renamed over          *)
(* journal.json, and the transaction directory synced.                      *)

\* The in-memory journal moves to a phase and is written out.
Record(phase, installed) ==
  mem' = [phase |-> phase, installed |-> installed] /\ pc' = "journal_create"

\* As if recovery took a rollback for finished once its intent is durable.
AfterJournalTooFar ==
  CASE mem.phase = "BackingUp" ->
         IF \E o \in Output : Kind[o] = "append" THEN "reserve" ELSE "back_up"
    [] mem.phase = "Installing" -> IF mem.installed = 0 THEN "stage" ELSE "install"
    [] mem.phase = "Validating" -> "validate"
    [] OTHER -> "cleanup"

\* Where the code goes on once the journal it wrote is durable.
AfterJournal ==
  CASE mem.phase = "BackingUp" ->
         IF \E o \in Output : Kind[o] = "append" THEN "reserve" ELSE "back_up"
    [] mem.phase = "Installing" -> IF mem.installed = 0 THEN "stage" ELSE "install"
    [] mem.phase = "Validating" -> "validate"
    [] mem.phase = "RollingBack" -> "restore"
    [] OTHER -> "cleanup"

JournalCreate ==
  /\ pc = "journal_create"
  /\ Write(JournalTemporary, "present")
  /\ Goto("journal_rename")

JournalRename ==
  /\ pc = "journal_rename"
  /\ PublishJournal(mem)
  /\ Goto("journal_sync")

\* As if write_journal returned once the journal is renamed.
JournalSyncForgotten ==
  /\ pc = "journal_sync"
  /\ Goto(AfterJournal)
  /\ UNCHANGED volume

JournalSync ==
  /\ pc = "journal_sync"
  /\ SyncTransaction({})
  /\ Goto(AfterJournal)

WriteJournal == JournalCreate \/ JournalRename \/ JournalSync

-----------------------------------------------------------------------------
(* Preparation.                                                             *)

\* The generation is the one the bundle was staged from, and creating the
\* directory is what excludes a second installation.
Begin ==
  /\ pc = "idle"
  /\ AllOld
  /\ live[Transaction] = "absent"
  /\ Write(Transaction, "present")
  /\ pc' = "create_sync"
  /\ UNCHANGED <<mem, at, recovering>>

BeginSync ==
  /\ pc = "create_sync"
  /\ SyncDevice
  /\ Record("BackingUp", 0)
  /\ UNCHANGED <<at, recovering>>

\* append::reserve_recovery_space
ReserveSpace ==
  /\ pc = "reserve"
  /\ live[Reserve] = "absent"
  /\ Write(Reserve, "present")
  /\ Goto("reserve_sync")

ReserveSync ==
  /\ pc = "reserve_sync"
  /\ SyncTransaction({})
  /\ Goto("back_up")

\* rename::prepare_backup_path makes every directory that leads to a backup
\* durable before any original can move into it.
NeedsBackups == \E o \in Output : Kind[o] = "replace"

CreateBackupDirectory ==
  /\ pc = "back_up"
  /\ NeedsBackups
  /\ live[BackupDirectory] = "absent"
  /\ Write(BackupDirectory, "present")
  /\ Goto("back_up_sync")

BackupDirectorySync ==
  /\ pc = "back_up_sync"
  /\ SyncTransaction({})
  /\ Goto("back_up")

\* No output is replaced before the generation is verified a second time.
Recheck ==
  /\ pc = "back_up"
  /\ NeedsBackups => live[BackupDirectory] = "present"
  /\ \A o \in Output : live[Backup(o)] = "absent"
  /\ AllOld
  /\ Record("Installing", 0)
  /\ UNCHANGED <<volume, at, recovering>>

Prepare == \/ BeginSync \/ ReserveSpace \/ ReserveSync
           \/ CreateBackupDirectory \/ BackupDirectorySync \/ Recheck

-----------------------------------------------------------------------------
(* One output after the other, in manifest order.  mem.installed counts the *)
(* outputs whose intent is recorded; the last of them is in flight.         *)

Following == mem.installed + 1
Current == mem.installed

\* append::prepare: the suffix is durable on the device before the intent.
SpoolCreate ==
  /\ pc = "stage"
  /\ Following \in Output /\ Kind[Following] = "append"
  /\ live[Spool(Following)] = "absent"
  /\ Write(Spool(Following), "partial")
  /\ Goto("spool_fill")

SpoolFill ==
  /\ pc = "spool_fill"
  /\ Write(Spool(Following), "new")
  /\ Goto("spool_sync")

SpoolSync ==
  /\ pc = "spool_sync"
  /\ SyncTransaction({})
  /\ Goto("intent")

\* The journal counts an output before its live name is touched.
Intend ==
  /\ \/ pc = "stage" /\ Following \in Output /\ Kind[Following] # "append"
     \/ pc = "intent"
  /\ Record("Installing", Following)
  /\ UNCHANGED <<volume, at, recovering>>

Installed ==
  IF Current < Outputs THEN Goto("stage") ELSE GotoAt("delete", 1)

\* write_installation_temporary
TemporaryCreate ==
  /\ pc = "install"
  /\ Kind[Current] # "append"
  /\ Write(Temporary(Current), "partial")
  /\ Goto("temporary_fill")

TemporaryFill ==
  /\ pc = "temporary_fill"
  /\ Write(Temporary(Current), "new")
  /\ Goto(IF Kind[Current] = "new" THEN "publish" ELSE "temporary_sync")

TemporarySync ==
  /\ pc = "temporary_sync"
  /\ Sync(InParent(Current))
  /\ Goto("preserve")

\* rename::install_replacement moves the verified original into backup/ and
\* makes its new name durable before the removal of the old one.
Preserve ==
  /\ pc = "preserve"
  /\ live[Target(Current)] = "old"
  /\ live[Backup(Current)] = "absent"
  /\ Rename(Target(Current), Backup(Current))
  /\ Goto("preserve_sync")

\* As if the removal of the original were flushed before its new name.
PreserveSyncSwapped ==
  /\ pc = "preserve_sync"
  /\ Sync(InParent(Current))
  /\ Goto("removal_sync")

PreserveSync ==
  /\ pc = "preserve_sync"
  /\ Sync(Backups)
  /\ Goto("removal_sync")

RemovalSync ==
  /\ pc = "removal_sync"
  /\ Sync(InParent(Current))
  /\ Goto("publish")

Publish ==
  /\ pc = "publish"
  /\ Rename(Temporary(Current), Target(Current))
  /\ Goto("publish_sync")

\* As if the parent of an installed file were left to a later sync.
PublishSyncForgotten ==
  /\ pc \in {"publish_sync", "append_sync"}
  /\ Installed
  /\ UNCHANGED volume

PublishSync ==
  /\ pc \in {"publish_sync", "append_sync"}
  /\ Sync(InParent(Current))
  /\ Installed

\* append::install grows the verified original in place.
AppendSome ==
  /\ pc = "install"
  /\ Kind[Current] = "append"
  /\ live[Target(Current)] = "old"
  /\ live[Spool(Current)] = "new"
  /\ Write(Target(Current), "partial")
  /\ Goto("append_rest")

AppendRest ==
  /\ pc = "append_rest"
  /\ Write(Target(Current), "new")
  /\ Goto("append_sync")

InstallOutput ==
  \/ SpoolCreate \/ SpoolFill \/ SpoolSync \/ Intend
  \/ TemporaryCreate \/ TemporaryFill \/ TemporarySync
  \/ Preserve \/ PreserveSync \/ RemovalSync
  \/ Publish \/ PublishSync
  \/ AppendSome \/ AppendRest

-----------------------------------------------------------------------------
(* Media deletion, validation, commitment.                                  *)

DeleteMedia ==
  /\ pc = "delete" /\ at \in Deletion
  /\ Remove({Media(at)})
  /\ GotoAt("delete", at + 1)

\* Mutant of DeletionSync: the unlinks are left to be written whenever they are.
DeletionUnsynced ==
  /\ pc = "delete" /\ at \notin Deletion
  /\ Record("Validating", Outputs)
  /\ UNCHANGED <<volume, at, recovering>>

DeletionSync ==
  /\ pc = "delete" /\ at \notin Deletion
  /\ Sync(Medias)
  /\ Record("Validating", Outputs)
  /\ UNCHANGED <<at, recovering>>

Validate ==
  /\ pc = "validate"
  /\ AllNew
  /\ \A d \in Deletion : live[Media(d)] = "absent"
  /\ Record("Committed", Outputs)
  /\ UNCHANGED <<volume, at, recovering>>

Finish == DeleteMedia \/ DeletionSync \/ Validate

-----------------------------------------------------------------------------
(* remove_transaction_directory: everything but the journal in name order,  *)
(* a sync after each, the journal last, and then the directory.             *)

Rank(n) == CASE n \in {Spool(o) : o \in Output} -> n[2] - Outputs
             [] n = BackupDirectory -> 1
             [] n = JournalTemporary -> 2
             [] OTHER -> 3

Remaining == {n \in Entries : live[n] # "absent"}
First(n) == n \in Remaining /\ \A m \in Remaining : Rank(n) <= Rank(m)

CleanupEntry ==
  /\ pc = "cleanup"
  /\ \E n \in Entries : First(n) /\ n # BackupDirectory /\ Remove({n})
  /\ Goto("cleanup_sync")

\* remove_dir_all takes the files of backup/ one by one.
CleanupBackup ==
  /\ pc = "cleanup"
  /\ First(BackupDirectory)
  /\ \E n \in Backups : live[n] # "absent" /\ Remove({n})
  /\ UNCHANGED process

CleanupBackupDirectory ==
  /\ pc = "cleanup"
  /\ First(BackupDirectory)
  /\ \A n \in Backups : live[n] = "absent"
  /\ Remove({BackupDirectory})
  /\ Goto("cleanup_sync")

CleanupSync ==
  /\ pc = "cleanup_sync"
  /\ SyncTransaction({})
  /\ Goto("cleanup")

CleanupJournal ==
  /\ pc = "cleanup"
  /\ Remaining = {}
  /\ RemoveJournal
  /\ Goto("remove_directory")

CleanupDirectory ==
  /\ pc = "remove_directory"
  /\ Write(Transaction, "absent")
  /\ Goto("remove_sync")

CleanupDone ==
  /\ pc = "remove_sync"
  /\ SyncDevice
  /\ pc' = "idle" /\ mem' = NoJournal /\ at' = 0 /\ recovering' = FALSE

Cleanup == \/ CleanupEntry \/ CleanupBackup \/ CleanupBackupDirectory \/ CleanupSync
           \/ CleanupJournal \/ CleanupDirectory \/ CleanupDone
=============================================================================
