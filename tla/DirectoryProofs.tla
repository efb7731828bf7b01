--------------------------- MODULE DirectoryProofs ---------------------------
(***************************************************************************)
(* Proofs about the transaction directory, whatever the number and kind of *)
(* outputs: no hidden temporary file outlives it (NoDebris), and the       *)
(* transaction implements the abstract installation.                       *)
(***************************************************************************)
EXTENDS DirectoryInvariant, InstallTransactionProofs

-----------------------------------------------------------------------------
(* What a call does to the names it is not about.                           *)

\* A name is read as before, and is at most more certain than before.
Leaves(n) == live'[n] = live[n] /\ disk'[n] \in {disk[n], {live[n]}}

\* A step that leaves every name but some.
Disturbs(names) == \A n \in Name \ names : Leaves(n)

\* Writing a file disturbs no other.
LEMMA WriteDisturbs ==
  ASSUME VolumeTypeOK, NEW n \in Name, NEW content \in Content, Write(n, content)
  PROVE  Disturbs({n})
BY WriteEffect DEF KeptBut, Disturbs, Leaves

\* Unlinking files disturbs no other.
LEMMA RemoveDisturbs ==
  ASSUME VolumeTypeOK, NEW names \in SUBSET Name, Remove(names)
  PROVE  Disturbs(names)
BY RemoveEffect DEF KeptBut, Disturbs, Leaves

\* Renaming a file disturbs its two names.
LEMMA RenameDisturbs ==
  ASSUME VolumeTypeOK, NEW from \in Name, NEW to \in Name, from # to, Rename(from, to)
  PROVE  Disturbs({from, to})
BY RenameEffect DEF KeptBut, Disturbs, Leaves

\* Syncing disturbs nothing.
LEMMA SyncDisturbs ==
  ASSUME VolumeTypeOK, NEW names, Sync(names) \/ SyncTransaction(names) \/ SyncDevice
  PROVE  Disturbs({})
<1>1. PICK flushed : disk' = Flushed(flushed)
  BY DEF Sync, SyncTransaction, SyncDevice
<1>2. live' = live
  BY DEF Sync, SyncTransaction, SyncDevice
<1> QED BY <1>1, <1>2 DEF Flushed, Disturbs, Leaves

\* Publishing the journal disturbs the file it is renamed from.
LEMMA PublishDisturbs ==
  ASSUME VolumeTypeOK, NEW content, PublishJournal(content)
  PROVE  Disturbs({JournalTemporary})
BY DEF PublishJournal, VolumeTypeOK, Disturbs, Leaves

\* Leaving the volume alone disturbs nothing.
LEMMA UnchangedDisturbs ==
  ASSUME UNCHANGED volume
  PROVE  Disturbs({})
BY DEF volume, Disturbs, Leaves

\* Removing the journal disturbs no name.
LEMMA RemoveJournalDisturbs ==
  ASSUME RemoveJournal
  PROVE  Disturbs({})
BY DEF RemoveJournal, Disturbs, Leaves

\* What disturbs few names disturbs no more than many.
LEMMA DisturbsMore ==
  ASSUME NEW some, NEW more, some \subseteq more, Disturbs(some)
  PROVE  Disturbs(more)
BY DEF Disturbs

-----------------------------------------------------------------------------
(* The actions, by what they may disturb.                                   *)

\* The names inside the transaction directory, and the media.
Inside == Backups \cup Entries \cup Medias

\* The calls that change files of the transaction or media, or only sync.
InsideCall ==
  \/ WriteJournal \/ Prepare
  \/ SpoolCreate \/ SpoolFill \/ SpoolSync \/ Intend
  \/ TemporarySync \/ PreserveSync \/ RemovalSync \/ PublishSync \/ Finish
  \/ CleanupEntry \/ CleanupBackup \/ CleanupBackupDirectory \/ CleanupSync
  \/ CleanupJournal \/ CleanupDone
  \/ Recover \/ RecoverNothing \/ RecoverScaffold \/ RecoverAccepted \/ Refuse
  \/ CleanJournal \/ Release \/ ReleaseSync \/ ParentsSync
  \/ RemoveNewSync \/ RollbackIntent \/ RestoredSync \/ ConsumedSync
  \/ KeepOriginal \/ TruncateSync \/ Restored
  \/ Stop \/ FailInstall

\* The calls that change a target.
TargetCall ==
  Preserve \/ Publish \/ AppendSome \/ AppendRest \/ RemoveNew \/ RestoreBackup \/ Truncate

\* The calls that change a temporary and no target.
TemporaryCall == TemporaryCreate \/ TemporaryFill \/ CleanTemporary \/ FailNewFile

\* Every step is one of these, comes or goes with the directory, or is a loss
\* of power.
LEMMA NextCases ==
  ASSUME [Next]_vars
  PROVE  \/ InsideCall \/ TargetCall \/ TemporaryCall
         \/ Begin \/ CleanupDirectory \/ PowerLoss \/ UNCHANGED vars
BY DEF Next, Call, Work, InstallOutput, Cleanup, RecoveryStep, Clean, RollBack,
   InsideCall, TargetCall, TemporaryCall

\* The files of the transaction and the media are inside, and nothing else is.
LEMMA InsideNames ==
  /\ Inside \subseteq Name
  /\ \A o \in Output : /\ Target(o) \notin Inside /\ Temporary(o) \notin Inside
                       /\ Backup(o) \in Inside /\ Spool(o) \in Inside
  /\ Transaction \notin Inside
  /\ {JournalTemporary, BackupDirectory, Reserve} \subseteq Inside
  /\ \A d \in Deletion : Media(d) \in Inside
BY DEF Inside, Name, Backups, Entries, Medias, Target, Temporary, Backup, Spool, Media,
   Transaction, BackupDirectory, JournalTemporary, Reserve

USE DEF Preparing, Writing, Staging, Spooling, Filled, Placed, Replacing,
        CleaningUp, Cleaning, Removing, Returned, Restoring, Positioned

\* The calls inside the directory disturb neither targets nor temporaries nor
\* the directory itself.
LEMMA InsideDisturbs == ASSUME IInv, InsideCall PROVE Disturbs(Inside)
<1>1. VolumeTypeOK
  BY DEF IInv, TypeOK
<1>2. CASE UNCHANGED volume
  BY <1>2, UnchangedDisturbs DEF Disturbs
<1>3. ASSUME NEW names, Sync(names) \/ SyncTransaction(names) \/ SyncDevice
      PROVE  Disturbs(Inside)
  BY <1>1, <1>3, SyncDisturbs DEF Disturbs
<1>4. ASSUME NEW n \in Inside, NEW content \in Content, Write(n, content)
      PROVE  Disturbs(Inside)
  BY <1>1, <1>4, WriteDisturbs, InsideNames DEF Disturbs
<1>5. ASSUME NEW names \in SUBSET Inside, Remove(names)
      PROVE  Disturbs(Inside)
  BY <1>1, <1>5, RemoveDisturbs, InsideNames DEF Disturbs
<1>6. CASE WriteJournal
  BY <1>1, <1>3, <1>4, <1>6, PublishDisturbs, InsideNames
  DEF WriteJournal, JournalCreate, JournalRename, JournalSync, Content, Disturbs
<1>7. CASE Prepare
  BY <1>2, <1>3, <1>4, <1>7, InsideNames
  DEF Prepare, BeginSync, ReserveSpace, ReserveSync, CreateBackupDirectory, BackupDirectorySync,
      Recheck, Content
<1>8. CASE SpoolCreate \/ SpoolFill \/ SpoolSync \/ Intend
  <2>1. pc \in Spooling => Following \in Output
    BY VolumeAssumption DEF IInv, TypeOK, Located, Following, Journal, Output
  <2> QED
    BY <1>2, <1>3, <1>4, <1>8, <2>1, InsideNames
    DEF SpoolCreate, SpoolFill, SpoolSync, Intend, Content
<1>9. CASE TemporarySync \/ PreserveSync \/ RemovalSync \/ PublishSync
  BY <1>3, <1>9 DEF TemporarySync, PreserveSync, RemovalSync, PublishSync
<1>10. CASE Finish
  <2>1. DeleteMedia => {Media(at)} \in SUBSET Inside
    BY InsideNames DEF DeleteMedia
  <2> QED
    BY <1>2, <1>3, <1>5, <1>10, <2>1 DEF Finish, DeleteMedia, DeletionSync, Validate
<1>11. CASE \/ CleanupEntry \/ CleanupBackup \/ CleanupBackupDirectory \/ CleanupSync
            \/ CleanupJournal \/ CleanupDone
  <2>1. \A n \in Entries \cup Backups : {n} \in SUBSET Inside
    BY DEF Inside
  <2>2. BackupDirectory \in Entries
    BY DEF Entries
  <2> QED
    BY <1>3, <1>5, <1>11, <2>1, <2>2, RemoveJournalDisturbs
    DEF CleanupEntry, CleanupBackup, CleanupBackupDirectory, CleanupSync, CleanupJournal,
        CleanupDone, Disturbs
<1>12. CASE Recover \/ RecoverNothing \/ RecoverScaffold \/ RecoverAccepted \/ Refuse
  <2>1. {JournalTemporary, BackupDirectory} \in SUBSET Inside
    BY InsideNames
  <2> QED
    BY <1>2, <1>5, <1>12, <2>1 DEF Recover, RecoverNothing, RecoverScaffold, RecoverAccepted, Refuse
<1>13. CASE CleanJournal \/ Release \/ ReleaseSync \/ ParentsSync
  <2>1. {JournalTemporary} \in SUBSET Inside /\ \A n \in Present(Expendable) : {n} \in SUBSET Inside
    BY InsideNames DEF Present, Expendable
  <2> QED
    BY <1>3, <1>5, <1>13, <2>1 DEF CleanJournal, Release, ReleaseSync, ParentsSync
<1>14. CASE RemoveNewSync \/ RollbackIntent \/ RestoredSync \/ ConsumedSync \/ TruncateSync \/ Restored
  BY <1>2, <1>3, <1>14
  DEF RemoveNewSync, RollbackIntent, RestoredSync, ConsumedSync, TruncateSync, Restored
<1>15. CASE KeepOriginal
  BY <1>3, <1>15 DEF KeepOriginal
<1>16. CASE Stop \/ FailInstall
  BY <1>2, <1>16 DEF Stop, FailInstall
<1> QED
  BY <1>6, <1>7, <1>8, <1>9, <1>10, <1>11, <1>12, <1>13, <1>14, <1>15, <1>16 DEF InsideCall

\* The calls that change a target leave the directory, and all the temporaries
\* but the one that is published.
LEMMA TargetCallDisturbs ==
  ASSUME IInv, TargetCall
  PROVE  /\ Leaves(Transaction)
         /\ ~Publish => \A o \in Output : Leaves(Temporary(o))
         /\ Publish => \A o \in Output : o # mem.installed => Leaves(Temporary(o))
         /\ journal' = journal /\ journalOnDisk' = journalOnDisk /\ VolumeTypeOK'
<1>1. VolumeTypeOK
  BY DEF IInv, TypeOK
<1>2. pc \in Replacing => Current = mem.installed /\ Current \in Output
  BY DEF IInv, InvReplacing, Current
<1>3. ASSUME NEW o \in Output, NEW n \in {Temporary(o), Backup(o)}, Disturbs({Target(o), n})
      PROVE  /\ Leaves(Transaction) /\ \A p \in Output : p # o => Leaves(Temporary(p))
             /\ n = Backup(o) => Leaves(Temporary(o))
  <2>1. \A p \in Output : p # o => Temporary(p) \notin {Target(o), n}
    BY DEF Temporary, Target, Backup
  <2>2. Backup(o) # Temporary(o) /\ Temporary(o) # Target(o) /\ Transaction \notin {Target(o), n}
    BY TransactionDistinct DEF Temporary, Target, Backup
  <2> QED BY <1>3, <2>1, <2>2, NamesExist, PlainNamesExist DEF Disturbs
<1>4. CASE Preserve
  <2>1. Rename(Target(Current), Backup(Current)) /\ Current \in Output /\ ~Publish
    BY <1>2, <1>4 DEF Preserve, Publish
  <2> QED BY <1>1, <1>3, <2>1, RenameDisturbs, RenameEffect, NamesExist, TargetsDistinct DEF Rename
<1>5. CASE Publish
  <2>1. Rename(Temporary(Current), Target(Current)) /\ Current \in Output /\ Current = mem.installed
    BY <1>2, <1>5 DEF Publish
  <2>2. {Temporary(Current), Target(Current)} = {Target(Current), Temporary(Current)}
    OBVIOUS
  <2>3. Disturbs({Target(Current), Temporary(Current)}) /\ VolumeTypeOK'
    BY <1>1, <2>1, <2>2, RenameDisturbs, RenameEffect, NamesExist, TargetsDistinct
  <2> QED BY <1>3, <1>5, <2>1, <2>3 DEF Rename
<1>6. CASE AppendSome \/ AppendRest
  <2>1. PICK content \in Content : Write(Target(Current), content) /\ Current \in Output /\ ~Publish
    BY <1>2, <1>6 DEF AppendSome, AppendRest, Publish, Content
  <2>2. Disturbs({Target(Current), Backup(Current)})
    BY <1>1, <2>1, WriteDisturbs, NamesExist DEF Disturbs
  <2> QED BY <1>1, <1>3, <2>1, <2>2, WriteEffect, NamesExist DEF Write
<1>7. CASE RemoveNew
  <2>1. PICK o \in Output : Remove({Target(o)}) /\ ~Publish
    BY <1>7 DEF RemoveNew, Publish
  <2>2. Disturbs({Target(o), Backup(o)})
    BY <1>1, <2>1, RemoveDisturbs, NamesExist DEF Disturbs
  <2> QED BY <1>1, <1>3, <2>1, <2>2, RemoveEffect, NamesExist DEF Remove
<1>8. CASE RestoreBackup
  <2>1. PICK o \in Output : Rename(Backup(o), Target(o)) /\ ~Publish
    BY <1>8 DEF RestoreBackup, Publish
  <2>2. {Backup(o), Target(o)} = {Target(o), Backup(o)}
    OBVIOUS
  <2> QED BY <1>1, <1>3, <2>1, <2>2, RenameDisturbs, RenameEffect, NamesExist, TargetsDistinct DEF Rename
<1>9. CASE Truncate
  <2>1. PICK o \in Output : Write(Target(o), "old") /\ ~Publish
    BY <1>9 DEF Truncate, Publish
  <2>2. Disturbs({Target(o), Backup(o)})
    BY <1>1, <2>1, WriteDisturbs, NamesExist DEF Disturbs, Content
  <2> QED BY <1>1, <1>3, <2>1, <2>2, WriteEffect, NamesExist DEF Write, Content
<1> QED BY <1>4, <1>5, <1>6, <1>7, <1>8, <1>9 DEF TargetCall

\* The calls that change a temporary leave the directory.
LEMMA TemporaryCallDisturbs ==
  ASSUME IInv, TemporaryCall
  PROVE  /\ Leaves(Transaction)
         /\ \A o \in Output : Temporary(o) \in Name
         /\ journal' = journal /\ journalOnDisk' = journalOnDisk
         /\ TemporaryCreate \/ TemporaryFill =>
              /\ mem.installed \in Output
              /\ \A o \in Output : o # mem.installed => Leaves(Temporary(o))
         /\ FailNewFile => \A o \in Output : Leaves(Temporary(o)) \/ disk'[Temporary(o)] = {"absent"}
         /\ CleanTemporary => \A o \in Output : \/ Leaves(Temporary(o))
                                                \/ disk'[Temporary(o)] = disk[Temporary(o)] \cup {"absent"}
<1>1. VolumeTypeOK /\ \A o \in Output : Temporary(o) \in Name
  BY NamesExist DEF IInv, TypeOK
<1>2. \A o, p \in Output : o # p => Temporary(o) # Temporary(p)
  BY DEF Temporary
<1>3. \A o \in Output : Temporary(o) # Transaction /\ Temporary(o) # Target(o)
  BY TransactionDistinct, TargetsDistinct
<1>4. pc \in Replacing => Current = mem.installed /\ mem.installed \in Output
  BY DEF IInv, InvReplacing, Current
<1>5. CASE TemporaryCreate \/ TemporaryFill
  <2>1. PICK content \in Content :
          /\ Write(Temporary(mem.installed), content) /\ mem.installed \in Output
          /\ ~FailNewFile /\ ~CleanTemporary
    BY <1>4, <1>5 DEF TemporaryCreate, TemporaryFill, Content, FailNewFile, CleanTemporary, Goto
  <2>2. Disturbs({Temporary(mem.installed)}) /\ journal' = journal /\ journalOnDisk' = journalOnDisk
    BY <1>1, <2>1, WriteDisturbs DEF Write
  <2> QED BY <1>1, <1>2, <1>3, <2>1, <2>2, PlainNamesExist DEF Disturbs
<1>6. CASE CleanTemporary
  <2>1. PICK n \in Temporaries : Remove({n}) /\ ~FailNewFile /\ ~TemporaryCreate /\ ~TemporaryFill
    BY <1>6 DEF CleanTemporary, Present, FailNewFile, TemporaryCreate, TemporaryFill
  <2>2. /\ n \in Name /\ n # Transaction /\ Disturbs({n})
        /\ disk'[n] = disk[n] \cup {"absent"} /\ journal' = journal /\ journalOnDisk' = journalOnDisk
    BY <1>1, <1>3, <2>1, RemoveDisturbs, RemoveEffect DEF Temporaries
  <2> QED BY <1>1, <2>1, <2>2, PlainNamesExist DEF Disturbs
<1>7. CASE FailNewFile
  <2>1. mem.installed \in Output /\ Current = mem.installed
    BY <1>4, <1>7 DEF FailNewFile
  <2>2. /\ live' = [live EXCEPT ![Temporary(mem.installed)] = "absent"]
        /\ disk' = [disk EXCEPT ![Temporary(mem.installed)] = {"absent"},
                                ![Target(mem.installed)] = {live[Target(mem.installed)]}]
        /\ journal' = journal /\ journalOnDisk' = journalOnDisk
        /\ ~TemporaryCreate /\ ~TemporaryFill /\ ~CleanTemporary
    BY <1>7, <2>1 DEF FailNewFile, TemporaryCreate, TemporaryFill, CleanTemporary, Goto
  <2>3. \A n \in Name \ {Temporary(mem.installed), Target(mem.installed)} : Leaves(n)
    BY <1>1, <2>1, <2>2, NamesExist DEF VolumeTypeOK, Leaves
  <2>4. disk'[Temporary(mem.installed)] = {"absent"}
    BY <1>1, <1>3, <2>1, <2>2, NamesExist DEF VolumeTypeOK
  <2>5. \A o \in Output : Temporary(o) # Target(mem.installed)
    BY <2>1, TargetsDistinct
  <2> QED
    BY <1>1, <1>2, <2>1, <2>2, <2>3, <2>4, <2>5, PlainNamesExist, TransactionDistinct
<1> QED BY <1>1, <1>5, <1>6, <1>7 DEF TemporaryCall

\* A loss of power settles every name on something it may have held.
LEMMA LossSettles ==
  ASSUME VolumeTypeOK, LosePower
  PROVE  /\ \A n \in Name : live'[n] \in disk[n] /\ disk'[n] = {live'[n]}
         /\ journal' \in journalOnDisk /\ journalOnDisk' = {journal'}
         /\ live'[Transaction] = "absent" => journal' = NoJournal
BY DEF LosePower, VolumeTypeOK, DirectoriesHold

-----------------------------------------------------------------------------
(* The directory.                                                           *)

\* Nothing but its creation and removal makes the directory uncertain.
LEMMA DirectoryStays ==
  ASSUME TypeOK, Leaves(Transaction)
  PROVE  /\ DirectoryKept => DirectoryKept'
         /\ disk[Transaction] \subseteq {"absent", "present"} =>
              disk'[Transaction] \subseteq {"absent", "present"}
BY PlainNamesExist DEF TypeOK, VolumeTypeOK, Leaves, DirectoryKept

\* A step that leaves the directory keeps it, where it must be kept, if the
\* journal does not appear nor the code come there from somewhere else.
LEMMA DirectoryLeft ==
  ASSUME IInv, InvDirectory, Leaves(Transaction),
         journal'.phase # "None" => journal.phase # "None" \/ pc \notin Unclosed,
         pc' \notin Unclosed => journal.phase # "None" \/ pc \notin Unclosed
  PROVE  InvDirectory'
BY DirectoryStays DEF InvDirectory, IInv

\* Of the calls inside the directory only publishing and removing the journal
\* change it, and add one to those on the disk.
LEMMA InsideJournal ==
  ASSUME IInv, InsideCall
  PROVE  \/ journal' = journal /\ journalOnDisk' \in {journalOnDisk, {journal}}
         \/ JournalRename /\ journal' = mem /\ journalOnDisk' = journalOnDisk \cup {mem}
         \/ CleanupJournal /\ journal' = NoJournal /\ journalOnDisk' = journalOnDisk \cup {NoJournal}
<1>1. CASE UNCHANGED volume
  BY <1>1 DEF volume
<1>2. CASE \E names : Sync(names) \/ SyncTransaction(names) \/ SyncDevice \/ Remove(names)
  BY <1>2 DEF Sync, SyncTransaction, SyncDevice, Remove
<1>3. CASE \E n, content : Write(n, content)
  BY <1>3 DEF Write
<1>4. CASE WriteJournal
  BY <1>2, <1>3, <1>4 DEF WriteJournal, JournalCreate, JournalRename, JournalSync, PublishJournal
<1>5. CASE Prepare
  BY <1>1, <1>2, <1>3, <1>5
  DEF Prepare, BeginSync, ReserveSpace, ReserveSync, CreateBackupDirectory, BackupDirectorySync, Recheck
<1>6. CASE \/ SpoolCreate \/ SpoolFill \/ SpoolSync \/ Intend
           \/ TemporarySync \/ PreserveSync \/ RemovalSync \/ PublishSync \/ Finish
  BY <1>1, <1>2, <1>3, <1>6
  DEF SpoolCreate, SpoolFill, SpoolSync, Intend, TemporarySync, PreserveSync, RemovalSync, PublishSync,
      Finish, DeleteMedia, DeletionSync, Validate
<1>7. CASE \/ CleanupEntry \/ CleanupBackup \/ CleanupBackupDirectory \/ CleanupSync
           \/ CleanupDone
  BY <1>2, <1>7
  DEF CleanupEntry, CleanupBackup, CleanupBackupDirectory, CleanupSync, CleanupDone
<1>8. CASE CleanupJournal
  BY <1>8 DEF CleanupJournal, RemoveJournal
<1>9. CASE Recover \/ RecoverNothing \/ RecoverScaffold \/ RecoverAccepted \/ Refuse
  BY <1>1, <1>2, <1>9 DEF Recover, RecoverNothing, RecoverScaffold, RecoverAccepted, Refuse
<1>10. CASE CleanJournal \/ Release \/ ReleaseSync \/ ParentsSync
  BY <1>2, <1>10 DEF CleanJournal, Release, ReleaseSync, ParentsSync
<1>11. CASE \/ RemoveNewSync \/ RollbackIntent \/ RestoredSync \/ ConsumedSync
            \/ KeepOriginal \/ TruncateSync \/ Restored \/ Stop \/ FailInstall
  BY <1>1, <1>2, <1>11
  DEF RemoveNewSync, RollbackIntent, RestoredSync, ConsumedSync, KeepOriginal, TruncateSync, Restored,
      Stop, FailInstall
<1> QED BY <1>4, <1>5, <1>6, <1>7, <1>8, <1>9, <1>10, <1>11 DEF InsideCall

\* The code comes to where the directory must be kept from where it is kept,
\* once it has synced the device or read a journal.
LEMMA InsideUnclosed ==
  ASSUME InsideCall, ~BeginSync, pc' \notin Unclosed
  PROVE  journal.phase # "None" \/ pc \notin Unclosed
<1>1. CASE WriteJournal
  BY <1>1 DEF WriteJournal, JournalCreate, JournalRename, JournalSync, Unclosed
<1>2. CASE Prepare
  BY <1>2 DEF Prepare, ReserveSpace, ReserveSync, CreateBackupDirectory, BackupDirectorySync, Recheck,
     Unclosed
<1>3. CASE \/ SpoolCreate \/ SpoolFill \/ SpoolSync \/ Intend
           \/ TemporarySync \/ PreserveSync \/ RemovalSync \/ PublishSync \/ Finish
  BY <1>3
  DEF SpoolCreate, SpoolFill, SpoolSync, Intend, TemporarySync, PreserveSync, RemovalSync, PublishSync,
      Finish, DeleteMedia, DeletionSync, Validate, Unclosed
<1>4. CASE \/ CleanupEntry \/ CleanupBackup \/ CleanupBackupDirectory \/ CleanupSync
           \/ CleanupJournal \/ CleanupDone
  BY <1>4
  DEF CleanupEntry, CleanupBackup, CleanupBackupDirectory, CleanupSync, CleanupJournal, CleanupDone,
      Unclosed
<1>5. CASE Recover \/ RecoverNothing \/ RecoverScaffold \/ RecoverAccepted \/ Refuse
  BY <1>5 DEF Recover, RecoverNothing, RecoverScaffold, RecoverAccepted, Accepts, Refuse, Goto, Unclosed
<1>6. CASE CleanJournal \/ Release \/ ReleaseSync \/ ParentsSync
  BY <1>6 DEF CleanJournal, Release, ReleaseSync, ParentsSync, Unclosed
<1>7. CASE \/ RemoveNewSync \/ RollbackIntent \/ RestoredSync \/ ConsumedSync
           \/ KeepOriginal \/ TruncateSync \/ Restored \/ Stop \/ FailInstall
  BY <1>7
  DEF RemoveNewSync, RollbackIntent, RestoredSync, ConsumedSync, KeepOriginal, TruncateSync, Restored,
      Stop, Stopped, FailInstall, Unclosed
<1> QED BY <1>1, <1>2, <1>3, <1>4, <1>5, <1>6, <1>7 DEF InsideCall

\* Every step keeps the directory where it must be kept.
LEMMA DirectoryNext == IInv /\ InvDirectory /\ [Next]_vars => InvDirectory'
<1> SUFFICES ASSUME IInv, InvDirectory, [Next]_vars PROVE InvDirectory'
  OBVIOUS
<1>1. VolumeTypeOK /\ TypeOK /\ Transaction \in Name /\ journal \in journalOnDisk
  BY PlainNamesExist DEF IInv, TypeOK, VolumeTypeOK
<1>2. CASE InsideCall
  <2>1. Leaves(Transaction)
    BY <1>1, <1>2, InsideDisturbs, InsideNames DEF Disturbs
  <2>2. CASE BeginSync
    <3>1. live[Transaction] = "present" /\ disk'[Transaction] = {live[Transaction]}
      BY <1>1, <2>2 DEF BeginSync, SyncDevice, Flushed, IInv, Enclosed, InvDirectory, VolumeTypeOK
    <3> QED BY <3>1 DEF InvDirectory, DirectoryKept
  <2>3. CASE ~BeginSync
    <3>1. journal'.phase # "None" => journal.phase # "None" \/ pc \notin Unclosed
      BY <1>2, InsideJournal DEF JournalRename, NoJournal, Unclosed
    <3>2. pc' \notin Unclosed => journal.phase # "None" \/ pc \notin Unclosed
      BY <1>2, <2>3, InsideUnclosed
    <3> QED BY <2>1, <3>1, <3>2, DirectoryLeft
  <2> QED BY <2>2, <2>3
<1>3. CASE TargetCall
  BY <1>3, TargetCallDisturbs, DirectoryLeft
  DEF TargetCall, Preserve, Publish, AppendSome, AppendRest, RemoveNew, RestoreBackup, Truncate, Unclosed
<1>4. CASE TemporaryCall
  BY <1>4, TemporaryCallDisturbs, DirectoryLeft
  DEF TemporaryCall, TemporaryCreate, TemporaryFill, CleanTemporary, FailNewFile, Unclosed
<1>5. ASSUME NEW content \in {"absent", "present"}, Write(Transaction, content)
      PROVE  disk'[Transaction] \subseteq {"absent", "present"} /\ journal' = journal
  <2>1. Reaches(Transaction, content) = {content}
    BY TransactionDistinct DEF Reaches
  <2> QED BY <1>1, <1>5, <2>1, WriteEffect DEF Content, InvDirectory
<1>6. CASE Begin \/ CleanupDirectory
  <2>1. journal.phase = "None" /\ pc' \in Unclosed
    BY <1>6 DEF Begin, CleanupDirectory, Goto, IInv, Enclosed, InvFinishing, Unclosed
  <2> QED BY <1>5, <1>6, <2>1 DEF Begin, CleanupDirectory, InvDirectory
<1>7. CASE PowerLoss
  BY <1>1, <1>7, LossSettles DEF PowerLoss, Stopped, NoJournal, InvDirectory, Unclosed, DirectoryKept
<1>8. CASE UNCHANGED vars
  BY <1>8 DEF vars, volume, process, InvDirectory, DirectoryKept
<1> QED BY <1>2, <1>3, <1>4, <1>5, <1>6, <1>7, <1>8, NextCases

-----------------------------------------------------------------------------
(* The hidden temporary files.                                              *)

\* A temporary that is durably gone stays so if a step leaves it, removes it
\* again or settles it.
LEMMA GoneStays ==
  ASSUME TypeOK, NEW o \in Output,
         \/ Leaves(Temporary(o)) \/ disk'[Temporary(o)] = {"absent"}
         \/ disk'[Temporary(o)] = disk[Temporary(o)] \cup {"absent"}
  PROVE  TemporaryGone(o) => TemporaryGone(o)'
BY NamesExist DEF TypeOK, VolumeTypeOK, Leaves, TemporaryGone

\* The calls that make temporaries durably gone where the code comes to rely
\* on it.
TidyingCall == PublishSync \/ ReleaseSync \/ ParentsSync \/ RecoverScaffold

\* Every other call inside the directory comes to a tidy point from one, and
\* stays with the output in flight.
LEMMA InsideTidy ==
  ASSUME IInv, InsideCall, ~TidyingCall
  PROVE  /\ pc' \in Tidy => pc \in Tidy
         /\ pc' \in Replacing \ Tidy => pc \in Replacing \ Tidy /\ mem' = mem /\ (pc' \in Placed => pc \in Placed)
         /\ pc' = "release" => CleanJournal \/ Release
<1>1. CASE WriteJournal
  BY <1>1 DEF WriteJournal, JournalCreate, JournalRename, JournalSync, Goto, AfterJournal, Tidy
<1>2. CASE Prepare
  BY <1>2 DEF Prepare, BeginSync, ReserveSpace, ReserveSync, CreateBackupDirectory, BackupDirectorySync,
     Recheck, Goto, Record, Tidy
<1>3. CASE SpoolCreate \/ SpoolFill \/ SpoolSync \/ Intend \/ Finish
  BY <1>3
  DEF SpoolCreate, SpoolFill, SpoolSync, Intend, Finish, DeleteMedia, DeletionSync, Validate,
      Goto, GotoAt, Record, Tidy
<1>4. CASE TemporarySync \/ PreserveSync \/ RemovalSync
  BY <1>4 DEF TemporarySync, PreserveSync, RemovalSync, Goto, Tidy
<1>5. CASE \/ CleanupEntry \/ CleanupBackup \/ CleanupBackupDirectory \/ CleanupSync
           \/ CleanupJournal \/ CleanupDone
  BY <1>5
  DEF CleanupEntry, CleanupBackup, CleanupBackupDirectory, CleanupSync, CleanupJournal, CleanupDone,
      Goto, process, Tidy
<1>6. CASE Recover \/ RecoverNothing \/ RecoverAccepted \/ Refuse
  BY <1>6 DEF Recover, RecoverNothing, RecoverAccepted, Refuse, Tidy
<1>7. CASE CleanJournal \/ Release
  BY <1>7 DEF CleanJournal, Release, Goto, process, Tidy
<1>8. CASE \/ RemoveNewSync \/ RollbackIntent \/ RestoredSync \/ ConsumedSync
           \/ KeepOriginal \/ TruncateSync \/ Restored
  BY <1>8
  DEF RemoveNewSync, RollbackIntent, RestoredSync, ConsumedSync, KeepOriginal, TruncateSync, Restored,
      Goto, GotoAt, Record, Tidy
<1>9. CASE Stop \/ FailInstall
  BY <1>9 DEF Stop, Stopped, FailInstall, Tidy
<1> QED BY <1>1, <1>2, <1>3, <1>4, <1>5, <1>6, <1>7, <1>8, <1>9 DEF InsideCall, TidyingCall

\* A call inside the directory, after which either all temporaries are gone or
\* a tidy point was left, keeps what the point of the code does not matter to.
LEMMA InsideEnclosesDebris ==
  ASSUME IInv, InvTemporaries, InsideCall
  PROVE  DebrisEnclosed'
<1>1. TypeOK /\ VolumeTypeOK /\ Transaction \in Name
  BY PlainNamesExist DEF IInv, TypeOK
<1>2. \A o \in Output : Leaves(Temporary(o))
  BY InsideDisturbs, InsideNames, NamesExist DEF Disturbs
<1>3. TemporariesGone => TemporariesGone'
  BY <1>1, <1>2, GoneStays DEF TemporariesGone
<1>4. Leaves(Transaction)
  BY <1>1, InsideDisturbs, InsideNames DEF Disturbs
<1>5. "absent" \in disk'[Transaction] => TemporariesGone
  BY <1>1, <1>4 DEF Leaves, VolumeTypeOK, InvTemporaries, DebrisEnclosed, DebrisLocated
<1>6. (\E j \in journalOnDisk' : j.phase \notin Working) => TemporariesGone
  <2>1. CASE journalOnDisk' \in {journalOnDisk, {journal}}
    BY <1>1, <2>1 DEF InvTemporaries, DebrisEnclosed, DebrisLocated, VolumeTypeOK
  <2>2. CASE JournalRename \/ CleanupJournal
    BY <2>2 DEF JournalRename, CleanupJournal, InvTemporaries, DebrisEnclosed, DebrisLocated, Tidy
  <2> QED BY <2>1, <2>2, InsideJournal
<1> QED BY <1>3, <1>5, <1>6 DEF DebrisEnclosed

\* Every step encloses the temporaries.
LEMMA DebrisNext == IInv /\ InvDirectory /\ InvTemporaries /\ [Next]_vars => DebrisEnclosed'
<1> SUFFICES ASSUME IInv, InvDirectory, InvTemporaries, [Next]_vars PROVE DebrisEnclosed'
  OBVIOUS
<1>1. TypeOK /\ VolumeTypeOK /\ Transaction \in Name
  BY PlainNamesExist DEF IInv, TypeOK
<1>2. CASE (TargetCall /\ ~Publish) \/ CleanTemporary \/ FailNewFile
  <2>1. TemporariesGone => TemporariesGone'
    BY <1>1, <1>2, GoneStays, TargetCallDisturbs, TemporaryCallDisturbs
    DEF TemporariesGone, TemporaryCall
  <2>2. Leaves(Transaction) /\ journalOnDisk' = journalOnDisk
    BY <1>2, TargetCallDisturbs, TemporaryCallDisturbs DEF TemporaryCall
  <2> QED BY <1>1, <2>1, <2>2 DEF Leaves, VolumeTypeOK, InvTemporaries, DebrisLocated, DebrisEnclosed
<1>3. CASE Publish \/ TemporaryCreate \/ TemporaryFill
  <2>1. pc \in Replacing /\ pc \notin Unclosed
    BY <1>3 DEF Publish, TemporaryCreate, TemporaryFill, Unclosed
  <2>2. Leaves(Transaction) /\ journalOnDisk' = journalOnDisk
    BY <1>3, TargetCallDisturbs, TemporaryCallDisturbs DEF TemporaryCall, TargetCall
  <2>3. DirectoryKept' /\ \A j \in journalOnDisk' : j.phase \in Working
    BY <1>1, <2>1, <2>2, DirectoryStays DEF InvDirectory, IInv, InvReplacing, Working
  <2> QED BY <2>3 DEF DirectoryKept, DebrisEnclosed
<1>4. CASE Begin \/ CleanupDirectory
  <2>1. PICK content \in Content : Write(Transaction, content) 
    BY <1>4 DEF Begin, CleanupDirectory, Content
  <2>2. \A o \in Output : Leaves(Temporary(o))
    BY <1>1, <2>1, WriteDisturbs, NamesExist, TransactionDistinct DEF Disturbs
  <2>3. journalOnDisk' = journalOnDisk /\ TemporariesGone
    BY <1>1, <1>4, <2>1 DEF Write, Begin, CleanupDirectory, VolumeTypeOK, InvTemporaries, DebrisEnclosed, DebrisLocated, Tidy
  <2>4. TemporariesGone'
    BY <1>1, <2>2, <2>3, GoneStays DEF TemporariesGone
  <2> QED BY <2>4 DEF DebrisEnclosed
<1>5. CASE PowerLoss
  <2>1. /\ \A n \in Name : live'[n] \in disk[n] /\ disk'[n] = {live'[n]}
        /\ journal' \in journalOnDisk /\ journalOnDisk' = {journal'}
    BY <1>1, <1>5, LossSettles DEF PowerLoss
  <2>2. TemporariesGone => TemporariesGone'
    BY <2>1, NamesExist DEF TemporariesGone, TemporaryGone
  <2> QED BY <1>1, <2>1, <2>2 DEF InvTemporaries, DebrisLocated, DebrisEnclosed
<1>6. CASE UNCHANGED vars
  BY <1>6 DEF vars, volume, process, InvTemporaries, DebrisLocated, DebrisEnclosed, TemporariesGone, TemporaryGone
<1> QED
  BY <1>2, <1>3, <1>4, <1>5, <1>6, NextCases, InsideEnclosesDebris DEF TemporaryCall, TargetCall

\* Syncing the parents of outputs without live temporaries makes them durably
\* gone.
LEMMA TidyingCallTidies == ASSUME IInv, InvTemporaries, TidyingCall PROVE DebrisLocated'
<1>1. VolumeTypeOK /\ \A o \in Output : Temporary(o) \in Name
  BY NamesExist DEF IInv, TypeOK
<1>2. CASE PublishSync
  <2>1. /\ pc \in Placed /\ Current = mem.installed /\ mem.installed \in Output
        /\ pc' \in {"stage", "delete"} /\ Sync(InParent(mem.installed))
    BY <1>2 DEF PublishSync, Installed, Goto, GotoAt, IInv, InvReplacing, Current
  <2>2. \A o \in Output : Leaves(Temporary(o))
    BY <1>1, <2>1, SyncDisturbs DEF Disturbs
  <2>3. \A o \in Output : TemporaryGone(o)'
    <3>1. disk'[Temporary(mem.installed)] = {"absent"}
      BY <1>1, <2>1 DEF Sync, Flushed, InParent, InvTemporaries, DebrisLocated
    <3>2. \A o \in Output : o # mem.installed => TemporaryGone(o)
      BY <2>1 DEF InvTemporaries, DebrisLocated
    <3> QED BY <2>2, <3>1, <3>2, GoneStays DEF IInv, TemporaryGone
  <2> QED BY <2>1, <2>3 DEF DebrisLocated, TemporariesGone
<1>3. CASE ReleaseSync \/ ParentsSync
  <2>1. \A o \in Output : live[Temporary(o)] = "absent" /\ Temporary(o) \in Parents
    BY <1>3 DEF ReleaseSync, ParentsSync, InvTemporaries, DebrisEnclosed, DebrisLocated, Present, Temporaries, Parents, InParent
  <2>2. TemporariesGone'
    BY <1>1, <1>3, <2>1
    DEF ReleaseSync, ParentsSync, SyncTransaction, Sync, Flushed, TemporariesGone, TemporaryGone
  <2>3. pc' \in {"cleanup", "remove_new"}
    BY <1>3 DEF ReleaseSync, ParentsSync, Cleaned, Goto, GotoAt
  <2> QED BY <2>2, <2>3 DEF DebrisLocated
<1>4. CASE RecoverScaffold
  <2>1. TemporariesGone
    BY <1>1, <1>4 DEF RecoverScaffold, Scaffold, VolumeTypeOK, InvTemporaries, DebrisEnclosed, DebrisLocated, Working
  <2>2. RecoverScaffold => InsideCall
    BY DEF InsideCall
  <2>3. TemporariesGone'
    BY <1>1, <1>4, <2>1, <2>2, InsideDisturbs, InsideNames, GoneStays DEF Disturbs, TemporariesGone, IInv
  <2> QED BY <1>4, <2>3 DEF RecoverScaffold, Goto, DebrisLocated
<1> QED BY <1>2, <1>3, <1>4 DEF TidyingCall

\* Every step leaves what the code relies on of the temporaries.
LEMMA DebrisLocatedNext == IInv /\ InvTemporaries /\ [Next]_vars => DebrisLocated'
<1> SUFFICES ASSUME IInv, InvTemporaries, [Next]_vars PROVE DebrisLocated'
  OBVIOUS
<1>1. TypeOK /\ VolumeTypeOK /\ \A o \in Output : Temporary(o) \in Name
  BY NamesExist DEF IInv, TypeOK
<1>2. CASE InsideCall /\ ~TidyingCall
  <2>1. \A o \in Output : Leaves(Temporary(o)) /\ (TemporaryGone(o) => TemporaryGone(o)')
    BY <1>1, <1>2, InsideDisturbs, InsideNames, GoneStays DEF Disturbs
  <2>2. pc' \in Tidy => TemporariesGone'
    BY <1>2, <2>1, InsideTidy DEF InvTemporaries, DebrisEnclosed, DebrisLocated, TemporariesGone
  <2>3. pc' \in Replacing => \A o \in Output : o # mem'.installed => TemporaryGone(o)'
    BY <1>2, <2>1, <2>2, InsideTidy DEF InvTemporaries, DebrisEnclosed, DebrisLocated, TemporariesGone
  <2>4. pc' \in Placed => live'[Temporary(mem'.installed)] = "absent"
    BY <1>2, <2>1, InsideTidy DEF InvTemporaries, DebrisEnclosed, DebrisLocated, Tidy, Leaves, IInv, InvReplacing
  <2>5. pc' = "release" => \A o \in Output : live'[Temporary(o)] = "absent"
    BY <1>1, <1>2, <2>1, InsideTidy
    DEF InvTemporaries, DebrisEnclosed, DebrisLocated, CleanJournal, Release, Present, Temporaries, Leaves
  <2> QED BY <2>2, <2>3, <2>4, <2>5 DEF DebrisLocated
<1>3. CASE TargetCall /\ ~Publish
  <2>1. \A o \in Output : Leaves(Temporary(o)) /\ (TemporaryGone(o) => TemporaryGone(o)')
    BY <1>1, <1>3, TargetCallDisturbs, GoneStays
  <2>2. /\ pc' \in Tidy \cup Placed \cup Replacing => mem' = mem
        /\ pc' \in Tidy => pc \in Tidy
        /\ pc' \in Replacing => pc \in Replacing
        /\ pc' \in Placed => pc \in Tidy /\ mem.installed \in Output
        /\ pc' # "release"
    BY <1>3 DEF TargetCall, Preserve, AppendSome, AppendRest, RemoveNew, RestoreBackup, Truncate,
       Goto, GotoAt, Tidy, IInv, InvReplacing
  <2>3. pc' \in Placed => live'[Temporary(mem'.installed)] = "absent"
    BY <1>1, <2>1, <2>2 DEF Leaves, VolumeTypeOK, InvTemporaries, DebrisEnclosed, DebrisLocated, TemporariesGone, TemporaryGone
  <2> QED BY <2>1, <2>2, <2>3 DEF InvTemporaries, DebrisEnclosed, TemporariesGone, DebrisLocated
<1>4. CASE Publish
  <2>1. /\ mem' = mem /\ pc' = "publish_sync" /\ pc \in Replacing /\ mem.installed \in Output
        /\ Rename(Temporary(mem.installed), Target(mem.installed))
    BY <1>4 DEF Publish, Goto, IInv, InvReplacing, Current
  <2>2. live'[Temporary(mem.installed)] = "absent"
    BY <1>1, <2>1, RenameEffect, NamesExist, TargetsDistinct
  <2>3. \A o \in Output : o # mem.installed => Leaves(Temporary(o))
    BY <1>4, TargetCallDisturbs DEF TargetCall
  <2> QED BY <1>1, <2>1, <2>2, <2>3, GoneStays DEF InvTemporaries, DebrisEnclosed, DebrisLocated, Tidy
<1>5. CASE TemporaryCreate \/ TemporaryFill
  <2>1. \A o \in Output : o # mem.installed => Leaves(Temporary(o))
    BY <1>5, TemporaryCallDisturbs DEF TemporaryCall
  <2>3. mem' = mem /\ pc \in Replacing /\ pc' \notin Tidy \cup Placed \cup {"release"}
    BY <1>5 DEF TemporaryCreate, TemporaryFill, Goto, Tidy
  <2> QED BY <1>1, <2>1, <2>3, GoneStays DEF InvTemporaries, DebrisEnclosed, DebrisLocated
<1>6. CASE CleanTemporary \/ FailNewFile \/ Begin \/ PowerLoss
  <2>1. pc' \notin Tidy \cup Replacing \cup {"release"} \/ Begin
    BY <1>6 DEF CleanTemporary, process, FailNewFile, PowerLoss, Stopped, Tidy
  <2>2. Begin => pc' = "create_sync" /\ TemporariesGone /\ \A o \in Output : Leaves(Temporary(o))
    BY <1>1, WriteDisturbs, PlainNamesExist, TransactionDistinct
    DEF Begin, Content, Disturbs, VolumeTypeOK, InvTemporaries, DebrisEnclosed, DebrisLocated
  <2>3. Begin => TemporariesGone'
    BY <1>1, <2>2, GoneStays DEF TemporariesGone
  <2> QED BY <2>1, <2>2, <2>3 DEF DebrisLocated
<1>7. CASE CleanupDirectory
  <2>1. TemporariesGone /\ \A o \in Output : Leaves(Temporary(o))
    BY <1>1, <1>7, WriteDisturbs, PlainNamesExist, TransactionDistinct
    DEF CleanupDirectory, Content, Disturbs, InvTemporaries, DebrisEnclosed, DebrisLocated, Tidy
  <2>2. TemporariesGone' /\ pc' = "remove_sync"
    BY <1>1, <1>7, <2>1, GoneStays DEF TemporariesGone, CleanupDirectory, Goto
  <2> QED BY <2>2 DEF DebrisLocated
<1>8. CASE UNCHANGED vars
  BY <1>8 DEF vars, volume, process, InvTemporaries, DebrisEnclosed, DebrisLocated, TemporariesGone, TemporaryGone
<1> QED
  BY <1>2, <1>3, <1>4, <1>5, <1>6, <1>7, <1>8, NextCases, TidyingCallTidies
  DEF TemporaryCall

\* Nobody has begun.
LEMMA InitDirectory == Init => InvDirectory /\ InvTemporaries
<1> SUFFICES ASSUME Init PROVE InvDirectory /\ InvTemporaries
  OBVIOUS
<1>1. live[Transaction] = "absent" /\ disk[Transaction] = {"absent"}
  BY PlainNamesExist, TransactionDistinct DEF Init, VolumeInit, Medias
<1>2. \A o \in Output : disk[Temporary(o)] = {"absent"}
  BY NamesExist, TargetsDistinct DEF Init, VolumeInit, Medias, Temporary, Target, Media
<1>3. journal.phase = "None" /\ pc = "idle"
  BY DEF Init, VolumeInit, NoJournal
<1> QED
  BY <1>1, <1>2, <1>3
  DEF InvDirectory, InvTemporaries, DebrisEnclosed, DebrisLocated, TemporariesGone, TemporaryGone,
      Unclosed, Tidy

\* The directory and the temporaries are as the invariant says throughout.
THEOREM DirectoryInvariance == Spec => [](InvDirectory /\ InvTemporaries)
<1>1. IInv /\ (InvDirectory /\ InvTemporaries) /\ [Next]_vars => (InvDirectory /\ InvTemporaries)'
  BY DirectoryNext, DebrisNext, DebrisLocatedNext DEF InvTemporaries
<1> QED BY <1>1, InitDirectory, Invariance, PTL DEF Spec

\* An open device carries no hidden temporary file, nor may one come back,
\* after any failures and losses of power (cleanup_interrupted_temporaries).
THEOREM OpenDeviceIsClean == Spec => []NoDebris
<1>1. ASSUME IInv, InvTemporaries PROVE NoDebris
  BY <1>1, PlainNamesExist
  DEF IInv, TypeOK, VolumeTypeOK, InvTemporaries, DebrisEnclosed, TemporariesGone, TemporaryGone, NoDebris
<1> QED BY <1>1, Invariance, DirectoryInvariance, PTL

-----------------------------------------------------------------------------
(* The refinement of AtomicInstall: whoever opens the device finds one      *)
(* generation, the device is closed while it may be anything else, and a    *)
(* generation that was settled on stays.  It rests on Resyncs: where        *)
(* recovery may act on a terminal journal that only the memory of a killed  *)
(* process had flushed, the refinement fails (run lost_proof shows what is  *)
(* lost).                                                                   *)

-----------------------------------------------------------------------------
(* The journals on the disk.                                                *)

\* What a call inside the directory has to do with the settlement.
LEMMA InsideSettles ==
  ASSUME IInv, InvSettled, Resyncs, InsideCall
  PROVE  /\ pc' \in CleaningUp =>
              \/ pc \in CleaningUp /\ journalOnDisk' \in {journalOnDisk, {journal}}
              \/ Settled'
         /\ MaxFailures = 0 /\ pc' \in {"idle", "recover"} \cup Cleaning =>
              \/ pc \in {"idle", "recover"} \cup Cleaning /\ journalOnDisk' \in {journalOnDisk, {journal}}
              \/ journalOnDisk' = {journal'}
<1>1. VolumeTypeOK /\ failures \in Nat
  BY DEF IInv, TypeOK, InvSettled
<1>2. CASE JournalSync
  <2>1. journalOnDisk' = {journal} /\ journal = mem /\ mem \in Journal /\ pc' = AfterJournal
    BY <1>2 DEF JournalSync, SyncTransaction, Goto, IInv, InvWriting, TypeOK
  <2>2. /\ pc' \in CleaningUp => mem.phase \in {"Committed", "RolledBack"}
        /\ pc' \notin {"idle", "recover"} \cup Cleaning
    <3>1. mem.phase # "None"
      BY <1>2 DEF JournalSync, IInv, InvWriting, Ready
    <3> QED BY <2>1, <3>1 DEF AfterJournal, Journal, Phase
  <2> QED BY <2>1, <2>2 DEF Settled
<1>3. CASE JournalCreate \/ JournalRename
  BY <1>3 DEF JournalCreate, JournalRename, Goto
<1>4. CASE Prepare
  BY <1>4 DEF Prepare, BeginSync, ReserveSpace, ReserveSync, CreateBackupDirectory, BackupDirectorySync,
     Recheck, Goto, Record
<1>5. CASE SpoolCreate \/ SpoolFill \/ SpoolSync \/ Intend \/ Finish
  BY <1>5
  DEF SpoolCreate, SpoolFill, SpoolSync, Intend, Finish, DeleteMedia, DeletionSync, Validate,
      Goto, GotoAt, Record
<1>6. CASE TemporarySync \/ PreserveSync \/ RemovalSync \/ PublishSync
  BY <1>6 DEF TemporarySync, PreserveSync, RemovalSync, PublishSync, Installed, Goto, GotoAt
<1>7. CASE CleanupEntry \/ CleanupBackup \/ CleanupBackupDirectory \/ CleanupSync
  BY <1>7
  DEF CleanupEntry, CleanupBackup, CleanupBackupDirectory, CleanupSync, SyncTransaction, Remove,
      Goto, process
<1>8. CASE CleanupJournal
  BY <1>8 DEF CleanupJournal, Goto
<1>9. CASE CleanupDone
  BY <1>9 DEF CleanupDone, SyncDevice
<1>10. CASE Recover \/ RecoverNothing \/ RecoverAccepted \/ Refuse
  BY <1>10 DEF Recover, RecoverNothing, RecoverAccepted, Refuse, volume
<1>11. CASE RecoverScaffold
  BY <1>11 DEF RecoverScaffold, Goto
<1>12. CASE CleanJournal \/ Release
  BY <1>12 DEF CleanJournal, Release, Remove, Goto, process
<1>13. CASE ReleaseSync \/ ParentsSync
  <2>1. mem = journal /\ mem.phase # "None"
    BY <1>13 DEF ReleaseSync, ParentsSync, IInv, InvRemoving
  <2>2. journalOnDisk' = {journal}
    <3>1. CASE ReleaseSync
      BY <3>1 DEF ReleaseSync, SyncTransaction
    <3>2. CASE ParentsSync
      BY <3>2 DEF ParentsSync, Sync, InvSettled, Resyncs
    <3> QED BY <1>13, <3>1, <3>2
  <2>3. (pc' = "cleanup" /\ Terminal) \/ pc' = "remove_new"
    BY <1>13 DEF ReleaseSync, ParentsSync, Cleaned, Goto, GotoAt
  <2> QED BY <2>1, <2>2, <2>3 DEF Settled, Terminal
<1>14. CASE \/ RemoveNewSync \/ RollbackIntent \/ RestoredSync \/ ConsumedSync
            \/ KeepOriginal \/ TruncateSync \/ Restored
  BY <1>14
  DEF RemoveNewSync, RollbackIntent, RestoredSync, ConsumedSync, KeepOriginal, TruncateSync, Restored,
      Goto, GotoAt, Record
<1>15. CASE Stop \/ FailInstall
  <2>1. MaxFailures # 0
    BY <1>1, <1>15 DEF Stop, FailInstall, Fails
  <2> QED BY <1>15, <2>1 DEF Stop, Stopped, FailInstall
<1> QED
  BY <1>2, <1>3, <1>4, <1>5, <1>6, <1>7, <1>8, <1>9, <1>10, <1>11, <1>12, <1>13, <1>14, <1>15
  DEF InsideCall, WriteJournal

\* Nothing unsettles the journals but an installation or a rollback.
LEMMA SettledNext == IInv /\ InvSettled /\ Resyncs /\ [Next]_vars => InvSettled'
<1> SUFFICES ASSUME IInv, InvSettled, Resyncs, [Next]_vars PROVE InvSettled'
  OBVIOUS
<1>1. VolumeTypeOK /\ failures \in Nat
  BY DEF IInv, TypeOK, InvSettled
<1>2. failures' \in Nat
  BY <1>1 DEF Next, Call, Work, PowerLoss, Stop, FailInstall, FailNewFile, Fails, vars
<1>3. CASE InsideCall
  <2>1. journal'.phase = "None" => Settled'
    <3>1. CASE journal' = journal /\ journalOnDisk' \in {journalOnDisk, {journal}}
      BY <3>1 DEF InvSettled, Settled
    <3>2. CASE JournalRename /\ journal' = mem
      BY <3>2 DEF JournalRename, IInv, InvWriting, Ready
    <3>3. CASE CleanupJournal /\ journalOnDisk' = journalOnDisk \cup {NoJournal}
      BY <3>3 DEF CleanupJournal, InvSettled, Settled, NoJournal
    <3> QED BY <1>3, <3>1, <3>2, <3>3, InsideJournal
  <2>2. pc' \in CleaningUp => Settled'
    BY <1>1, <1>3, InsideSettles DEF InvSettled, Settled, VolumeTypeOK
  <2>3. MaxFailures = 0 /\ pc' \in {"idle", "recover"} \cup Cleaning => journalOnDisk' = {journal'}
    <3>1. CASE pc' \in {"idle", "recover"} \cup Cleaning
      <4>1. ~JournalRename /\ ~CleanupJournal
        BY <3>1 DEF JournalRename, CleanupJournal, Goto
      <4> QED BY <1>3, <4>1, InsideSettles, InsideJournal DEF InvSettled
    <3> QED BY <3>1
  <2> QED BY <1>2, <2>1, <2>2, <2>3 DEF InvSettled
<1>4. CASE TargetCall \/ TemporaryCall
  <2>1. journal' = journal /\ journalOnDisk' = journalOnDisk
    BY <1>4, TargetCallDisturbs, TemporaryCallDisturbs
  <2>2. pc' \notin CleaningUp
    BY <1>4 DEF TargetCall, Preserve, Publish, AppendSome, AppendRest, RemoveNew, RestoreBackup, Truncate,
       TemporaryCall, TemporaryCreate, TemporaryFill, CleanTemporary, FailNewFile, Goto, GotoAt, process
  <2>3. pc' \in {"idle", "recover"} \cup Cleaning => pc \in Cleaning \/ MaxFailures # 0
    <3>1. FailNewFile => MaxFailures # 0
      BY <1>1 DEF FailNewFile, Fails
    <3>2. TargetCall \/ TemporaryCreate \/ TemporaryFill => pc' \notin {"idle", "recover"} \cup Cleaning
      BY DEF TargetCall, Preserve, Publish, AppendSome, AppendRest, RemoveNew, RestoreBackup, Truncate,
         TemporaryCreate, TemporaryFill, Goto, GotoAt
    <3>3. CleanTemporary => pc \in Cleaning
      BY DEF CleanTemporary
    <3> QED BY <1>4, <3>1, <3>2, <3>3 DEF TemporaryCall
  <2> QED BY <1>2, <2>1, <2>2, <2>3 DEF InvSettled, Settled
<1>5. CASE Begin \/ CleanupDirectory
  <2>1. /\ journal' = journal /\ journalOnDisk' = journalOnDisk
        /\ pc' \notin CleaningUp \cup Cleaning \cup {"idle", "recover"}
    BY <1>5 DEF Begin, CleanupDirectory, Write, Goto
  <2> QED BY <1>2, <2>1 DEF InvSettled, Settled
<1>6. CASE PowerLoss
  BY <1>1, <1>2, <1>6, LossSettles DEF PowerLoss, Stopped, InvSettled, Settled
<1>7. CASE UNCHANGED vars
  BY <1>7 DEF vars, volume, process, InvSettled, Settled
<1> QED BY <1>3, <1>4, <1>5, <1>6, <1>7, NextCases

\* Nobody has begun.
LEMMA InitSettled == Init => InvSettled
BY DEF Init, VolumeInit, NoJournal, InvSettled, Settled

\* The journals are as InvSettled says, where recovery resyncs them.
THEOREM SettledInvariance == Resyncs => (Spec => []InvSettled)
<1> SUFFICES ASSUME Resyncs PROVE Spec => []InvSettled
  OBVIOUS
<1>1. IInv /\ InvSettled /\ [Next]_vars => InvSettled'
  BY SettledNext
<1> QED BY <1>1, InitSettled, Invariance, PTL DEF Spec

-----------------------------------------------------------------------------
(* The refinement.                                                          *)

generation == IF AllOld THEN "old" ELSE IF AllNew THEN "new" ELSE "mixed"
closed == live[Transaction] = "present"

\* The abstract variables are these.
LEMMA AbstractVariables ==
  /\ Abstract!AbstractInit <=> generation = "old" /\ closed = FALSE /\ Settled = TRUE
  /\ Abstract!Close <=>
       ~closed /\ Settled /\ closed' = TRUE /\ generation' = generation /\ Settled' = Settled
  /\ Abstract!Undertake <=>
       /\ closed /\ Settled /\ generation = "old" /\ Settled' = FALSE
       /\ generation' = generation /\ closed' = closed
  /\ Abstract!Change <=>
       /\ closed /\ ~Settled /\ generation' \in {"old", "mixed", "new"}
       /\ closed' = closed /\ Settled' = Settled
  /\ Abstract!Settle <=>
       /\ closed /\ ~Settled /\ generation \in {"old", "new"} /\ Settled' = TRUE
       /\ generation' = generation /\ closed' = closed
  /\ Abstract!Open <=>
       closed /\ Settled /\ closed' = FALSE /\ generation' = generation /\ Settled' = Settled
  /\ UNCHANGED Abstract!abstract <=>
       generation' = generation /\ closed' = closed /\ Settled' = Settled
BY DEF Abstract!AbstractInit, Abstract!Close, Abstract!Undertake, Abstract!Change, Abstract!Settle,
   Abstract!Open, Abstract!abstract, generation, closed, Settled

AbstractStep == [Abstract!AbstractNext]_(Abstract!abstract)

\* One of the abstract actions, or a stutter, is an abstract step.
LEMMA AbstractStepCases ==
  ASSUME \/ Abstract!Close \/ Abstract!Undertake \/ Abstract!Change \/ Abstract!Settle
         \/ Abstract!Open \/ UNCHANGED Abstract!abstract
  PROVE  AbstractStep
BY DEF AbstractStep, Abstract!AbstractNext

\* Behind a closed door what is undecided may change.
LEMMA ChangeIsAbstract ==
  ASSUME closed, closed', ~Settled, ~Settled'
  PROVE  AbstractStep
<1>1. closed' = closed /\ Settled' = Settled
  BY DEF closed, Settled
<1>2. generation' \in {"old", "mixed", "new"}
  BY DEF generation
<1>3. Abstract!Change
  BY <1>1, <1>2, AbstractVariables
<1> QED BY <1>3, AbstractStepCases

\* The generation is read off the live targets.
LEMMA GenerationStays ==
  ASSUME \A o \in Output : live'[Target(o)] = live[Target(o)]
  PROVE  generation' = generation
BY DEF generation, AllOld, AllNew

\* Whatever is unsettled is closed, and stays closed after a loss of power.
LEMMA UnsettledIsClosed ==
  ASSUME IInv, InvDirectory, InvSettled, ~Settled
  PROVE  closed /\ DirectoryKept
BY PlainNamesExist
DEF IInv, TypeOK, VolumeTypeOK, InvDirectory, InvSettled, DirectoryKept, closed

\* The directory is there or not, and without it nothing is undecided.
LEMMA OpenIsSettled ==
  ASSUME IInv, InvDirectory, InvSettled
  PROVE  live[Transaction] \in {"absent", "present"} /\ (~closed => Settled)
BY PlainNamesExist, UnsettledIsClosed DEF IInv, TypeOK, VolumeTypeOK, InvDirectory

\* A terminal journal, or none, is on the disk only if one generation is.
LEMMA DecidedGeneration ==
  ASSUME IInv, NEW j \in journalOnDisk, j.phase \in {"None", "Committed", "RolledBack"}
  PROVE  (OldOnDisk \/ NewOnDisk) /\ generation \in {"old", "new"}
<1>1. OldOnDisk \/ NewOnDisk
  BY DEF IInv, JournalProof, Proves
<1>2. \A o \in Output : live[Target(o)] \in disk[Target(o)]
  BY NamesExist DEF IInv, TypeOK, VolumeTypeOK
<1> QED BY <1>1, <1>2 DEF OldOnDisk, NewOnDisk, AllOld, AllNew, generation

\* What only changes the files of the transaction, or syncs, settles at most.
LEMMA QuietRefines ==
  ASSUME IInv, InvDirectory, InvSettled,
         \A o \in Output : live'[Target(o)] = live[Target(o)],
         live'[Transaction] = live[Transaction],
         journalOnDisk' \in {journalOnDisk, {journal}}
  PROVE  AbstractStep
<1>1. generation' = generation /\ closed' = closed /\ journal \in journalOnDisk
  BY GenerationStays DEF closed, IInv, TypeOK, VolumeTypeOK
<1>2. CASE Settled' = Settled
  BY <1>1, <1>2, AbstractVariables, AbstractStepCases
<1>3. CASE Settled' # Settled
  <2>1. ~Settled /\ Settled' = TRUE /\ journal.phase \in {"None", "Committed", "RolledBack"}
    BY <1>1, <1>3 DEF Settled
  <2>2. closed /\ generation \in {"old", "new"}
    BY <1>1, <2>1, UnsettledIsClosed, DecidedGeneration
  <2> QED BY <1>1, <2>1, <2>2, AbstractVariables, AbstractStepCases
<1> QED BY <1>2, <1>3

\* Publishing a journal undertakes the installation, goes on with it or with
\* its end.
LEMMA PublishRefines ==
  ASSUME IInv, InvDirectory, InvSettled, JournalRename
  PROVE  AbstractStep
<1>1. InsideCall
  BY DEF InsideCall, WriteJournal
<1>2. generation' = generation /\ closed' = closed
  BY <1>1, InsideDisturbs, InsideNames, NamesExist, PlainNamesExist, GenerationStays
  DEF Disturbs, Leaves, closed
<1>3. journalOnDisk' = journalOnDisk \cup {mem} /\ Ready /\ closed /\ mem \in Journal
  BY OpenIsSettled DEF JournalRename, PublishJournal, IInv, InvWriting, Enclosed, closed, TypeOK
<1>4. CASE Settled' = Settled
  BY <1>2, <1>4, AbstractVariables, AbstractStepCases
<1>5. CASE Settled' # Settled
  <2>1. Settled /\ Settled' = FALSE /\ mem.phase \notin {"None", "Committed", "RolledBack"}
    BY <1>3, <1>5 DEF Settled
  <2>2. ~AllWorking
    BY <2>1 DEF Settled, AllWorking, Working, IInv, TypeOK, VolumeTypeOK
  <2>3. OldOnDisk
    BY <1>3, <2>1, <2>2, VolumeAssumption
    DEF Ready, Working, Journal, Phase, OldAbove, OldOnDisk, Output
  <2>4. AllOld
    BY <2>3, NamesExist DEF OldOnDisk, AllOld, IInv, TypeOK, VolumeTypeOK
  <2> QED BY <1>2, <1>3, <2>1, <2>4, AbstractVariables, AbstractStepCases DEF generation
<1> QED BY <1>4, <1>5

\* Removing the last journal changes nothing that was settled.
LEMMA ForgetRefines ==
  ASSUME IInv, InvDirectory, InvSettled, CleanupJournal
  PROVE  AbstractStep
<1>1. Settled /\ Settled'
  BY DEF CleanupJournal, RemoveJournal, NoJournal, InvSettled, Settled
<1>2. generation' = generation /\ closed' = closed
  BY GenerationStays DEF CleanupJournal, RemoveJournal, closed
<1> QED BY <1>1, <1>2, AbstractVariables, AbstractStepCases

\* Targets change only while something is undecided, behind a closed door.
LEMMA TargetCallRefines ==
  ASSUME IInv, InvDirectory, InvSettled, TargetCall
  PROVE  AbstractStep
<1>1. Leaves(Transaction) /\ journalOnDisk' = journalOnDisk
  BY TargetCallDisturbs
<1>2. ~Settled
  <2>1. journal \in journalOnDisk /\ journal \in Journal
    BY DEF IInv, TypeOK, VolumeTypeOK
  <2>2. CASE pc \in Replacing \cup Restoring
    BY <2>1, <2>2 DEF IInv, InvReplacing, InvRestoring, Settled
  <2>3. CASE pc \in Removing
    BY <2>1, <2>3 DEF IInv, InvRemoving, Terminal, Settled
  <2> QED
    BY <2>2, <2>3 DEF TargetCall, Preserve, Publish, AppendSome, AppendRest, RemoveNew, RestoreBackup, Truncate
<1>3. closed /\ closed' /\ ~Settled'
  BY <1>1, <1>2, UnsettledIsClosed DEF Leaves, closed, Settled
<1> QED BY <1>2, <1>3, ChangeIsAbstract

\* The directory comes and goes while one generation is settled.
LEMMA DirectoryRefines ==
  ASSUME IInv, InvDirectory, InvSettled, Begin \/ CleanupDirectory
  PROVE  AbstractStep
<1>1. PICK content \in {"absent", "present"} : Write(Transaction, content)
  BY DEF Begin, CleanupDirectory
<1>2. /\ live'[Transaction] = content /\ KeptBut({Transaction}) /\ journalOnDisk' = journalOnDisk
      /\ journal' = journal
  BY <1>1, WriteEffect, PlainNamesExist DEF Content, IInv, TypeOK
<1>3. generation' = generation
  BY <1>2, GenerationStays, NamesExist, TransactionDistinct DEF KeptBut
<1>4. Settled /\ Settled'
  BY <1>2 DEF Begin, CleanupDirectory, IInv, Enclosed, InvFinishing, InvSettled, Settled
<1>5. closed' \in BOOLEAN /\ closed \in BOOLEAN
  BY DEF closed
<1>6. CASE closed' = closed
  BY <1>3, <1>4, <1>6, AbstractVariables, AbstractStepCases
<1>7. CASE closed' # closed
  BY <1>3, <1>4, <1>5, <1>7, AbstractVariables, AbstractStepCases
<1> QED BY <1>6, <1>7

\* A loss of power changes no generation that was settled, and settles at most
\* on the one that the journal it leaves has decided.
LEMMA PowerLossRefines ==
  ASSUME IInv, InvDirectory, InvSettled, LosePower
  PROVE  AbstractStep
<1>1. /\ \A n \in Name : live'[n] \in disk[n] /\ disk'[n] = {live'[n]}
      /\ journal' \in journalOnDisk /\ journalOnDisk' = {journal'}
      /\ live'[Transaction] = "absent" => journal' = NoJournal
  BY LossSettles DEF IInv, TypeOK
<1>2. /\ Settled' <=> journal'.phase \in {"None", "Committed", "RolledBack"}
      /\ Settled => Settled'
  BY <1>1 DEF Settled
<1>3. ASSUME Settled' PROVE generation' = generation /\ generation \in {"old", "new"}
  <2>1. (OldOnDisk \/ NewOnDisk) /\ generation \in {"old", "new"}
    BY <1>1, <1>2, <1>3, DecidedGeneration
  <2>2. \A o \in Output : live'[Target(o)] = live[Target(o)]
    BY <1>1, <2>1, NamesExist DEF OldOnDisk, NewOnDisk, IInv, TypeOK, VolumeTypeOK
  <2> QED BY <2>1, <2>2, GenerationStays
<1>4. CASE Settled
  <2>1. generation' = generation /\ Settled'
    BY <1>2, <1>3, <1>4
  <2>2. closed \in BOOLEAN /\ closed' \in BOOLEAN
    BY DEF closed
  <2> QED BY <1>4, <2>1, <2>2, AbstractVariables, AbstractStepCases
<1>5. CASE ~Settled
  <2>1. closed /\ closed'
    BY <1>1, <1>5, UnsettledIsClosed, PlainNamesExist DEF DirectoryKept, closed
  <2>2. CASE Settled'
    BY <1>3, <1>5, <2>1, <2>2, AbstractVariables, AbstractStepCases
  <2>3. CASE ~Settled'
    BY <1>5, <2>1, <2>3, ChangeIsAbstract
  <2> QED BY <2>2, <2>3
<1> QED BY <1>4, <1>5

\* Every step of the transaction is a step of the abstract installation.
LEMMA NextRefines ==
  IInv /\ InvDirectory /\ InvSettled /\ [Next]_vars => AbstractStep
<1> SUFFICES ASSUME IInv, InvDirectory, InvSettled, [Next]_vars PROVE AbstractStep
  OBVIOUS
<1>1. CASE InsideCall
  <2>1. /\ \A o \in Output : live'[Target(o)] = live[Target(o)]
        /\ live'[Transaction] = live[Transaction]
    BY <1>1, InsideDisturbs, InsideNames, NamesExist, PlainNamesExist DEF Disturbs, Leaves
  <2> QED BY <1>1, <2>1, InsideJournal, QuietRefines, PublishRefines, ForgetRefines
<1>2. CASE TemporaryCall
  <2>1. live'[Transaction] = live[Transaction] /\ journalOnDisk' = journalOnDisk
    BY <1>2, TemporaryCallDisturbs DEF Leaves
  <2>2. \A o \in Output : live'[Target(o)] = live[Target(o)]
    <3>1. VolumeTypeOK /\ \A o \in Output : {Temporary(o)} \in SUBSET Minor /\ Temporary(o) \in Minor
      BY MinorNames DEF IInv, TypeOK
    <3>2. pc \in Replacing => Current \in Output
      BY DEF IInv, InvReplacing, Current
    <3>3. CASE TemporaryCreate \/ TemporaryFill
      BY <3>1, <3>2, <3>3, CalmWrite DEF TemporaryCreate, TemporaryFill, Content, Calm
    <3>4. CASE CleanTemporary
      <4>1. PICK n \in Temporaries : Remove({n})
        BY <3>4 DEF CleanTemporary, Present
      <4> QED BY <3>1, <4>1, CalmRemove DEF Temporaries, Calm
    <3>5. CASE FailNewFile
      BY <3>1, <3>2, <3>5, NamesExist, TargetsDistinct DEF FailNewFile, VolumeTypeOK
    <3> QED BY <1>2, <3>3, <3>4, <3>5 DEF TemporaryCall
  <2> QED BY <2>1, <2>2, QuietRefines
<1>3. CASE TargetCall
  BY <1>3, TargetCallRefines
<1>4. CASE Begin \/ CleanupDirectory
  BY <1>4, DirectoryRefines
<1>5. CASE PowerLoss
  BY <1>5, PowerLossRefines DEF PowerLoss
<1>6. CASE UNCHANGED vars
  BY <1>6, QuietRefines DEF vars, volume
<1> QED BY <1>1, <1>2, <1>3, <1>4, <1>5, <1>6, NextCases

\* A volume nobody has touched holds the old generation, open and settled.
LEMMA InitRefines == Init => Abstract!AbstractInit
<1> SUFFICES ASSUME Init PROVE Abstract!AbstractInit
  OBVIOUS
<1>1. live[Transaction] = "absent"
  BY PlainNamesExist, TransactionDistinct DEF Init, VolumeInit, Medias
<1>2. Settled
  BY DEF Init, VolumeInit, Settled, NoJournal
<1>3. AllOld
  <2>1. IInv /\ journal \in journalOnDisk
    BY InitInvariant DEF IInv, TypeOK, VolumeTypeOK
  <2>2. OldOnDisk
    <3>1. \A o \in Output : Target(o) \in Name /\ Target(o) \notin Medias
      BY NamesExist, TargetsDistinct DEF Medias
    <3>2. \A o \in Output : (\E p \in Output : Target(o) = Target(p) /\ Kind[p] # "new") <=> Kind[o] # "new"
      BY TargetsDistinct
    <3> QED BY <3>1, <3>2 DEF Init, VolumeInit, Original, OldOnDisk
  <2> QED BY <2>1, <2>2, NamesExist DEF OldOnDisk, AllOld, IInv, TypeOK, VolumeTypeOK
<1> QED BY <1>1, <1>2, <1>3, AbstractVariables DEF generation, closed

\* The transaction implements the abstract installation (Device::open against
\* install_staged_and_open and recover_with_failure_mode), where recovery makes
\* the journal it found durable before it acts on a terminal one.
THEOREM AtomicInstallation == Resyncs => (Spec => InstallsAtomically)
<1> SUFFICES ASSUME Resyncs PROVE Spec => InstallsAtomically
  OBVIOUS
<1>1. Spec => []InvSettled
  BY SettledInvariance
<1>2. IInv /\ InvDirectory /\ InvSettled /\ [Next]_vars => [Abstract!AbstractNext]_(Abstract!abstract)
  BY NextRefines DEF AbstractStep
<1> QED
  BY <1>1, <1>2, InitRefines, Invariance, DirectoryInvariance, PTL
  DEF Spec, InstallsAtomically, Abstract!AbstractSpec
=============================================================================
