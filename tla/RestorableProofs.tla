-------------------------- MODULE RestorableProofs --------------------------
(***************************************************************************)
(* Proofs that a transaction which only losses of power interrupt, or only *)
(* failures and killed processes, always leaves recovery a state it acts   *)
(* on and the originals it may have to put back, whatever the number and   *)
(* kind of outputs and interruptions.                                      *)
(***************************************************************************)
EXTENDS RestorableInvariant, DirectoryProofs

USE DEF Preparing, Writing, Staging, Spooling, Filled, Placed, Replacing,
        CleaningUp, Cleaning, Removing, Returned, Restoring, Positioned

-----------------------------------------------------------------------------
(* What may be found after a step.                                          *)

\* What was read under a name is read still, what was certain to be found
\* stays certain, and nothing else may be found.
Firm(n) ==
  /\ live'[n] = live[n]
  /\ Found(n)' \subseteq Found(n)
  /\ \A content \in Content : Found(n) = {content} => Found(n)' = {content}

\* What is read may be found.
LEMMA LiveIsFound ==
  ASSUME VolumeTypeOK, NEW n \in Name
  PROVE  live[n] \in Found(n) /\ Found(n) \subseteq disk[n] /\ Found(n) \subseteq Content
BY DEF VolumeTypeOK, Found

\* What is durable is found.
LEMMA DurableIsFound ==
  ASSUME VolumeTypeOK, NEW n \in Name, NEW content, disk[n] = {content}
  PROVE  Found(n) = {content}
BY DEF VolumeTypeOK, Found

\* A name that a step leaves is firm.
LEMMA LeavesIsFirm ==
  ASSUME VolumeTypeOK, NEW n \in Name, Leaves(n)
  PROVE  Firm(n)
BY DEF VolumeTypeOK, Found, Leaves, Firm

\* Of what is written only that may be found anew.
LEMMA FoundWrite ==
  ASSUME VolumeTypeOK, NEW n \in Name, NEW content \in Content, Write(n, content)
  PROVE  /\ Found(n)' \subseteq Found(n) \cup {content, "torn"}
         /\ "torn" \in Found(n)' => "torn" \in Found(n) \cup {content} \/ Tears
         /\ (\A o \in Output : n # Target(o)) => Found(n)' \subseteq Found(n) \cup {content}
         /\ live'[n] = content
BY DEF Write, VolumeTypeOK, Found, Reaches, Tears

\* What is removed may be found absent.
LEMMA FoundRemove ==
  ASSUME VolumeTypeOK, NEW names \in SUBSET Name, NEW n \in names, Remove(names)
  PROVE  Found(n)' \subseteq Found(n) \cup {"absent"} /\ live'[n] = "absent"
BY DEF Remove, VolumeTypeOK, Found

\* What is renamed may be found under both names.
LEMMA FoundRename ==
  ASSUME VolumeTypeOK, NEW from \in Name, NEW to \in Name, from # to, Rename(from, to)
  PROVE  /\ Found(from)' \subseteq Found(from) \cup {"absent"} /\ live'[from] = "absent"
         /\ Found(to)' \subseteq Found(to) \cup {live[from]} /\ live'[to] = live[from]
         /\ live[from] \in disk'[from]
BY DEF Rename, VolumeTypeOK, Found

\* What is flushed is found as it is read.
LEMMA FoundFlush ==
  ASSUME VolumeTypeOK, NEW names, disk' = Flushed(names), live' = live,
         NEW n \in Name, n \in names
  PROVE  Found(n)' = {live[n]} /\ disk'[n] = {live[n]}
BY DEF Flushed, VolumeTypeOK, Found

-----------------------------------------------------------------------------
(* What a step must leave of an output, and of a journal.                   *)

\* What recovery needs of an output stays as long as its files are firm.
LEMMA OutputStays ==
  ASSUME VolumeTypeOK, NEW o \in Output, Firm(Target(o)), Firm(Backup(o)),
         Kind[o] = "append" => Firm(Spool(o)), ~InMotion(o)
  PROVE  /\ Untouched(o) => Untouched(o)'
         /\ Undoable(o) => Undoable(o)'
         /\ Returnable(o) => Returnable(o)'
<1>1. "absent" \in Content /\ "old" \in Content /\ "new" \in Content
  BY DEF Content
<1>2. Untouched(o) => Untouched(o)'
  BY <1>1 DEF Untouched, Firm
<1>3. Undoable(o) => Undoable(o)'
  BY <1>1 DEF Undoable, Firm
<1>4. Returnable(o) => Returnable(o)'
  BY <1>1 DEF Returnable, Firm
<1> QED BY <1>2, <1>3, <1>4

\* An output that can be undone can be returned.
LEMMA UndoableIsReturnable ==
  ASSUME VolumeTypeOK, NEW o \in Output, Undoable(o)
  PROVE  Returnable(o)
BY NamesExist, LiveIsFound DEF Undoable, Returnable

\* What backs a journal stays if targets and backups are firm, the spools of
\* the outputs it counts, and, for no journal, what is absent.
LEMMA BackedStays ==
  ASSUME VolumeTypeOK, NEW j \in Journal,
         \A o \in Output : Firm(Target(o)) /\ Firm(Backup(o)) /\ ~InMotion(o),
         \/ j.phase \in {"BackingUp", "Committed", "RolledBack"}
         \/ j.phase # "None" /\ \A o \in Output : o <= j.installed => Firm(Spool(o))
         \/ /\ j.phase = "None"
            /\ \A n \in Entries \ {JournalTemporary, BackupDirectory} :
                  Found(n) = {"absent"} => Found(n)' = {"absent"}
  PROVE  Backed(j) => Backed(j)'
<1>1. \A o \in Output : Untouched(o) => Untouched(o)'
  BY DEF Untouched, Firm, Content
<1>2. ASSUME j.phase # "None", \A o \in Output : o <= j.installed => Firm(Spool(o))
      PROVE  \A o \in Output : o <= j.installed =>
               (Undoable(o) => Undoable(o)') /\ (Returnable(o) => Returnable(o)')
  BY <1>2, OutputStays
<1>3. CASE j.phase \in {"None", "BackingUp", "Committed", "RolledBack"}
  BY <1>1, <1>3 DEF Backed
<1>4. CASE j.phase \in {"Installing", "Validating", "RollingBack"}
  <2>1. \A o \in Output : o <= j.installed =>
          (Undoable(o) => Undoable(o)') /\ (Returnable(o) => Returnable(o)')
    BY <1>2, <1>4
  <2>2. j.installed \in 0..Outputs
    BY DEF Journal
  <2> QED BY <1>1, <1>4, <2>1, <2>2, VolumeAssumption DEF Backed, Output
<1> QED BY <1>3, <1>4 DEF Journal, Phase

-----------------------------------------------------------------------------
(* The actions, by what they may disturb.                                   *)

\* The names recovery does not need.
Aside == {Temporary(o) : o \in Output} \cup Medias \cup {Transaction}

\* The calls that only sync, or change what recovery does not need.
StillCall ==
  \/ JournalSync \/ BeginSync \/ ReserveSync \/ BackupDirectorySync \/ Recheck
  \/ SpoolSync \/ Intend \/ TemporaryCall
  \/ TemporarySync \/ PreserveSync \/ RemovalSync \/ PublishSync \/ Finish
  \/ CleanupSync \/ CleanupJournal \/ CleanupDone \/ Begin \/ CleanupDirectory
  \/ Recover \/ RecoverNothing \/ RecoverAccepted \/ Refuse
  \/ ReleaseSync \/ ParentsSync
  \/ RemoveNewSync \/ RollbackIntent \/ RestoredSync \/ ConsumedSync
  \/ KeepOriginal \/ TruncateSync \/ Restored
  \/ Stop \/ FailInstall \/ UNCHANGED vars

\* The calls that change an entry of the transaction directory.
EntryCall ==
  \/ JournalCreate \/ JournalRename \/ ReserveSpace \/ CreateBackupDirectory
  \/ SpoolCreate \/ SpoolFill \/ CleanupEntry \/ CleanupBackupDirectory
  \/ RecoverScaffold \/ CleanJournal \/ Release

\* Every step is one of these, changes a target or a backup, or is a loss of
\* power.
LEMMA FileCases ==
  ASSUME [Next]_vars
  PROVE  StillCall \/ EntryCall \/ TargetCall \/ CleanupBackup \/ PowerLoss
BY NextCases DEF InsideCall, StillCall, EntryCall, WriteJournal, Prepare

\* Aside are no targets, backups or entries.
LEMMA AsideNames ==
  /\ Aside \subseteq Name
  /\ \A o \in Output : /\ Target(o) \notin Aside /\ Backup(o) \notin Aside /\ Spool(o) \notin Aside
                       /\ Temporary(o) \in Aside
  /\ \A n \in Entries : n \in Name /\ n \notin Aside
  /\ Transaction \in Aside
  /\ \A d \in Deletion : Media(d) \in Aside
BY DEF Aside, Name, Backups, Entries, Medias, Target, Temporary, Backup, Spool, Media,
   Transaction, BackupDirectory, JournalTemporary, Reserve

\* The files of the transaction are not targets.
LEMMA EntryNames ==
  /\ \A n \in Entries, o \in Output : n # Target(o) /\ n # Backup(o)
  /\ \A o \in Output : Spool(o) \in Entries
  /\ JournalTemporary \in Entries /\ BackupDirectory \in Entries /\ Reserve \in Entries
  /\ \A o \in Output : Spool(o) \notin {JournalTemporary, BackupDirectory, Reserve}
  /\ \A o, p \in Output : (Spool(o) = Spool(p) => o = p) /\ (Backup(o) = Backup(p) => o = p)
  /\ Reserve \notin {JournalTemporary, BackupDirectory} /\ JournalTemporary # BackupDirectory
BY DEF Entries, Target, Backup, Spool, BackupDirectory, JournalTemporary, Reserve

\* The still calls disturb nothing that recovery needs.
LEMMA StillDisturbs == ASSUME IInv, StillCall PROVE Disturbs(Aside)
<1>1. VolumeTypeOK
  BY DEF IInv, TypeOK
<1>2. CASE UNCHANGED volume
  BY <1>2, UnchangedDisturbs DEF Disturbs
<1>3. ASSUME NEW names, Sync(names) \/ SyncTransaction(names) \/ SyncDevice
      PROVE  Disturbs(Aside)
  BY <1>1, <1>3, SyncDisturbs DEF Disturbs
<1>4. ASSUME NEW n \in Aside, NEW content \in Content, Write(n, content)
      PROVE  Disturbs(Aside)
  BY <1>1, <1>4, WriteDisturbs, AsideNames DEF Disturbs
<1>5. ASSUME NEW names \in SUBSET Aside, Remove(names)
      PROVE  Disturbs(Aside)
  BY <1>1, <1>5, RemoveDisturbs, AsideNames DEF Disturbs
<1>6. CASE JournalSync \/ BeginSync \/ ReserveSync \/ BackupDirectorySync \/ Recheck
  BY <1>2, <1>3, <1>6 DEF JournalSync, BeginSync, ReserveSync, BackupDirectorySync, Recheck
<1>7. CASE SpoolSync \/ Intend \/ TemporarySync \/ PreserveSync \/ RemovalSync \/ PublishSync
  BY <1>2, <1>3, <1>7 DEF SpoolSync, Intend, TemporarySync, PreserveSync, RemovalSync, PublishSync
<1>8. CASE TemporaryCreate \/ TemporaryFill
  <2>1. Current \in Output
    BY <1>8 DEF TemporaryCreate, TemporaryFill, Current, IInv, InvReplacing
  <2> QED BY <1>4, <1>8, <2>1, AsideNames DEF TemporaryCreate, TemporaryFill, Content
<1>9. CASE CleanTemporary
  <2>1. \A n \in Present(Temporaries) : {n} \in SUBSET Aside
    BY DEF Present, Temporaries, Aside
  <2> QED BY <1>5, <1>9, <2>1 DEF CleanTemporary
<1>10. CASE FailNewFile
  <2>1. Current \in Output
    BY <1>10 DEF FailNewFile, Current, IInv, InvReplacing
  <2>2. Temporary(Current) \in Aside /\ Target(Current) \in Name /\ Temporary(Current) # Target(Current)
    BY <2>1, AsideNames, NamesExist, TargetsDistinct
  <2> QED BY <1>1, <1>10, <2>2 DEF FailNewFile, VolumeTypeOK, Disturbs, Leaves
<1>11. CASE Finish
  <2>1. DeleteMedia => {Media(at)} \in SUBSET Aside
    BY AsideNames DEF DeleteMedia
  <2> QED BY <1>2, <1>3, <1>5, <1>11, <2>1 DEF Finish, DeleteMedia, DeletionSync, Validate
<1>12. CASE CleanupSync \/ CleanupJournal \/ CleanupDone \/ Begin \/ CleanupDirectory
  BY <1>3, <1>4, <1>12, RemoveJournalDisturbs, AsideNames
  DEF CleanupSync, CleanupJournal, CleanupDone, Begin, CleanupDirectory, Content, Disturbs
<1>13. CASE Recover \/ RecoverNothing \/ RecoverAccepted \/ Refuse \/ ReleaseSync \/ ParentsSync
  BY <1>2, <1>3, <1>13 DEF Recover, RecoverNothing, RecoverAccepted, Refuse, ReleaseSync, ParentsSync
<1>14. CASE RemoveNewSync \/ RollbackIntent \/ RestoredSync \/ ConsumedSync \/ TruncateSync \/ Restored
  BY <1>2, <1>3, <1>14
  DEF RemoveNewSync, RollbackIntent, RestoredSync, ConsumedSync, TruncateSync, Restored
<1>15. CASE KeepOriginal
  BY <1>3, <1>15 DEF KeepOriginal
<1>16. CASE Stop \/ FailInstall \/ UNCHANGED vars
  BY <1>2, <1>16 DEF Stop, FailInstall, vars, volume
<1> QED
  BY <1>6, <1>7, <1>8, <1>9, <1>10, <1>11, <1>12, <1>13, <1>14, <1>15, <1>16
  DEF StillCall, TemporaryCall

\* Nor do they weaken it.
LEMMA StillIsFirm ==
  ASSUME IInv, StillCall
  PROVE  /\ \A o \in Output : Firm(Target(o)) /\ Firm(Backup(o)) /\ Firm(Spool(o))
         /\ \A n \in Entries : Firm(n)
BY StillDisturbs, AsideNames, NamesExist, LeavesIsFirm DEF Disturbs, IInv, TypeOK

\* The calls that change an entry change no target and no backup.
LEMMA EntryIsFirm ==
  ASSUME IInv, EntryCall
  PROVE  \A o \in Output : Firm(Target(o)) /\ Firm(Backup(o))
<1>1. VolumeTypeOK
  BY DEF IInv, TypeOK
<1>2. ASSUME NEW names \in SUBSET Entries, Disturbs(names)
      PROVE  \A o \in Output : Firm(Target(o)) /\ Firm(Backup(o))
  BY <1>1, <1>2, EntryNames, NamesExist, LeavesIsFirm DEF Disturbs
<1>3. ASSUME NEW n \in Entries, NEW content \in Content, Write(n, content)
      PROVE  \A o \in Output : Firm(Target(o)) /\ Firm(Backup(o))
  BY <1>1, <1>2, <1>3, WriteDisturbs, AsideNames
<1>4. ASSUME NEW names \in SUBSET Entries, Remove(names)
      PROVE  \A o \in Output : Firm(Target(o)) /\ Firm(Backup(o))
  <2>1. names \in SUBSET Name
    BY AsideNames
  <2> QED BY <1>1, <1>2, <1>4, <2>1, RemoveDisturbs
<1>5. CASE JournalCreate \/ ReserveSpace \/ CreateBackupDirectory
  BY <1>3, <1>5, EntryNames DEF JournalCreate, ReserveSpace, CreateBackupDirectory, Content
<1>6. CASE JournalRename
  <2>1. {JournalTemporary} \in SUBSET Entries
    BY EntryNames
  <2> QED BY <1>1, <1>2, <1>6, <2>1, PublishDisturbs DEF JournalRename
<1>7. CASE SpoolCreate \/ SpoolFill
  <2>1. Following \in Output
    BY <1>7, VolumeAssumption
    DEF SpoolCreate, SpoolFill, IInv, TypeOK, Located, Following, Journal, Output
  <2> QED BY <1>3, <1>7, <2>1, EntryNames DEF SpoolCreate, SpoolFill, Content
<1>8. CASE CleanupEntry \/ CleanupBackupDirectory \/ RecoverScaffold \/ CleanJournal
  <2>1. /\ \A n \in Entries : {n} \in SUBSET Entries
        /\ {JournalTemporary, BackupDirectory} \in SUBSET Entries
        /\ JournalTemporary \in Entries /\ BackupDirectory \in Entries
    BY EntryNames
  <2> QED
    BY <1>4, <1>8, <2>1 DEF CleanupEntry, CleanupBackupDirectory, RecoverScaffold, CleanJournal
<1>9. CASE Release
  <2>1. \A n \in Present(Expendable) : {n} \in SUBSET Entries
    BY EntryNames DEF Present, Expendable
  <2> QED BY <1>4, <1>9, <2>1 DEF Release
<1> QED BY <1>5, <1>6, <1>7, <1>8, <1>9 DEF EntryCall

-----------------------------------------------------------------------------
(* The journals stay backed.                                                *)

\* The journals found after a step were found before, but for the one just
\* published.
LEMMA FoundJournalsGrow ==
  ASSUME IInv, [Next]_vars
  PROVE  /\ FoundJournals' \subseteq FoundJournals \cup {journal'}
         /\ journal \in FoundJournals /\ FoundJournals \subseteq Journal
         /\ ~JournalRename /\ ~CleanupJournal /\ ~PowerLoss =>
              journal' = journal /\ FoundJournals' \subseteq FoundJournals
         /\ journalOnDisk' = {journal'} => FoundJournals' = {journal'}
<1>1. journal \in journalOnDisk /\ journalOnDisk \subseteq Journal /\ journal \in Journal
  BY DEF IInv, TypeOK, VolumeTypeOK
<1>2. journal \in FoundJournals /\ FoundJournals \subseteq Journal /\ FoundJournals \subseteq journalOnDisk
  BY <1>1 DEF FoundJournals
<1>3. CASE journal' = journal /\ journalOnDisk' \in {journalOnDisk, {journal}}
  BY <1>1, <1>2, <1>3 DEF FoundJournals
<1>4. CASE JournalRename \/ CleanupJournal
  BY <1>1, <1>2, <1>4 DEF JournalRename, PublishJournal, CleanupJournal, RemoveJournal, FoundJournals
<1>5. CASE PowerLoss
  BY <1>1, <1>2, <1>5, LossSettles DEF PowerLoss, FoundJournals, IInv, TypeOK
<1>6. CASE Begin \/ CleanupDirectory
  BY <1>3, <1>6 DEF Begin, CleanupDirectory, Write
<1>7. CASE UNCHANGED vars
  BY <1>3, <1>7 DEF vars, volume
<1> QED
  BY <1>3, <1>4, <1>5, <1>6, <1>7, NextCases, InsideJournal, TargetCallDisturbs, TemporaryCallDisturbs

\* With one journal on the disk no other is found.
LEMMA OneJournal ==
  ASSUME IInv, NEW j, journalOnDisk = {j}
  PROVE  FoundJournals = {j} /\ journal = j
BY DEF IInv, TypeOK, VolumeTypeOK, FoundJournals

\* A failure only happens where losses of power do not, and the reverse.
LEMMA SteadyFailures ==
  ASSUME Steady, Counted, BoundsAssumption
  PROVE  /\ Stop \/ FailInstall \/ FailNewFile => MaxFailures # 0 /\ MaxPowerLosses = 0
         /\ PowerLoss => MaxFailures = 0
BY DEF Steady, Counted, BoundsAssumption, Stop, FailInstall, FailNewFile, Fails, PowerLoss

\* The points at which a rename of an original is not yet durable.
Moving == {"preserve_sync", "restored_sync"}

\* Still calls weaken no journal, unless an original is in motion.
LEMMA StillBacks ==
  ASSUME IInv, StillCall, pc \notin Moving
  PROVE  /\ \A j \in Journal : Backed(j) => Backed(j)'
         /\ \A o \in Output : /\ Untouched(o) => Untouched(o)'
                              /\ Undoable(o) => Undoable(o)'
                              /\ Returnable(o) => Returnable(o)'
<1>1. VolumeTypeOK /\ \A o \in Output : ~InMotion(o)
  BY DEF IInv, TypeOK, InMotion, Moving
<1>2. \A n \in Entries : Found(n) = {"absent"} => Found(n)' = {"absent"}
  BY StillIsFirm DEF Firm, Content
<1>3. ASSUME NEW j \in Journal PROVE Backed(j) => Backed(j)'
  <2>1. j.phase # "None" \/ j.phase = "None"
    OBVIOUS
  <2> QED BY <1>1, <1>2, <2>1, StillIsFirm, BackedStays
<1> QED BY <1>1, <1>3, StillIsFirm, OutputStays

\* Which still calls there are while an original is in motion.
LEMMA MovingCalls ==
  ASSUME StillCall, pc \in Moving
  PROVE  PreserveSync \/ RestoredSync \/ Stop \/ FailInstall \/ UNCHANGED vars
<1>1. ~(JournalSync \/ BeginSync \/ ReserveSync \/ BackupDirectorySync \/ Recheck \/ SpoolSync \/ Intend)
  BY DEF Moving, JournalSync, BeginSync, ReserveSync, BackupDirectorySync, Recheck, SpoolSync, Intend
<1>2. ~(TemporaryCall \/ TemporarySync \/ RemovalSync \/ PublishSync \/ Finish)
  BY DEF Moving, TemporaryCall, TemporaryCreate, TemporaryFill, CleanTemporary, FailNewFile,
         TemporarySync, RemovalSync, PublishSync, Finish, DeleteMedia, DeletionSync, Validate
<1>3. ~(CleanupSync \/ CleanupJournal \/ CleanupDone \/ Begin \/ CleanupDirectory \/ Recover \/ RecoverNothing)
  BY DEF Moving, CleanupSync, CleanupJournal, CleanupDone, Begin, CleanupDirectory, Recover, RecoverNothing
<1>4. ~(RecoverAccepted \/ Refuse \/ ReleaseSync \/ ParentsSync \/ RemoveNewSync \/ RollbackIntent)
  BY DEF Moving, RecoverAccepted, Refuse, ReleaseSync, ParentsSync, RemoveNewSync, RollbackIntent
<1>5. ~(ConsumedSync \/ KeepOriginal \/ TruncateSync \/ Restored)
  BY DEF Moving, ConsumedSync, KeepOriginal, TruncateSync, Restored
<1> QED BY <1>1, <1>2, <1>3, <1>4, <1>5 DEF StillCall

\* While an original is in motion, syncing where it goes makes it certain, and
\* whoever finds the process killed finds it at one end.
LEMMA MovingBacks ==
  ASSUME IInv, Steady, InvRestorable, StillCall, pc \in Moving
  PROVE  \A j \in FoundJournals : Backed(j) => Backed(j)'
<1>1. VolumeTypeOK /\ FoundJournals = {mem} /\ mem \in Journal
      /\ mem.phase \in {"Installing", "RollingBack"} /\ mem.installed \in 0..Outputs
  BY OneJournal DEF IInv, TypeOK, Moving, InvReplacing, InvRestoring, Journal
<1>2. \A o \in Output : Firm(Target(o)) /\ Firm(Backup(o)) /\ Firm(Spool(o))
  BY StillIsFirm
<1>3. \A o \in Output : /\ Untouched(o) => Untouched(o)'
                        /\ Undoable(o) => Undoable(o)'
  BY <1>2 DEF Firm, Content, Untouched, Undoable
<1>4. ASSUME NEW o \in Output, Returnable(o) PROVE Returnable(o)'
  <2>1. CASE ~InMotion(o)
    BY <1>1, <1>2, <1>4, <2>1, OutputStays
  <2>2. CASE InMotion(o)
    <3>1. Kind[o] = "replace" /\ (pc = "preserve_sync" => live[Backup(o)] = "old")
          /\ (pc = "restored_sync" => live[Target(o)] = "old")
      BY <2>2 DEF InMotion, InvRestorable, InvInFlight, InvRollback, IInv, InvRestoring
    <3>2. /\ Found(Target(o))' \subseteq Found(Target(o)) /\ Found(Backup(o))' \subseteq Found(Backup(o))
          /\ live'[Target(o)] = live[Target(o)] /\ live'[Backup(o)] = live[Backup(o)]
      BY <1>2 DEF Firm
    <3>3. \/ Found(Target(o))' = {"old"} \/ Found(Backup(o))' = {"old"} \/ InMotion(o)'
      <4>1. CASE PreserveSync
        BY <1>1, <2>2, <3>1, <4>1, NamesExist DEF PreserveSync, Sync, Flushed, Backups, InMotion, Found
      <4>2. CASE RestoredSync
        BY <1>1, <2>2, <3>1, <4>2, NamesExist DEF RestoredSync, Sync, Flushed, InParent, InMotion, Found
      <4>3. CASE Stop \/ FailInstall
        <5>1. MaxFailures # 0 /\ live' = live
          BY <4>3, SteadyFailures, BoundsAssumption DEF InvRestorable, Stop, FailInstall, volume
        <5> QED BY <2>2, <3>1, <5>1 DEF Found, InMotion
      <4>4. CASE UNCHANGED vars
        BY <2>2, <4>4 DEF vars, process, InMotion
      <4> QED BY <4>1, <4>2, <4>3, <4>4, MovingCalls
    <3> QED BY <1>4, <3>1, <3>2, <3>3 DEF Returnable
  <2> QED BY <2>1, <2>2
<1>5. ASSUME NEW j \in FoundJournals, Backed(j) PROVE Backed(j)'
  <2>1. j = mem
    BY <1>1
  <2> QED BY <1>1, <1>3, <1>4, <1>5, <2>1, VolumeAssumption DEF Backed, Output
<1> QED BY <1>5

\* The journals that matter: those that may be found, and the one about to be
\* published.
Relevant(j) == j \in FoundJournals \/ (pc \in Writing /\ j = mem)

\* Of a removed entry nothing comes back.
LEMMA RemovedStaysAbsent ==
  ASSUME VolumeTypeOK, NEW names \in SUBSET Name, Remove(names), NEW n \in Name, Found(n) = {"absent"}
  PROVE  Found(n)' = {"absent"}
<1>1. CASE n \in names
  BY <1>1 DEF Remove, VolumeTypeOK, Found
<1>2. CASE n \notin names
  BY <1>2 DEF Remove, VolumeTypeOK, Found
<1> QED BY <1>1, <1>2

\* Calls on the entries weaken no journal that matters.
LEMMA EntryBacks ==
  ASSUME IInv, InvRestorable, EntryCall, NEW j \in Journal, Relevant(j)
  PROVE  Backed(j) => Backed(j)'
<1>1. VolumeTypeOK /\ j.installed \in 0..Outputs /\ mem \in Journal /\ mem.installed \in 0..Outputs
  BY DEF IInv, TypeOK, Journal
<1>2. pc \notin Moving /\ \A o \in Output : ~InMotion(o)
  BY DEF EntryCall, JournalCreate, JournalRename, ReserveSpace, CreateBackupDirectory, SpoolCreate,
         SpoolFill, CleanupEntry, CleanupBackupDirectory, RecoverScaffold, CleanJournal, Release,
         Moving, InMotion
<1>3. \A o \in Output : Firm(Target(o)) /\ Firm(Backup(o)) /\ ~InMotion(o)
  BY <1>2, EntryIsFirm
<1>4. ASSUME Disturbs({JournalTemporary, BackupDirectory}) PROVE Backed(j) => Backed(j)'
  <2>1. \A n \in Entries \ {JournalTemporary, BackupDirectory} : Firm(n)
    BY <1>1, <1>4, AsideNames, LeavesIsFirm DEF Disturbs
  <2>2. \A o \in Output : Firm(Spool(o))
    BY <2>1, EntryNames
  <2>3. \A n \in Entries \ {JournalTemporary, BackupDirectory} :
           Found(n) = {"absent"} => Found(n)' = {"absent"}
    BY <2>1 DEF Firm, Content
  <2> QED BY <1>3, <2>2, <2>3, BackedStays, <1>1
<1>5. CASE JournalCreate \/ CreateBackupDirectory
  BY <1>1, <1>4, <1>5, WriteDisturbs, PlainNamesExist
  DEF JournalCreate, CreateBackupDirectory, Content, Disturbs
<1>6. CASE JournalRename
  BY <1>1, <1>4, <1>6, PublishDisturbs DEF JournalRename, Disturbs
<1>7. CASE CleanupBackupDirectory \/ RecoverScaffold \/ CleanJournal
  <2>1. {BackupDirectory} \in SUBSET Name /\ {JournalTemporary} \in SUBSET Name
        /\ {JournalTemporary, BackupDirectory} \in SUBSET Name
    BY PlainNamesExist
  <2> QED BY <1>1, <1>4, <1>7, <2>1, RemoveDisturbs
      DEF CleanupBackupDirectory, RecoverScaffold, CleanJournal, Disturbs
<1>8. CASE ReserveSpace
  <2>1. j.phase = "BackingUp"
    BY <1>8, OneJournal DEF ReserveSpace, InvRestorable, InvPrepared, Relevant
  <2> QED BY <1>1, <1>3, <2>1, BackedStays
<1>9. CASE SpoolCreate \/ SpoolFill
  <2>0. pc \in Staging
    BY <1>9 DEF SpoolCreate, SpoolFill
  <2>1. j = mem /\ j.phase = "Installing" /\ Following \in Output
    <3>1. journalOnDisk = {mem} /\ mem.phase = "Installing" /\ pc \notin Writing
      BY <2>0 DEF InvRestorable, InvPrepared
    <3>2. Following \in Output
      BY <1>1, <1>9, VolumeAssumption DEF SpoolCreate, SpoolFill, IInv, Located, Following, Output
    <3> QED BY <3>1, <3>2, OneJournal DEF Relevant
  <2>2. Disturbs({Spool(Following)})
    BY <1>1, <1>9, <2>1, WriteDisturbs, NamesExist DEF SpoolCreate, SpoolFill, Content
  <2>3. \A o \in Output : o <= j.installed => Spool(o) \notin {Spool(Following)}
    BY <1>1, <2>1, EntryNames DEF Following, Output
  <2>4. \A o \in Output : o <= j.installed => Firm(Spool(o))
    BY <1>1, <2>2, <2>3, NamesExist, LeavesIsFirm DEF Disturbs
  <2> QED BY <1>1, <1>3, <2>1, <2>4, BackedStays
<1>10. CASE CleanupEntry
  <2>1. j.phase \in {"Committed", "RolledBack"}
    BY <1>10 DEF CleanupEntry, InvRestorable, InvCleanup, Relevant
  <2> QED BY <1>1, <1>3, <2>1, BackedStays
<1>11. CASE Release
  <2>1. PICK n \in Present(Expendable) : Remove({n})
    BY <1>11 DEF Release
  <2>2. n \in Name /\ n \in Expendable /\ {n} \in SUBSET Name
    BY EntryNames, AsideNames DEF Present, Expendable
  <2>3. j.installed <= mem.installed
    BY <1>11 DEF Release, Relevant, InvRestorable, InvBacked, IInv, InvRemoving
  <2>4. \A o \in Output : o <= j.installed => Spool(o) # n
    BY <1>1, <2>2, <2>3, EntryNames DEF Expendable, Output
  <2>5. \A o \in Output : o <= j.installed => Firm(Spool(o))
    BY <1>1, <2>1, <2>2, <2>4, RemoveDisturbs, NamesExist, LeavesIsFirm DEF Disturbs
  <2>6. \A m \in Entries : Found(m) = {"absent"} => Found(m)' = {"absent"}
    BY <1>1, <2>1, <2>2, RemovedStaysAbsent, AsideNames
  <2> QED BY <1>1, <1>3, <2>5, <2>6, BackedStays
<1> QED BY <1>5, <1>6, <1>7, <1>8, <1>9, <1>10, <1>11 DEF EntryCall

\* Calls on a target or a backup.
FileCall == TargetCall \/ CleanupBackup

\* They change the target and the backup of one output at most.
FirmBut(x) ==
  /\ \A o \in Output : o # x => Firm(Target(o)) /\ Firm(Backup(o))
  /\ \A o \in Output : Firm(Spool(o))
  /\ \A n \in Entries : Firm(n)

LEMMA FirmButEffect ==
  ASSUME VolumeTypeOK, NEW x \in Output, NEW n \in {Temporary(x), Backup(x), Target(x)},
         Disturbs({Target(x), n})
  PROVE  FirmBut(x)
<1>1. \A o \in Output : o # x => Target(o) \notin {Target(x), n} /\ Backup(o) \notin {Target(x), n}
  BY DEF Target, Temporary, Backup
<1>2. \A o \in Output : Spool(o) \notin {Target(x), n}
  BY DEF Target, Temporary, Backup, Spool
<1>3. \A e \in Entries : e \notin {Target(x), n} /\ e \in Name
  BY AsideNames DEF Entries, Target, Temporary, Backup, Spool, BackupDirectory, JournalTemporary, Reserve
<1> QED BY <1>1, <1>2, <1>3, NamesExist, LeavesIsFirm DEF Disturbs, FirmBut

\* If one output changes, the other outputs, and no journal, notice.
LEMMA OthersStay ==
  ASSUME VolumeTypeOK, NEW x \in Output, FirmBut(x), pc \notin Moving
  PROVE  /\ \A o \in Output : o # x => /\ Untouched(o) => Untouched(o)'
                                       /\ Undoable(o) => Undoable(o)'
                                       /\ Returnable(o) => Returnable(o)'
         /\ \A n \in Entries : Found(n) = {"absent"} => Found(n)' = {"absent"}
<1>1. \A o \in Output : ~InMotion(o)
  BY DEF InMotion, Moving
<1>2. \A n \in Entries : Found(n) = {"absent"} => Found(n)' = {"absent"}
  BY DEF FirmBut, Firm, Content
<1> QED BY <1>1, <1>2, OutputStays DEF FirmBut

\* The output in flight keeps what it takes to return it.
LEMMA InstallingBacks ==
  ASSUME IInv, InvRestorable, Preserve \/ Publish \/ AppendSome \/ AppendRest,
         NEW x \in Output, mem.installed = x
  PROVE  /\ \A j \in FoundJournals : Backed(j) => Backed(j)'
         /\ \A o \in Output : Kind[o] # "replace" /\ Untouched(o) => Untouched(o)'
<1>1. VolumeTypeOK /\ pc \in Replacing /\ pc \notin Moving
  BY DEF IInv, TypeOK, Preserve, Publish, AppendSome, AppendRest, Moving
<1>2. /\ FoundJournals = {mem} /\ mem \in Journal /\ mem.phase = "Installing"
      /\ mem.installed = x /\ Current = x
  BY <1>1, OneJournal DEF IInv, TypeOK, InvReplacing, Current
<1>3. Backed(mem) => Returnable(x)
  BY <1>2 DEF Backed, Output
<1>4. /\ Target(x) \in Name /\ Backup(x) \in Name /\ Temporary(x) \in Name /\ Spool(x) \in Name
      /\ Target(x) # Backup(x) /\ Target(x) # Temporary(x) /\ Backup(x) # Temporary(x)
      /\ Target(x) # Spool(x) /\ Backup(x) # Spool(x)
  BY <1>2, NamesExist, TargetsDistinct, EntryNames DEF Backup, Temporary, Spool, Target
<1>5. ASSUME FirmBut(x), Returnable(x) => Returnable(x)',
             Kind[x] # "replace" /\ Untouched(x) => Untouched(x)'
      PROVE  /\ \A j \in FoundJournals : Backed(j) => Backed(j)'
             /\ \A o \in Output : Kind[o] # "replace" /\ Untouched(o) => Untouched(o)'
  <2>1. \A o \in Output : o # x => /\ Untouched(o) => Untouched(o)'
                                   /\ Undoable(o) => Undoable(o)'
    BY <1>1, <1>2, <1>5, OthersStay
  <2>2. ASSUME NEW j \in FoundJournals, Backed(j) PROVE Backed(j)'
    <3>1. j = mem /\ j.phase = "Installing" /\ j.installed = x
      BY <1>2
    <3>2. Returnable(x)'
      BY <1>2, <1>3, <1>5, <2>2
    <3>3. x \in Output
      BY <1>2
    <3>4. \A o \in Output : /\ o > j.installed => Untouched(o)'
                            /\ o = j.installed => Returnable(o)'
                            /\ o < j.installed => Undoable(o)'
      <4>1. TAKE o \in Output
      <4>2. o > j.installed => Untouched(o)'
        BY <2>1, <2>2, <3>1, <3>3 DEF Backed, Output
      <4>3. o < j.installed => Undoable(o)'
        BY <2>1, <2>2, <3>1, <3>3 DEF Backed, Output
      <4> QED BY <4>2, <4>3, <3>1, <3>2
    <3> QED BY <3>1, <3>4 DEF Backed
  <2> QED BY <1>5, <2>1, <2>2
<1>6. CASE Preserve
  <2>1. Rename(Target(x), Backup(x)) /\ live[Target(x)] = "old" /\ live[Backup(x)] = "absent"
        /\ Kind[x] = "replace" /\ pc' = "preserve_sync" /\ mem' = mem
    BY <1>2, <1>6 DEF Preserve, Goto, InvRestorable, InvInFlight
  <2>2. FirmBut(x)
    BY <1>1, <1>2, <1>4, <2>1, RenameDisturbs, FirmButEffect
  <2>3. Returnable(x) => Returnable(x)'
    <3>1. InMotion(x)'
      BY <2>1 DEF InMotion
    <3> QED BY <1>1, <1>4, <2>1, <3>1, FoundRename DEF Returnable
  <2> QED BY <1>5, <2>1, <2>2, <2>3
<1>7. CASE Publish
  <2>1. Rename(Temporary(x), Target(x)) /\ live[Temporary(x)] = "new" /\ Kind[x] # "append"
        /\ (Kind[x] = "replace" => Found(Backup(x)) = {"old"})
    BY <1>2, <1>7 DEF Publish, InvRestorable, InvInFlight, IInv, InvReplacing
  <2>2. Disturbs({Target(x), Temporary(x)})
    <3>1. Disturbs({Temporary(x), Target(x)})
      BY <1>1, <1>4, <2>1, RenameDisturbs
    <3> QED BY <3>1 DEF Disturbs
  <2>3. FirmBut(x) /\ Firm(Backup(x))
    BY <1>1, <1>2, <1>4, <2>2, FirmButEffect, LeavesIsFirm DEF Disturbs
  <2>4. Kind[x] # "replace" /\ Untouched(x) => Untouched(x)'
    BY <2>3 DEF Untouched, Firm, Content
  <2>5. Returnable(x) => Returnable(x)'
    <3>1. Found(Target(x))' \subseteq Found(Target(x)) \cup {"new"}
      BY <1>1, <1>4, <2>1, FoundRename
    <3>2. Kind[x] = "replace" => Found(Backup(x))' = {"old"} /\ live'[Backup(x)] = "old"
      BY <1>1, <1>4, <2>1, <2>3, LiveIsFound DEF Firm, Content
    <3>3. Kind[x] \in {"new", "replace", "append"}
      BY <1>2, VolumeAssumption DEF Output
    <3> QED BY <2>1, <3>1, <3>2, <3>3 DEF Returnable
  <2> QED BY <1>5, <2>3, <2>4, <2>5
<1>8. CASE AppendSome \/ AppendRest
  <2>1. PICK content \in {"partial", "new"} : Write(Target(x), content)
    BY <1>2, <1>8 DEF AppendSome, AppendRest
  <2>2. Kind[x] = "append" /\ content \in Content /\ content # "torn"
    BY <1>2, <1>8, <2>1 DEF AppendSome, AppendRest, InvRestorable, InvInFlight, Content
  <2>3. Disturbs({Target(x), Target(x)})
    BY <1>1, <1>4, <2>1, <2>2, WriteDisturbs DEF Disturbs
  <2>4. FirmBut(x) /\ Firm(Backup(x)) /\ Firm(Spool(x))
    BY <1>1, <1>2, <1>4, <2>3, FirmButEffect, LeavesIsFirm DEF Disturbs
  <2>5. Kind[x] # "replace" /\ Untouched(x) => Untouched(x)'
    BY <2>4 DEF Untouched, Firm, Content
  <2>6. Returnable(x) => Returnable(x)'
    <3>1. /\ Found(Target(x))' \subseteq Found(Target(x)) \cup {content, "torn"}
          /\ "torn" \in Found(Target(x))' => "torn" \in Found(Target(x)) \/ Tears
      BY <1>1, <1>4, <2>1, <2>2, FoundWrite
    <3>2. Found(Spool(x)) = {"new"} => Found(Spool(x))' = {"new"}
      BY <2>4 DEF Firm, Content
    <3> QED BY <2>1, <2>2, <3>1, <3>2 DEF Returnable, Tears
  <2> QED BY <1>5, <2>4, <2>5, <2>6
<1> QED BY <1>6, <1>7, <1>8

\* Removing a new output, which needs nothing to be undone.
LEMMA RemoveNewBacks ==
  ASSUME IInv, RemoveNew, NEW j \in Journal
  PROVE  /\ Backed(j) => Backed(j)'
         /\ \A o \in Output : Kind[o] # "replace" /\ Untouched(o) => Untouched(o)'
<1>1. VolumeTypeOK /\ pc \notin Moving /\ \A o \in Output : ~InMotion(o)
  BY DEF IInv, TypeOK, RemoveNew, Moving, InMotion
<1>2. PICK x \in Output : Kind[x] = "new" /\ Remove({Target(x)})
  BY DEF RemoveNew, NextDown
<1>3. Disturbs({Target(x), Target(x)})
  BY <1>1, <1>2, RemoveDisturbs, NamesExist DEF Disturbs
<1>4. Target(x) # Backup(x) /\ Target(x) \in Name /\ Backup(x) \in Name
  BY NamesExist, TargetsDistinct
<1>5. FirmBut(x) /\ Firm(Backup(x))
  BY <1>1, <1>3, <1>4, FirmButEffect, LeavesIsFirm DEF Disturbs
<1>6. Found(Target(x))' \subseteq Found(Target(x)) \cup {"absent"}
  BY <1>1, <1>2, <1>4, FoundRemove
<1>7. \A o \in Output : /\ Untouched(o) => Untouched(o)'
                        /\ Undoable(o) => Undoable(o)'
                        /\ Returnable(o) => Returnable(o)'
  <2>1. Untouched(x) => Untouched(x)'
    BY <1>5 DEF Untouched, Firm, Content
  <2>2. /\ Undoable(x) => Undoable(x)'
        /\ Returnable(x) => Returnable(x)'
    BY <1>2, <1>6 DEF Undoable, Returnable
  <2> QED BY <1>1, <1>5, <2>1, <2>2, OthersStay
<1>8. \A n \in Entries : Found(n) = {"absent"} => Found(n)' = {"absent"}
  BY <1>1, <1>5, OthersStay
<1> QED BY <1>7, <1>8 DEF Backed

\* Putting a replaced or grown original back.
LEMMA ReturningBacks ==
  ASSUME IInv, InvRestorable, RestoreBackup \/ Truncate
  PROVE  /\ \A j \in FoundJournals : Backed(j) => Backed(j)'
         /\ \A o \in Output : Kind[o] # "replace" /\ Untouched(o) => Untouched(o)'
<1>1. VolumeTypeOK /\ pc = "restore" /\ pc \notin Moving
  BY DEF IInv, TypeOK, RestoreBackup, Truncate, Moving
<1>2. /\ FoundJournals = {mem} /\ mem \in Journal /\ mem.phase = "RollingBack"
      /\ mem.installed \in 0..Outputs /\ at <= mem.installed /\ at \in Nat
  BY <1>1, OneJournal DEF IInv, TypeOK, InvRestoring, Located, Journal
<1>3. ASSUME NEW x \in Output, x \in 1..at, FirmBut(x), Returnable(x) => Returnable(x)',
             Kind[x] # "replace" /\ Untouched(x) => Untouched(x)'
      PROVE  /\ \A j \in FoundJournals : Backed(j) => Backed(j)'
             /\ \A o \in Output : Kind[o] # "replace" /\ Untouched(o) => Untouched(o)'
  <2>1. \A o \in Output : o # x => /\ Untouched(o) => Untouched(o)'
                                   /\ Returnable(o) => Returnable(o)'
    BY <1>1, <1>3, OthersStay
  <2>2. ASSUME NEW j \in FoundJournals, Backed(j) PROVE Backed(j)'
    <3>1. j.phase = "RollingBack" /\ j.installed = mem.installed
      BY <1>2
    <3>2. x <= j.installed
      BY <1>2, <1>3, <3>1 DEF Output
    <3>3. \A o \in Output : o > j.installed => Untouched(o)'
      BY <1>2, <2>1, <2>2, <3>1, <3>2 DEF Backed, Output
    <3>4. \A o \in Output : ~(o > j.installed) => Returnable(o)'
      BY <1>2, <1>3, <2>1, <2>2, <3>1 DEF Backed, Output
    <3>5. \A o \in Output : IF o > j.installed THEN Untouched(o)' ELSE Returnable(o)'
      BY <3>3, <3>4
    <3> QED BY <3>1, <3>5 DEF Backed
  <2> QED BY <1>3, <2>1, <2>2
<1>4. CASE RestoreBackup
  <2>1. PICK x \in Output : /\ x \in 1..at /\ Kind[x] = "replace" /\ live[Backup(x)] = "old"
                            /\ Rename(Backup(x), Target(x))
                            /\ pc' = "restored_sync" /\ at' = x
    BY <1>4 DEF RestoreBackup, NextDown, GotoAt
  <2>2. Target(x) \in Name /\ Backup(x) \in Name /\ Target(x) # Backup(x)
    BY NamesExist, TargetsDistinct
  <2>3. Disturbs({Target(x), Backup(x)})
    <3>1. Disturbs({Backup(x), Target(x)})
      BY <1>1, <2>1, <2>2, RenameDisturbs
    <3> QED BY <3>1 DEF Disturbs
  <2>4. FirmBut(x)
    BY <1>1, <2>3, FirmButEffect
  <2>5. Returnable(x) => Returnable(x)'
    <3>1. InMotion(x)'
      BY <2>1 DEF InMotion
    <3> QED BY <1>1, <2>1, <2>2, <3>1, FoundRename DEF Returnable
  <2> QED BY <1>3, <2>1, <2>4, <2>5
<1>5. CASE Truncate
  <2>1. PICK x \in Output : x \in 1..at /\ Kind[x] = "append" /\ Write(Target(x), "old")
    BY <1>5 DEF Truncate, NextDown
  <2>2. Target(x) \in Name /\ Backup(x) \in Name /\ Spool(x) \in Name
        /\ Target(x) # Backup(x) /\ Target(x) # Spool(x) /\ "old" \in Content
    BY NamesExist, TargetsDistinct DEF Content
  <2>3. Disturbs({Target(x), Target(x)})
    BY <1>1, <2>1, <2>2, WriteDisturbs DEF Disturbs
  <2>4. FirmBut(x) /\ Firm(Backup(x)) /\ Firm(Spool(x))
    BY <1>1, <2>2, <2>3, FirmButEffect, LeavesIsFirm DEF Disturbs
  <2>5. Kind[x] # "replace" /\ Untouched(x) => Untouched(x)'
    BY <2>4 DEF Untouched, Firm, Content
  <2>6. Returnable(x) => Returnable(x)'
    <3>1. /\ Found(Target(x))' \subseteq Found(Target(x)) \cup {"old", "torn"}
          /\ "torn" \in Found(Target(x))' => "torn" \in Found(Target(x)) \/ Tears
      BY <1>1, <2>1, <2>2, FoundWrite
    <3>2. Found(Spool(x)) = {"new"} => Found(Spool(x))' = {"new"}
      BY <2>4 DEF Firm, Content
    <3> QED BY <2>1, <3>1, <3>2 DEF Returnable, Tears
  <2> QED BY <1>3, <2>1, <2>4, <2>5, <2>6
<1> QED BY <1>4, <1>5

\* Backups are only discarded once no journal asks for them.
LEMMA DiscardingBacks ==
  ASSUME IInv, InvRestorable, CleanupBackup
  PROVE  /\ \A j \in FoundJournals : Backed(j) => Backed(j)'
         /\ \A o \in Output : Untouched(o) => Untouched(o)'
         /\ \A n \in Entries : Firm(n)
         /\ \A o \in Output : Firm(Target(o))
<1>1. VolumeTypeOK /\ pc = "cleanup"
  BY DEF IInv, TypeOK, CleanupBackup
<1>2. PICK n \in Backups : Remove({n})
  BY DEF CleanupBackup
<1>3. n \in Name /\ {n} \in SUBSET Name /\ \A e \in Entries : e # n /\ e \in Name
  <2>1. n \in Name /\ \A e \in Entries : e \in Name
    BY <1>2, AsideNames, NamesExist DEF Backups
  <2>2. \A e \in Entries : e # n
    BY <1>2 DEF Backups, Backup, Entries, BackupDirectory, JournalTemporary, Reserve, Spool
  <2> QED BY <2>1, <2>2
<1>4. \A o \in Output : Untouched(o) => Untouched(o)'
  BY <1>1, <1>2, <1>3, NamesExist, RemovedStaysAbsent DEF Untouched
<1>5. ASSUME NEW j \in FoundJournals, Backed(j) PROVE Backed(j)'
  <2>1. j.phase \in {"Committed", "RolledBack"}
    BY <1>1 DEF InvRestorable, InvCleanup
  <2> QED BY <1>5, <2>1 DEF Backed
<1>6. (\A e \in Entries : Firm(e)) /\ (\A o \in Output : Firm(Target(o)))
  <2>1. \A o \in Output : Target(o) \notin {n} /\ Target(o) \in Name
    BY <1>2, NamesExist, TargetsDistinct DEF Backups
  <2>2. Disturbs({n})
    BY <1>1, <1>2, <1>3, RemoveDisturbs
  <2>3. \A e \in Name \ {n} : Firm(e)
    BY <1>1, <2>2, LeavesIsFirm DEF Disturbs
  <2> QED BY <1>3, <2>1, <2>3
<1> QED BY <1>4, <1>5, <1>6

\* But for losses of power, no step weakens a journal that matters, or moves
\* into the backup what is not replaced.
LEMMA JournalsStayBacked ==
  ASSUME IInv, Steady, InvRestorable, [Next]_vars, ~PowerLoss
  PROVE  /\ \A j \in Journal : Relevant(j) => Backed(j)'
         /\ \A o \in Output : Kind[o] # "replace" => Untouched(o)'
<1>1. /\ FoundJournals \subseteq Journal /\ mem \in Journal /\ VolumeTypeOK
      /\ \A j \in Journal : Relevant(j) => Backed(j)
      /\ \A o \in Output : Kind[o] # "replace" => Untouched(o)
  BY FoundJournalsGrow DEF IInv, TypeOK, InvRestorable, InvBacked, Relevant
<1>2. pc \notin Writing => \A j \in Journal : Relevant(j) => j \in FoundJournals
  BY DEF Relevant
<1>3. CASE StillCall
  <2>1. \A o \in Output : Untouched(o) => Untouched(o)'
    BY <1>3, StillIsFirm DEF Untouched, Firm, Content
  <2>2. CASE pc \in Moving
    <3>1. pc \notin Writing
      BY <2>2 DEF Moving
    <3> QED BY <1>1, <1>2, <1>3, <2>1, <2>2, <3>1, MovingBacks
  <2>3. CASE pc \notin Moving
    BY <1>1, <1>3, <2>1, <2>3, StillBacks
  <2> QED BY <2>2, <2>3
<1>4. CASE EntryCall
  <2>1. \A o \in Output : Untouched(o) => Untouched(o)'
    BY <1>4, EntryIsFirm DEF Untouched, Firm, Content
  <2>2. ASSUME NEW j \in Journal, Relevant(j) PROVE Backed(j)'
    BY <1>1, <1>4, <2>2, EntryBacks
  <2> QED BY <1>1, <2>1, <2>2
<1>5. CASE TargetCall
  <2>1. pc \notin Writing
    BY <1>5 DEF TargetCall, Preserve, Publish, AppendSome, AppendRest, RemoveNew, RestoreBackup, Truncate
  <2>2. CASE Preserve \/ Publish \/ AppendSome \/ AppendRest
    <3>1. mem.installed \in Output
      BY <2>2 DEF Preserve, Publish, AppendSome, AppendRest, IInv, InvReplacing
    <3> QED BY <1>1, <1>2, <2>1, <2>2, <3>1, InstallingBacks
  <2>3. CASE RemoveNew
    BY <1>1, <2>3, RemoveNewBacks
  <2>4. CASE RestoreBackup \/ Truncate
    BY <1>1, <1>2, <2>1, <2>4, ReturningBacks
  <2> QED BY <1>5, <2>2, <2>3, <2>4 DEF TargetCall
<1>6. CASE CleanupBackup
  <2>1. pc \notin Writing
    BY <1>6 DEF CleanupBackup
  <2> QED BY <1>1, <1>2, <1>6, <2>1, DiscardingBacks
<1> QED BY <1>3, <1>4, <1>5, <1>6, FileCases

-----------------------------------------------------------------------------
(* The journal about to be published.                                       *)

\* The steps that decide on a journal.
Recording == BeginSync \/ Recheck \/ Intend \/ DeletionSync \/ Validate \/ RollbackIntent \/ Restored

\* How a journal comes to be written.
LEMMA WritingArrivals ==
  ASSUME [Next]_vars, pc' \in Writing
  PROVE  (pc \in Writing /\ mem' = mem /\ ~PowerLoss) \/ Recording
<1>1. CASE WriteJournal \/ Prepare \/ UNCHANGED vars
  BY <1>1 DEF WriteJournal, JournalCreate, JournalRename, JournalSync, Goto, AfterJournal, Prepare,
     ReserveSpace, ReserveSync, CreateBackupDirectory, BackupDirectorySync, Recording, vars, process,
     PowerLoss, Stopped
<1>2. CASE InstallOutput
  BY <1>2 DEF InstallOutput, SpoolCreate, SpoolFill, SpoolSync, TemporaryCreate, TemporaryFill, TemporarySync,
     Preserve, PreserveSync, RemovalSync, Publish, PublishSync, AppendSome, AppendRest, Installed,
     Goto, GotoAt, Recording
<1>3. CASE Finish \/ Cleanup
  BY <1>3 DEF Finish, DeleteMedia, Cleanup, CleanupEntry, CleanupBackup, CleanupBackupDirectory, CleanupSync,
     CleanupJournal, CleanupDirectory, CleanupDone, Goto, GotoAt, process, Recording
<1>4. CASE Call \/ RecoverNothing \/ RecoverScaffold \/ RecoverAccepted \/ Refuse \/ Clean
  BY <1>4 DEF Call, Begin, Recover, RecoverNothing, RecoverScaffold, RecoverAccepted, Refuse, Clean,
     CleanTemporary, CleanJournal, Release, ReleaseSync, ParentsSync, Cleaned, Goto, GotoAt, process
<1>5. CASE RollBack
  BY <1>5 DEF RollBack, RemoveNew, RemoveNewSync, RestoreBackup, RestoredSync, ConsumedSync, KeepOriginal,
     Truncate, TruncateSync, Goto, GotoAt, Recording
<1>6. CASE PowerLoss \/ Stop \/ FailInstall \/ FailNewFile
  BY <1>6 DEF PowerLoss, Stop, FailInstall, FailNewFile, Stopped
<1> QED BY <1>1, <1>2, <1>3, <1>4, <1>5, <1>6 DEF Next, Work, RecoveryStep

\* Deciding on a journal is a still call, with no original in motion, and finds
\* no journal but those found before.
LEMMA RecordingIsStill ==
  ASSUME IInv, Recording
  PROVE  /\ StillCall /\ pc \notin Moving /\ journal' = journal
         /\ FoundJournals' \subseteq FoundJournals
<1>1. StillCall /\ pc \notin Moving /\ journal' = journal /\ journalOnDisk' \in {journalOnDisk, {journal}}
  <2>1. CASE BeginSync \/ Recheck \/ Intend
    BY <2>1 DEF StillCall, BeginSync, Recheck, Intend, SyncDevice, volume, Moving
  <2>2. CASE DeletionSync \/ Validate
    BY <2>2 DEF StillCall, Finish, DeletionSync, Validate, Sync, volume, Moving
  <2>3. CASE RollbackIntent \/ Restored
    BY <2>3 DEF StillCall, RollbackIntent, Restored, volume, Moving
  <2> QED BY <2>1, <2>2, <2>3 DEF Recording
<1>2. journal \in journalOnDisk
  BY DEF IInv, TypeOK, VolumeTypeOK
<1> QED BY <1>1, <1>2 DEF FoundJournals

\* Before the output in flight is attempted its original is there.
LEMMA OriginalIsReturnable ==
  ASSUME VolumeTypeOK, NEW o \in Output, Untouched(o), Found(Target(o)) = {Original(o)},
         Kind[o] = "append" => Found(Spool(o)) = {"new"}
  PROVE  Returnable(o)
<1>1. live[Target(o)] = Original(o)
  BY LiveIsFound, NamesExist
<1>2. Kind[o] \in {"new", "replace", "append"}
  BY VolumeAssumption DEF Output
<1> QED BY <1>1, <1>2 DEF Untouched, Returnable, Original

\* Backing up, and installing the first output, follow an untouched device.
LEMMA PrepareRecords ==
  ASSUME IInv, InvRestorable, BeginSync \/ Recheck
  PROVE  Backed(mem)' /\ \A j \in FoundJournals' : j.installed <= mem'.installed
<1>1. /\ \A o \in Output : Untouched(o) => Untouched(o)'
      /\ FoundJournals' \subseteq FoundJournals /\ FoundJournals \subseteq Journal
      /\ journal \in FoundJournals /\ VolumeTypeOK
  BY RecordingIsStill, StillBacks, FoundJournalsGrow DEF Recording, IInv, TypeOK, FoundJournals, VolumeTypeOK
<1>2. \A j \in FoundJournals : Backed(j)
  BY DEF InvRestorable, InvBacked
<1>3. mem'.phase \in {"BackingUp", "Installing"} /\ mem'.installed = 0
  BY VolumeAssumption DEF BeginSync, Recheck, Record
<1>4. \A o \in Output : Untouched(o)
  <2>1. CASE BeginSync
    BY <1>1, <1>2, <2>1 DEF BeginSync, InvRestorable, InvPrepared, Backed
  <2>2. CASE Recheck
    <3>1. FoundJournals = {mem} /\ mem.phase = "BackingUp"
      BY <2>2, OneJournal DEF Recheck, InvRestorable, InvPrepared
    <3> QED BY <1>2, <3>1 DEF Backed
  <2> QED BY <2>1, <2>2
<1>5. \A j \in FoundJournals' : j.installed <= 0
  <2>1. CASE BeginSync
    <3>1. FoundJournals' = {journal}
      BY <2>1 DEF BeginSync, SyncDevice, FoundJournals
    <3>2. journal.phase = "None" /\ Backed(journal)
      BY <1>1, <1>2, <2>1 DEF BeginSync, InvRestorable, InvPrepared
    <3> QED BY <3>1, <3>2 DEF Backed
  <2>2. CASE Recheck
    <3>1. FoundJournals = {mem} /\ mem.phase = "BackingUp" /\ Backed(mem)
      BY <1>2, <2>2, OneJournal DEF Recheck, InvRestorable, InvPrepared
    <3> QED BY <1>1, <3>1 DEF Backed
  <2> QED BY <2>1, <2>2
<1>6. \A o \in Output : Untouched(o)' /\ o > 0 /\ ~(o = 0) /\ ~(o < 0)
  BY <1>1, <1>4 DEF Output
<1> QED BY <1>3, <1>5, <1>6 DEF Backed

\* An intent is recorded while the original of its output is there.
LEMMA IntendRecords ==
  ASSUME IInv, InvRestorable, Intend
  PROVE  Backed(mem)' /\ \A j \in FoundJournals' : j.installed <= mem'.installed
<1>1. /\ \A o \in Output : /\ Untouched(o) => Untouched(o)'
                           /\ Undoable(o) => Undoable(o)'
                           /\ Returnable(o) => Returnable(o)'
      /\ FoundJournals' \subseteq FoundJournals
  BY RecordingIsStill, StillBacks DEF Recording
<1>2. pc \in Staging
  BY DEF Intend
<1>3. /\ VolumeTypeOK /\ FoundJournals = {mem} /\ mem.phase = "Installing" /\ Backed(mem)
      /\ mem.installed \in 0..Outputs
      /\ \A o \in Output : o <= mem.installed => Undoable(o)
  BY <1>2, OneJournal DEF InvRestorable, InvPrepared, InvBacked, IInv, TypeOK, Journal
<1>4. Following \in Output /\ Following = mem.installed + 1
      /\ (Kind[Following] = "append" => Found(Spool(Following)) = {"new"})
  BY <1>3, VolumeAssumption DEF Intend, InvRestorable, InvPrepared, IInv, Located, Following, Output
<1>5. Returnable(Following)
  <2>1. Untouched(Following)
    BY <1>3, <1>4 DEF Backed
  <2>2. disk[Target(Following)] = {Original(Following)}
    BY <1>2, <1>3, <1>4 DEF IInv, InvStaging, OldAbove, Output
  <2> QED BY <1>3, <1>4, <2>1, <2>2, NamesExist, DurableIsFound, OriginalIsReturnable
<1>6. mem'.phase = "Installing" /\ mem'.installed = Following
  BY DEF Intend, Record
<1>7. ASSUME NEW o \in Output
      PROVE  /\ o > Following => Untouched(o)'
             /\ o = Following => Returnable(o)'
             /\ o < Following => Undoable(o)'
  <2>1. o > Following => o > mem.installed
    BY <1>3, <1>4, <1>7 DEF Output
  <2>2. o < Following => o <= mem.installed
    BY <1>3, <1>4, <1>7 DEF Output
  <2> QED BY <1>1, <1>3, <1>5, <2>1, <2>2 DEF Backed
<1>8. Backed(mem)'
  BY <1>6, <1>7 DEF Backed
<1>9. \A j \in FoundJournals' : j.installed <= mem'.installed
  BY <1>1, <1>3, <1>4, <1>6
<1> QED BY <1>8, <1>9

\* Validation starts from outputs that can all be undone.
LEMMA FinishRecords ==
  ASSUME IInv, InvRestorable, DeletionSync \/ Validate
  PROVE  Backed(mem)' /\ \A j \in FoundJournals' : j.installed <= mem'.installed
<1>1. /\ \A o \in Output : Undoable(o) => Undoable(o)'
      /\ FoundJournals' \subseteq FoundJournals /\ FoundJournals \subseteq Journal
  BY RecordingIsStill, StillBacks DEF Recording, IInv, TypeOK, FoundJournals, VolumeTypeOK
<1>2. mem'.phase \in {"Validating", "Committed"} /\ mem'.installed = Outputs
  BY DEF DeletionSync, Validate, Record
<1>3. mem'.phase = "Validating" => \A o \in Output : Undoable(o)
  BY DEF DeletionSync, Validate, Record, InvRestorable, InvPrepared
<1>4. \A j \in FoundJournals' : j.installed <= Outputs
  BY <1>1, VolumeAssumption DEF Journal
<1> QED BY <1>1, <1>2, <1>3, <1>4 DEF Backed

\* Rolling back starts from outputs that can all be returned.
LEMMA RollBackRecords ==
  ASSUME IInv, InvRestorable, RollbackIntent \/ Restored
  PROVE  Backed(mem)' /\ \A j \in FoundJournals' : j.installed <= mem'.installed
<1>1. /\ \A j \in Journal : Backed(j) => Backed(j)'
      /\ \A o \in Output : /\ Untouched(o) => Untouched(o)'
                           /\ Undoable(o) => Undoable(o)'
                           /\ Returnable(o) => Returnable(o)'
      /\ FoundJournals' \subseteq FoundJournals
  BY RecordingIsStill, StillBacks DEF Recording
<1>2. VolumeTypeOK /\ mem \in Journal /\ journal \in FoundJournals
  BY DEF IInv, TypeOK, VolumeTypeOK, FoundJournals
<1>3. CASE RollbackIntent
  <2>1. /\ mem = journal /\ Backed(mem) /\ \A j \in FoundJournals : j.installed <= mem.installed
        /\ mem.phase \in {"BackingUp", "Installing", "Validating", "RollingBack"}
    BY <1>2, <1>3 DEF RollbackIntent, IInv, InvRemoving, Terminal, InvRestorable, InvBacked, Journal, Phase
  <2>2. CASE mem.phase = "RollingBack"
    <3>1. mem' = mem
      BY <1>3, <2>2 DEF RollbackIntent
    <3>2. ASSUME NEW j \in Journal, j = mem PROVE Backed(j)'
      BY <1>1, <2>1, <3>2
    <3>3. PICK j \in Journal : j = mem /\ mem' = j
      BY <1>2, <3>1
    <3>4. Backed(j)'
      BY <3>2, <3>3
    <3>5. Backed(mem)'
      BY <3>3, <3>4 DEF Backed
    <3> QED BY <1>1, <2>1, <3>1, <3>5
  <2>3. CASE mem.phase # "RollingBack"
    <3>1. mem'.phase = "RollingBack" /\ mem'.installed = mem.installed
      BY <1>3, <2>3 DEF RollbackIntent, Record
    <3>2. mem.installed \in 0..Outputs
      BY <1>2 DEF Journal
    <3>3. ASSUME NEW o \in Output
          PROVE  IF o > mem.installed THEN Untouched(o)' ELSE Returnable(o)'
      <4>1. Undoable(o) => Returnable(o)
        BY <1>2, UndoableIsReturnable
      <4>2. CASE mem.phase = "BackingUp"
        BY <1>1, <2>1, <3>2, <4>2 DEF Backed, Output
      <4>3. CASE mem.phase = "Installing"
        <5>1. CASE o > mem.installed
          BY <1>1, <2>1, <4>3, <5>1 DEF Backed
        <5>2. CASE o = mem.installed
          BY <1>1, <2>1, <3>2, <4>3, <5>2 DEF Backed, Output
        <5>3. CASE o < mem.installed
          BY <1>1, <2>1, <3>2, <4>1, <4>3, <5>3 DEF Backed, Output
        <5> QED BY <3>2, <5>1, <5>2, <5>3 DEF Output
      <4>4. CASE mem.phase = "Validating"
        BY <1>1, <2>1, <3>2, <4>1, <4>4, VolumeAssumption DEF Backed, Output
      <4> QED BY <2>1, <2>3, <4>2, <4>3, <4>4
    <3>4. Backed(mem)'
      BY <3>1, <3>3 DEF Backed
    <3> QED BY <1>1, <2>1, <3>1, <3>4
  <2> QED BY <2>2, <2>3
<1>4. CASE Restored
  <2>1. FoundJournals = {mem}
    BY <1>4, OneJournal DEF Restored, IInv, InvRestoring
  <2>2. mem'.phase = "RolledBack" /\ mem'.installed = mem.installed /\ mem.installed \in 0..Outputs
    BY <1>2, <1>4 DEF Restored, Record, Journal
  <2> QED BY <1>1, <2>1, <2>2 DEF Backed
<1> QED BY <1>3, <1>4

\* Publishing a journal adds the one it was decided on; forgetting it, when
\* nothing is left in the directory, adds none that asks for anything.
LEMMA BackedNext ==
  ASSUME IInv, Steady, InvRestorable, [Next]_vars, ~PowerLoss
  PROVE  InvBacked'
<1>1. /\ \A j \in Journal : Relevant(j) => Backed(j)'
      /\ \A o \in Output : Kind[o] # "replace" => Untouched(o)'
  BY JournalsStayBacked
<1>2. /\ FoundJournals' \subseteq FoundJournals \cup {journal'}
      /\ journal \in FoundJournals /\ FoundJournals \subseteq Journal /\ mem \in Journal
      /\ ~JournalRename /\ ~CleanupJournal => journal' = journal /\ FoundJournals' \subseteq FoundJournals
  BY FoundJournalsGrow DEF IInv, TypeOK
<1>3. \A j \in FoundJournals : Relevant(j)
  BY DEF Relevant
<1>4. JournalRename => journal' = mem /\ Relevant(mem) /\ \A j \in FoundJournals : j.installed <= mem.installed
  BY DEF JournalRename, PublishJournal, Relevant, InvRestorable, InvBacked
<1>5. ASSUME CleanupJournal PROVE journal' = NoJournal /\ Backed(NoJournal)'
  <2>1. /\ live' = live /\ disk' = disk /\ journal' = NoJournal /\ VolumeTypeOK
        /\ \A n \in Entries : n \in Name /\ live[n] = "absent" /\ Found(n) = {live[n]}
        /\ \A o \in Output : Untouched(o)
    <3>1. \A n \in Entries : live[n] = "absent"
      BY <1>5 DEF CleanupJournal, Remaining
    <3> QED
      BY <1>5, <3>1, AsideNames, EntryNames
      DEF CleanupJournal, RemoveJournal, InvRestorable, InvCleanup, IInv, TypeOK
  <2>2. \A n \in Entries : Found(n)' = {"absent"}
    BY <2>1 DEF Found
  <2>3. \A o \in Output : Untouched(o)'
    BY <2>1 DEF Untouched, Found
  <2> QED BY <2>1, <2>2, <2>3 DEF Backed, NoJournal
<1>6. ASSUME NEW j \in FoundJournals' PROVE Backed(j)'
  <2>1. CASE j \in FoundJournals
    BY <1>1, <1>2, <1>3, <2>1
  <2>2. CASE JournalRename /\ j = journal'
    BY <1>1, <1>2, <1>4, <2>2
  <2>3. CASE CleanupJournal /\ j = journal'
    <3>1. j = NoJournal
      BY <1>5, <2>3
    <3> QED BY <1>5, <2>3, <3>1 DEF Backed
  <2> QED BY <1>2, <1>6, <2>1, <2>2, <2>3
<1>7. journal'.phase # "None" => \A j \in FoundJournals' : j.installed <= journal'.installed
  <2>1. CASE JournalRename
    BY <1>2, <1>4, <2>1 DEF Journal
  <2>2. CASE CleanupJournal
    BY <1>5, <2>2 DEF NoJournal
  <2>3. CASE ~JournalRename /\ ~CleanupJournal
    BY <1>2, <2>3 DEF InvRestorable, InvBacked
  <2> QED BY <2>1, <2>2, <2>3
<1>8. ASSUME pc' \in Writing
      PROVE  Backed(mem)' /\ \A j \in FoundJournals' : j.installed <= mem'.installed
  <2>1. CASE Recording
    BY <2>1, PrepareRecords, IntendRecords, FinishRecords, RollBackRecords DEF Recording
  <2>2. CASE pc \in Writing /\ mem' = mem
    <3>1. Relevant(mem) /\ \A j \in FoundJournals : j.installed <= mem.installed
      BY <2>2 DEF Relevant, InvRestorable, InvBacked
    <3>2. PICK j \in Journal : j = mem /\ mem' = j
      BY <1>2, <2>2
    <3>3. Backed(j)'
      BY <1>1, <3>1, <3>2
    <3>4. Backed(mem)'
      BY <3>2, <3>3 DEF Backed
    <3>5. ~CleanupJournal
      BY <2>2 DEF CleanupJournal
    <3> QED BY <1>2, <1>4, <2>2, <3>1, <3>4, <3>5 DEF Journal
  <2> QED BY <1>8, <2>1, <2>2, WritingArrivals
<1> QED BY <1>1, <1>6, <1>7, <1>8 DEF InvBacked

-----------------------------------------------------------------------------
(* The directory of the backups.                                            *)

\* The points at which an original may have to move into the backup.
Engaged == pc \in Staging \cup Replacing \/ (pc \in Writing /\ mem.phase = "Installing")

\* They follow each other, from the check that the directory is there.
LEMMA EngagedArrivals ==
  ASSUME [Next]_vars, Engaged'
  PROVE  /\ Engaged \/ Recheck
         /\ ~CleanupBackupDirectory /\ ~RecoverScaffold /\ ~PowerLoss
<1>1. CASE WriteJournal \/ UNCHANGED vars
  BY <1>1 DEF WriteJournal, JournalCreate, JournalRename, JournalSync, Goto, AfterJournal, vars, process,
     Engaged, CleanupBackupDirectory, RecoverScaffold, PowerLoss, Stopped
<1>2. CASE Prepare \/ Finish
  BY <1>2 DEF Prepare, BeginSync, Recheck, Record, ReserveSpace, ReserveSync, CreateBackupDirectory,
     BackupDirectorySync, Finish, DeleteMedia, DeletionSync, Validate, Goto, GotoAt, Engaged,
     CleanupBackupDirectory, RecoverScaffold, PowerLoss, Stopped
<1>3. CASE InstallOutput
  <2>1. pc \in Staging \cup Replacing
    BY <1>3 DEF InstallOutput, SpoolCreate, SpoolFill, SpoolSync, Intend, TemporaryCreate, TemporaryFill,
       TemporarySync, Preserve, PreserveSync, RemovalSync, Publish, PublishSync, AppendSome, AppendRest
  <2>2. ~PowerLoss
    BY DEF PowerLoss, Stopped, Engaged
  <2> QED BY <2>1, <2>2 DEF Engaged, CleanupBackupDirectory, RecoverScaffold
<1>4. CASE Cleanup \/ Clean
  BY <1>4 DEF Cleanup, CleanupEntry, CleanupBackup, CleanupBackupDirectory, CleanupSync,
     CleanupJournal, CleanupDirectory, CleanupDone, Goto, GotoAt, process, Engaged,
     Clean, CleanTemporary, CleanJournal, Release, ReleaseSync, ParentsSync, Cleaned
<1>5. CASE Call \/ RecoverNothing \/ RecoverScaffold \/ RecoverAccepted \/ Refuse
  BY <1>5 DEF Call, Begin, Recover, RecoverNothing, RecoverScaffold, RecoverAccepted, Refuse, Goto, Engaged
<1>6. CASE RollBack
  <2>1. CASE RollbackIntent \/ Restored
    <3>1. pc' \in Writing /\ mem'.phase \in {"RollingBack", "RolledBack"}
      BY <2>1 DEF RollbackIntent, Restored, Record
    <3> QED BY <3>1 DEF Engaged
  <2> QED BY <1>6, <2>1
      DEF RollBack, RemoveNew, RemoveNewSync, RestoreBackup, RestoredSync, ConsumedSync, KeepOriginal,
          Truncate, TruncateSync, Goto, GotoAt, Engaged
<1>7. CASE PowerLoss \/ Stop \/ FailInstall \/ FailNewFile
  BY <1>7 DEF PowerLoss, Stop, FailInstall, FailNewFile, Stopped, Engaged
<1> QED BY <1>1, <1>2, <1>3, <1>4, <1>5, <1>6, <1>7 DEF Next, Work, RecoveryStep

\* What a step does to the directory and its files.
LEMMA BackupDirectorySteps ==
  ASSUME IInv, [Next]_vars, ~PowerLoss
  PROVE  /\ \/ live'[BackupDirectory] = live[BackupDirectory]
            \/ CreateBackupDirectory /\ live'[BackupDirectory] = "present"
            \/ CleanupBackupDirectory \/ RecoverScaffold
         /\ \/ \A o \in Output : live'[Backup(o)] \in {live[Backup(o)], "absent"}
            \/ Preserve /\ live'[BackupDirectory] = live[BackupDirectory]
<1>1. VolumeTypeOK /\ BackupDirectory \in Entries /\ BackupDirectory \in Name
  BY EntryNames, PlainNamesExist DEF IInv, TypeOK
<1>2. CASE StillCall
  BY <1>1, <1>2, StillIsFirm DEF Firm
<1>3. CASE EntryCall
  <2>1. \A o \in Output : live'[Backup(o)] = live[Backup(o)]
    BY <1>3, EntryIsFirm DEF Firm
  <2>2. \/ live'[BackupDirectory] = live[BackupDirectory]
        \/ CreateBackupDirectory /\ live'[BackupDirectory] = "present"
        \/ CleanupBackupDirectory \/ RecoverScaffold
    <3>1. ASSUME NEW n \in Name, n # BackupDirectory, NEW content \in Content, Write(n, content)
          PROVE  live'[BackupDirectory] = live[BackupDirectory]
      BY <1>1, <3>1, WriteDisturbs DEF Disturbs, Leaves
    <3>2. ASSUME NEW n \in Name, n # BackupDirectory, Remove({n})
          PROVE  live'[BackupDirectory] = live[BackupDirectory]
      BY <1>1, <3>2, RemoveDisturbs DEF Disturbs, Leaves
    <3>3. \A o \in Output : Spool(o) \in Name /\ Spool(o) # BackupDirectory
      BY NamesExist, EntryNames
    <3>4. /\ JournalTemporary \in Name /\ JournalTemporary # BackupDirectory
          /\ Reserve \in Name /\ Reserve # BackupDirectory
      BY PlainNamesExist, EntryNames
    <3>5. CASE JournalCreate \/ ReserveSpace
      BY <3>1, <3>4, <3>5 DEF JournalCreate, ReserveSpace, Content
    <3>6. CASE JournalRename
      BY <1>1, <3>4, <3>6 DEF JournalRename, PublishJournal, VolumeTypeOK
    <3>7. CASE CreateBackupDirectory
      BY <1>1, <3>7 DEF CreateBackupDirectory, Write, VolumeTypeOK
    <3>8. CASE SpoolCreate \/ SpoolFill
      <4>1. Following \in Output
        BY <3>8, VolumeAssumption
        DEF SpoolCreate, SpoolFill, IInv, TypeOK, Located, Following, Journal, Output
      <4> QED BY <3>1, <3>3, <3>8, <4>1 DEF SpoolCreate, SpoolFill, Content
    <3>9. CASE CleanupEntry
      BY <3>2, <3>9, AsideNames DEF CleanupEntry
    <3>10. CASE CleanJournal
      BY <3>2, <3>4, <3>10 DEF CleanJournal
    <3>11. CASE Release
      <4>1. PICK n \in Present(Expendable) : Remove({n})
        BY <3>11 DEF Release
      <4> QED BY <3>2, <3>3, <3>4, <4>1 DEF Present, Expendable
    <3> QED BY <1>3, <3>5, <3>6, <3>7, <3>8, <3>9, <3>10, <3>11 DEF EntryCall
  <2> QED BY <2>1, <2>2
<1>4. CASE CleanupBackup
  <2>1. PICK n \in Backups : Remove({n})
    BY <1>4 DEF CleanupBackup
  <2>2. \A o \in Output : live'[Backup(o)] \in {live[Backup(o)], "absent"}
    BY <2>1, NamesExist DEF Remove
  <2>3. BackupDirectory # n
    BY <2>1, EntryNames DEF Backups
  <2> QED BY <1>1, <2>1, <2>2, <2>3 DEF Remove
<1>5. CASE TargetCall
  <2>1. \A o \in Output : /\ BackupDirectory # Target(o) /\ BackupDirectory # Backup(o)
                          /\ BackupDirectory # Temporary(o)
    BY EntryNames DEF BackupDirectory, Temporary
  <2>2. \A o, p \in Output : Target(o) # Backup(p) /\ Temporary(o) # Backup(p)
    BY TargetsDistinct, TemporariesDistinct
  <2>3. pc \in Replacing => Current = mem.installed /\ Current \in Output
    BY DEF IInv, InvReplacing, Current
  <2>4. CASE Preserve
    BY <1>1, <2>1, <2>3, <2>4, NamesExist DEF Preserve, Rename, VolumeTypeOK
  <2>5. CASE Publish
    <3>1. Rename(Temporary(Current), Target(Current)) /\ Current \in Output
      BY <2>3, <2>5 DEF Publish
    <3> QED BY <1>1, <2>1, <2>2, <3>1, NamesExist DEF Rename, VolumeTypeOK
  <2>6. CASE AppendSome \/ AppendRest
    <3>1. PICK content \in Content : Write(Target(Current), content) /\ Current \in Output
      BY <2>3, <2>6 DEF AppendSome, AppendRest, Content
    <3> QED BY <1>1, <2>1, <2>2, <3>1, NamesExist DEF Write, VolumeTypeOK
  <2>7. CASE RemoveNew
    <3>1. PICK o \in Output : Remove({Target(o)})
      BY <2>7 DEF RemoveNew
    <3> QED BY <1>1, <2>1, <2>2, <3>1, NamesExist DEF Remove
  <2>8. CASE RestoreBackup
    <3>1. PICK o \in Output : Rename(Backup(o), Target(o))
      BY <2>8 DEF RestoreBackup
    <3>2. Backup(o) \in Name /\ Target(o) \in Name /\ Backup(o) # Target(o)
      BY NamesExist, TargetsDistinct
    <3>3. live' = [live EXCEPT ![Target(o)] = live[Backup(o)], ![Backup(o)] = "absent"]
      BY <3>1 DEF Rename
    <3>4. \A p \in Output : Backup(p) # Target(o) /\ Backup(p) \in Name
      BY <2>2, NamesExist
    <3>5. \A p \in Output : live'[Backup(p)] \in {live[Backup(p)], "absent"}
      BY <1>1, <3>2, <3>3, <3>4 DEF VolumeTypeOK
    <3> QED BY <1>1, <2>1, <3>3, <3>5 DEF VolumeTypeOK
  <2>9. CASE Truncate
    <3>1. PICK o \in Output : Write(Target(o), "old")
      BY <2>9 DEF Truncate
    <3> QED BY <1>1, <2>1, <2>2, <3>1, NamesExist DEF Write, VolumeTypeOK
  <2> QED BY <1>5, <2>4, <2>5, <2>6, <2>7, <2>8, <2>9 DEF TargetCall
<1> QED BY <1>2, <1>3, <1>4, <1>5, FileCases

\* No backup outlives or precedes its directory.
LEMMA BackupsNext ==
  ASSUME IInv, InvRestorable, [Next]_vars, ~PowerLoss
  PROVE  InvBackups'
<1>1. VolumeTypeOK /\ InvBackups
  BY DEF IInv, TypeOK, InvRestorable
<1>2. CASE CleanupBackupDirectory \/ RecoverScaffold
  <2>1. ~Engaged'
    BY <1>2, EngagedArrivals
  <2>2. \A n \in Backups : live'[n] = "absent"
    <3>1. \A n \in Backups : n \in Name /\ live[n] = "absent"
      BY <1>2, NamesExist DEF CleanupBackupDirectory, RecoverScaffold, Scaffold, Backups
    <3> QED BY <1>2, <3>1 DEF CleanupBackupDirectory, RecoverScaffold, Remove
  <2> QED BY <2>1, <2>2 DEF InvBackups, Engaged
<1>3. CASE ~CleanupBackupDirectory /\ ~RecoverScaffold
  <2>1. \/ live'[BackupDirectory] = live[BackupDirectory]
        \/ CreateBackupDirectory /\ live'[BackupDirectory] = "present"
    BY <1>3, BackupDirectorySteps
  <2>2. Engaged' /\ NeedsBackups => live'[BackupDirectory] = "present"
    <3>1. Recheck /\ NeedsBackups => live[BackupDirectory] = "present"
      BY DEF Recheck
    <3> QED BY <1>1, <2>1, <3>1, EngagedArrivals DEF InvBackups, Engaged
  <2>3. Preserve => live'[BackupDirectory] = "present"
    <3>1. ASSUME Preserve PROVE NeedsBackups /\ Engaged /\ ~CreateBackupDirectory
      BY <3>1 DEF Preserve, InvRestorable, InvInFlight, NeedsBackups, Engaged, IInv, InvReplacing,
         CreateBackupDirectory
    <3> QED BY <1>1, <2>1, <3>1 DEF InvBackups, Engaged
  <2>4. live'[BackupDirectory] = "absent" => \A n \in Backups : live'[n] = "absent"
    BY <1>1, <2>1, <2>3, BackupDirectorySteps DEF InvBackups, Backups
  <2> QED BY <2>2, <2>4 DEF InvBackups, Engaged, NeedsBackups
<1> QED BY <1>2, <1>3

-----------------------------------------------------------------------------
(* Preparing and staging.                                                   *)

\* How the code comes to prepare, stage and delete.
LEMMA PreparedArrivals ==
  ASSUME [Next]_vars, pc' \in Preparing \cup Staging \cup {"delete"}
  PROVE  \/ Begin \/ JournalSync
         \/ ReserveSpace \/ ReserveSync \/ CreateBackupDirectory \/ BackupDirectorySync
         \/ SpoolCreate \/ SpoolFill \/ SpoolSync \/ PublishSync \/ DeleteMedia \/ UNCHANGED vars
<1>1. CASE WriteJournal \/ Prepare \/ Finish
  BY <1>1 DEF WriteJournal, JournalCreate, JournalRename, Goto, Prepare, BeginSync, Recheck, Record,
     Finish, DeletionSync, Validate
<1>2. CASE InstallOutput
  BY <1>2 DEF InstallOutput, Intend, Record, TemporaryCreate, TemporaryFill,
     TemporarySync, Preserve, PreserveSync, RemovalSync, Publish, AppendSome, AppendRest, Goto
<1>3. CASE Cleanup \/ Clean
  BY <1>3 DEF Cleanup, CleanupEntry, CleanupBackup, CleanupBackupDirectory, CleanupSync,
     CleanupJournal, CleanupDirectory, CleanupDone, Goto, GotoAt, process,
     Clean, CleanTemporary, CleanJournal, Release, ReleaseSync, ParentsSync, Cleaned
<1>4. CASE Call \/ RecoverNothing \/ RecoverScaffold \/ RecoverAccepted \/ Refuse
  BY <1>4 DEF Call, Recover, RecoverNothing, RecoverScaffold, RecoverAccepted, Refuse, Goto
<1>5. CASE RollBack
  BY <1>5 DEF RollBack, RemoveNew, RemoveNewSync, RollbackIntent, Record, RestoreBackup, RestoredSync,
     ConsumedSync, KeepOriginal, Truncate, TruncateSync, Restored, Goto, GotoAt
<1>6. CASE PowerLoss \/ Stop \/ FailInstall \/ FailNewFile
  BY <1>6 DEF PowerLoss, Stop, FailInstall, FailNewFile, Stopped
<1> QED BY <1>1, <1>2, <1>3, <1>4, <1>5, <1>6 DEF Next, Work, RecoveryStep

\* The calls among them leave mem, and journals and undone outputs as they were.
LEMMA PreparedKeeps ==
  ASSUME IInv, InvRestorable,
         \/ ReserveSpace \/ ReserveSync \/ CreateBackupDirectory \/ BackupDirectorySync
         \/ SpoolCreate \/ SpoolFill \/ SpoolSync \/ DeleteMedia \/ UNCHANGED vars
  PROVE  /\ mem' = mem /\ journal' = journal /\ journalOnDisk' \in {journalOnDisk, {journal}}
         /\ pc \notin Moving =>
              \A o \in Output : o <= mem.installed => (Undoable(o) => Undoable(o)')
<1>1. VolumeTypeOK /\ mem \in Journal /\ mem.installed \in 0..Outputs
  BY DEF IInv, TypeOK, Journal
<1>2. CASE ReserveSync \/ BackupDirectorySync \/ SpoolSync \/ DeleteMedia \/ UNCHANGED vars
  <2>1. StillCall
    BY <1>2 DEF StillCall, Finish
  <2> QED BY <1>2, <2>1, StillBacks
      DEF ReserveSync, BackupDirectorySync, SpoolSync, DeleteMedia, SyncTransaction, Remove, Goto, GotoAt,
          vars, volume, process
<1>3. CASE ReserveSpace \/ CreateBackupDirectory \/ SpoolCreate \/ SpoolFill
  <2>1. EntryCall /\ mem' = mem /\ journal' = journal /\ journalOnDisk' = journalOnDisk
    BY <1>3 DEF EntryCall, ReserveSpace, CreateBackupDirectory, SpoolCreate, SpoolFill, Write, Goto
  <2>2. ASSUME NEW o \in Output, o <= mem.installed PROVE Firm(Spool(o))
    <3>1. PICK n \in Name, content \in Content :
             Write(n, content) /\ (n \in {Reserve, BackupDirectory} \/ n = Spool(Following))
      <4>1. pc \in Spooling \/ SpoolCreate => Following \in Output
        BY <1>1, VolumeAssumption DEF SpoolCreate, IInv, Located, Following, Output
      <4>2. CASE SpoolCreate \/ SpoolFill
        <5>1. Spool(Following) \in Name
          BY <4>1, <4>2, NamesExist DEF SpoolFill
        <5> QED BY <4>2, <5>1 DEF SpoolCreate, SpoolFill, Content
      <4> QED BY <1>3, <4>2, PlainNamesExist DEF ReserveSpace, CreateBackupDirectory, Content
    <3>2. Spool(o) # n
      <4>1. Spool(o) # Spool(Following)
        BY <1>1, <2>2 DEF Spool, Following, Output
      <4> QED BY <3>1, <4>1, EntryNames
    <3> QED BY <1>1, <3>1, <3>2, WriteDisturbs, NamesExist, LeavesIsFirm DEF Disturbs
  <2>3. ASSUME NEW o \in Output, o <= mem.installed, pc \notin Moving PROVE Undoable(o) => Undoable(o)'
    <3>1. ~InMotion(o)
      BY <2>3 DEF InMotion, Moving
    <3> QED BY <1>1, <2>1, <2>2, <2>3, <3>1, EntryIsFirm, OutputStays
  <2> QED BY <2>1, <2>3
<1> QED BY <1>2, <1>3

\* Once its parent is synced the output in flight is installed and can be undone.
LEMMA PublishSyncUndoes ==
  ASSUME IInv, InvRestorable, PublishSync
  PROVE  /\ mem' = mem /\ journalOnDisk' = {mem} /\ mem.phase = "Installing"
         /\ \A o \in Output : o <= mem.installed => Undoable(o)'
<1>1. /\ VolumeTypeOK /\ journalOnDisk = {mem} /\ FoundJournals = {mem} /\ mem.phase = "Installing"
      /\ mem.installed \in Output /\ live[Target(mem.installed)] = "new" /\ Backed(mem)
  BY OneJournal DEF PublishSync, IInv, TypeOK, InvReplacing, InvRestorable, InvBacked
<1>2. mem' = mem /\ journalOnDisk' = journalOnDisk
  BY DEF PublishSync, Installed, Goto, GotoAt, Sync
<1>3. \A o \in Output : Undoable(o) => Undoable(o)'
  BY StillBacks DEF StillCall, PublishSync, Moving
<1>4. \A o \in Output : o < mem.installed => Undoable(o)'
  BY <1>1, <1>3 DEF Backed
<1>5. ASSUME NEW x \in Output, x = mem.installed PROVE Undoable(x)'
  <2>1. Found(Target(x))' = {"new"}
    BY <1>1, <1>5, NamesExist, FoundFlush DEF PublishSync, Sync, Current, InParent
  <2>2. Firm(Backup(x)) /\ Firm(Spool(x))
    BY StillIsFirm DEF StillCall
  <2>3. /\ Returnable(x)
        /\ pc = "publish_sync" => Kind[x] # "append"
        /\ pc = "append_sync" => Kind[x] = "append"
        /\ pc = "publish_sync" /\ Kind[x] = "replace" => Found(Backup(x)) = {"old"}
    BY <1>1, <1>5 DEF Backed, InvRestorable, InvInFlight
  <2>4. Kind[x] = "replace" => Found(Backup(x))' = {"old"}
    BY <2>2, <2>3 DEF PublishSync, Firm, Content
  <2>5. Kind[x] = "append" => Found(Spool(x))' = {"new"}
    BY <2>2, <2>3 DEF Returnable, Firm, Content
  <2> QED BY <2>1, <2>4, <2>5 DEF Undoable
<1>6. \A o \in Output : o <= mem.installed => o < mem.installed \/ o = mem.installed
  BY <1>1 DEF Output
<1> QED BY <1>1, <1>2, <1>4, <1>5, <1>6

\* Preparing and staging goes on where it was, or starts from a durable journal.
LEMMA PreparedNext ==
  ASSUME IInv, InvRestorable, [Next]_vars
  PROVE  InvPrepared'
<1>1. /\ VolumeTypeOK /\ InvPrepared /\ mem \in Journal /\ mem.installed \in 0..Outputs
      /\ journal \in journalOnDisk
  BY DEF IInv, TypeOK, VolumeTypeOK, InvRestorable, Journal
<1>2. CASE pc' \notin Preparing \cup Staging \cup {"delete"}
  BY <1>2 DEF InvPrepared
<1>3. CASE Begin
  <2>1. pc' = "create_sync" /\ journal' = journal /\ journal.phase = "None"
    BY <1>3 DEF Begin, Write, IInv, Enclosed
  <2> QED BY <2>1 DEF InvPrepared
<1>4. CASE JournalSync /\ pc' \in Preparing \cup Staging \cup {"delete"}
  <2>1. mem' = mem /\ journalOnDisk' = {mem}
        /\ \/ mem.phase = "BackingUp" /\ pc' \in {"reserve", "back_up"}
           \/ mem.phase = "Installing" /\ mem.installed = 0 /\ pc' = "stage"
    BY <1>1, <1>4 DEF JournalSync, SyncTransaction, Goto, AfterJournal, IInv, InvWriting
  <2>2. \A o \in Output : ~(o <= 0)
    BY DEF Output
  <2> QED BY <2>1, <2>2 DEF InvPrepared
<1>5. CASE PublishSync
  <2>1. pc' = "stage" \/ (pc' = "delete" /\ mem.installed = Outputs)
    BY <1>1, <1>5, VolumeAssumption DEF PublishSync, Installed, Goto, GotoAt, Current
  <2>2. mem.installed = Outputs => \A o \in Output : o <= mem.installed
    BY VolumeAssumption DEF Output
  <2> QED BY <1>5, <2>1, <2>2, PublishSyncUndoes DEF InvPrepared
<1>6. CASE ReserveSpace \/ ReserveSync \/ CreateBackupDirectory \/ BackupDirectorySync
  <2>1. pc \in Preparing \ {"create_sync"} /\ pc' \in Preparing \ {"create_sync"}
    BY <1>6 DEF ReserveSpace, ReserveSync, CreateBackupDirectory, BackupDirectorySync, Goto
  <2> QED BY <1>1, <1>6, <2>1, PreparedKeeps DEF InvPrepared
<1>7. CASE SpoolCreate \/ SpoolFill \/ SpoolSync
  <2>1. /\ pc \in Staging /\ pc \notin Moving
        /\ SpoolCreate => pc' = "spool_fill" /\ Kind[Following] = "append"
        /\ SpoolFill => pc' = "spool_sync" /\ pc = "spool_fill"
        /\ SpoolSync => pc' = "intent" /\ pc = "spool_sync"
    BY <1>7 DEF SpoolCreate, SpoolFill, SpoolSync, Goto, Moving
  <2>2. mem' = mem /\ journalOnDisk' = {mem} /\ mem.phase = "Installing"
        /\ \A o \in Output : o <= mem.installed => Undoable(o)'
    BY <1>1, <1>7, <2>1, PreparedKeeps DEF InvPrepared
  <2>3. Kind[Following] = "append" /\ Following = mem.installed + 1
    BY <1>1, <1>7, <2>1 DEF InvPrepared, Following
  <2>4. SpoolFill => live'[Spool(Following)] = "new"
    <3>1. SpoolFill => Following \in Output
      BY <1>1, VolumeAssumption DEF SpoolFill, IInv, Located, Following, Output
    <3> QED BY <1>1, <3>1, NamesExist DEF SpoolFill, Write, VolumeTypeOK
  <2>5. ASSUME SpoolSync, NEW x \in Output, x = Following PROVE Found(Spool(x))' = {"new"}
    <3>1. Spool(x) \in Name /\ Spool(x) \in Entries /\ live[Spool(x)] = "new"
      BY <1>1, <2>3, <2>5, NamesExist, EntryNames DEF SpoolSync, InvPrepared
    <3> QED BY <1>1, <2>5, <3>1, FoundFlush DEF SpoolSync, SyncTransaction
  <2>6. Following \in Output
    BY <1>1, <1>7, VolumeAssumption DEF SpoolCreate, SpoolFill, SpoolSync, IInv, Located, Following, Output
  <2>7. pc' = "spool_sync" => live'[Spool(mem'.installed + 1)] = "new"
    BY <1>7, <2>1, <2>2, <2>3, <2>4
  <2>8. pc' = "intent" => Found(Spool(mem.installed + 1))' = {"new"}
    <3>1. PICK x \in Output : x = Following
      BY <2>6
    <3>2. pc' = "intent" => Found(Spool(x))' = {"new"}
      BY <1>7, <2>1, <2>5, <3>1
    <3>3. x = mem'.installed + 1
      BY <2>2, <2>3, <3>1
    <3> QED BY <3>2, <3>3 DEF Found
  <2> QED BY <1>7, <2>1, <2>2, <2>3, <2>7, <2>8 DEF InvPrepared
<1>8. CASE DeleteMedia
  <2>1. pc = "delete" /\ pc' = "delete" /\ StillCall /\ pc \notin Moving
    BY <1>8 DEF DeleteMedia, GotoAt, StillCall, Finish, Moving
  <2> QED BY <1>1, <2>1, StillBacks DEF InvPrepared
<1>9. CASE UNCHANGED vars
  <2>1. live' = live /\ disk' = disk /\ journal' = journal /\ journalOnDisk' = journalOnDisk /\ pc' = pc /\ mem' = mem
    BY <1>9 DEF vars, volume, process
  <2> QED BY <1>1, <2>1 DEF InvPrepared, Undoable, Found
<1> QED BY <1>2, <1>3, <1>4, <1>5, <1>6, <1>7, <1>8, <1>9, PreparedArrivals

-----------------------------------------------------------------------------
(* The output in flight.                                                    *)

\* How the code comes to replace an output.
LEMMA ReplacingArrivals ==
  ASSUME [Next]_vars, pc' \in Replacing
  PROVE  \/ JournalSync \/ TemporaryCreate \/ TemporaryFill \/ TemporarySync
         \/ Preserve \/ PreserveSync \/ RemovalSync \/ Publish \/ AppendSome \/ AppendRest
         \/ UNCHANGED vars
<1>1. CASE WriteJournal \/ Prepare \/ Finish
  BY <1>1 DEF WriteJournal, JournalCreate, JournalRename, Goto, GotoAt, Prepare, BeginSync, Recheck, Record,
     ReserveSpace, ReserveSync, CreateBackupDirectory, BackupDirectorySync,
     Finish, DeletionSync, Validate, DeleteMedia
<1>2. CASE InstallOutput
  BY <1>2 DEF InstallOutput, SpoolCreate, SpoolFill, SpoolSync, Intend, Record, PublishSync, Installed,
     Goto, GotoAt
<1>3. CASE Cleanup \/ Clean
  BY <1>3 DEF Cleanup, CleanupEntry, CleanupBackup, CleanupBackupDirectory, CleanupSync,
     CleanupJournal, CleanupDirectory, CleanupDone, Goto, GotoAt, process,
     Clean, CleanTemporary, CleanJournal, Release, ReleaseSync, ParentsSync, Cleaned
<1>4. CASE Call \/ RecoverNothing \/ RecoverScaffold \/ RecoverAccepted \/ Refuse
  BY <1>4 DEF Call, Begin, Recover, RecoverNothing, RecoverScaffold, RecoverAccepted, Refuse, Goto
<1>5. CASE RollBack
  BY <1>5 DEF RollBack, RemoveNew, RemoveNewSync, RollbackIntent, Record, RestoreBackup, RestoredSync,
     ConsumedSync, KeepOriginal, Truncate, TruncateSync, Restored, Goto, GotoAt
<1>6. CASE PowerLoss \/ Stop \/ FailInstall \/ FailNewFile
  BY <1>6 DEF PowerLoss, Stop, FailInstall, FailNewFile, Stopped
<1> QED BY <1>1, <1>2, <1>3, <1>4, <1>5, <1>6 DEF Next, Work, RecoveryStep

\* What the invariant says of the output in flight, x, at a point of the code.
Flying(x) ==
  /\ pc \in {"temporary_fill", "publish", "publish_sync"} => Kind[x] # "append"
  /\ pc \in {"temporary_sync", "preserve", "preserve_sync", "removal_sync"} => Kind[x] = "replace"
  /\ pc \in {"append_rest", "append_sync"} => Kind[x] = "append"
  /\ pc \in {"install", "temporary_fill", "temporary_sync", "preserve"} =>
       Found(Target(x)) = {Original(x)} \/ Kind[x] = "new"
  /\ pc = "preserve_sync" =>
       live[Backup(x)] = "old" /\ live[Target(x)] # "old" /\ "old" \in disk[Target(x)]
  /\ pc \in {"removal_sync", "publish", "publish_sync"} /\ Kind[x] = "replace" =>
       Found(Backup(x)) = {"old"}

\* Call by call.
LEMMA FlyingNext ==
  ASSUME IInv, pc \in Replacing, NEW x \in Output, x = mem.installed, Flying(x), [Next]_vars,
         pc' \in Replacing
  PROVE  Flying(x)' /\ mem' = mem
<1>1. VolumeTypeOK /\ Current = x /\ Kind[x] \in {"new", "replace", "append"}
  BY VolumeAssumption DEF IInv, TypeOK, Current, Output
<1>2. /\ Target(x) \in Name /\ Backup(x) \in Name /\ Temporary(x) \in Name
      /\ Target(x) # Backup(x) /\ Target(x) # Temporary(x) /\ Backup(x) # Temporary(x)
  BY NamesExist, TargetsDistinct, TemporariesDistinct
<1>3. StillCall => Firm(Target(x)) /\ Firm(Backup(x))
  BY StillIsFirm
<1>4. CASE TemporaryCreate \/ TemporaryFill
  <2>1. Found(Target(x)) = {Original(x)} => Found(Target(x))' = {Original(x)}
    BY <1>3, <1>4, OriginalIsContent DEF StillCall, TemporaryCall, Firm
  <2>2. Found(Backup(x)) = {"old"} => Found(Backup(x))' = {"old"}
    BY <1>3, <1>4 DEF StillCall, TemporaryCall, Firm, Content
  <2>3. \/ pc = "install" /\ pc' = "temporary_fill" /\ Kind[x] # "append"
        \/ /\ pc = "temporary_fill"
           /\ pc' = IF Kind[x] = "new" THEN "publish" ELSE "temporary_sync"
    BY <1>1, <1>4 DEF TemporaryCreate, TemporaryFill, Goto
  <2>4. mem' = mem
    BY <1>4 DEF TemporaryCreate, TemporaryFill, Goto
  <2> QED BY <1>1, <2>1, <2>2, <2>3, <2>4 DEF Flying
<1>5. CASE TemporarySync
  <2>1. Found(Target(x)) = {Original(x)} => Found(Target(x))' = {Original(x)}
    BY <1>3, <1>5, OriginalIsContent DEF StillCall, Firm
  <2> QED BY <1>1, <1>5, <2>1 DEF TemporarySync, Goto, Flying
<1>6. CASE Preserve
  <2>1. Rename(Target(x), Backup(x)) /\ live[Target(x)] = "old" /\ pc' = "preserve_sync" /\ mem' = mem
    BY <1>1, <1>6 DEF Preserve, Goto
  <2>2. Kind[x] = "replace"
    BY <1>6 DEF Preserve, Flying
  <2> QED BY <1>1, <1>2, <2>1, <2>2, FoundRename DEF Flying
<1>7. CASE PreserveSync
  <2>1. Found(Backup(x))' = {"old"}
    BY <1>1, <1>2, <1>7, FoundFlush DEF PreserveSync, Sync, Flying, Backups
  <2> QED BY <1>7, <2>1 DEF PreserveSync, Goto, Flying
<1>8. CASE RemovalSync
  <2>1. Found(Backup(x)) = {"old"} => Found(Backup(x))' = {"old"}
    BY <1>3, <1>8 DEF StillCall, Firm, Content
  <2> QED BY <1>8, <2>1 DEF RemovalSync, Goto, Flying
<1>9. CASE Publish
  <2>1. Rename(Temporary(x), Target(x)) /\ pc' = "publish_sync" /\ mem' = mem /\ pc = "publish"
    BY <1>1, <1>9 DEF Publish, Goto
  <2>2. Leaves(Backup(x))
    BY <1>1, <1>2, <2>1, RenameDisturbs DEF Disturbs
  <2>3. Found(Backup(x)) = {"old"} => Found(Backup(x))' = {"old"}
    BY <1>1, <1>2, <2>2, LeavesIsFirm DEF Firm, Content
  <2> QED BY <2>1, <2>3 DEF Flying
<1>10. CASE AppendSome \/ AppendRest
  BY <1>1, <1>10 DEF AppendSome, AppendRest, Goto, Flying
<1>11. CASE UNCHANGED vars
  BY <1>11 DEF vars, volume, process, Flying, Found
<1>12. ~JournalSync
  BY DEF JournalSync
<1> QED BY <1>4, <1>5, <1>6, <1>7, <1>8, <1>9, <1>10, <1>11, <1>12, ReplacingArrivals

\* From the durable intent on.
LEMMA InFlightNext ==
  ASSUME IInv, InvRestorable, [Next]_vars
  PROVE  InvInFlight'
<1>1. VolumeTypeOK /\ InvInFlight /\ mem \in Journal /\ mem.installed \in 0..Outputs
  BY DEF IInv, TypeOK, InvRestorable, Journal
<1>2. CASE pc' \notin Replacing
  BY <1>2 DEF InvInFlight
<1>3. CASE pc' \in Replacing /\ JournalSync
  <2>1. pc' = "install" /\ mem' = mem /\ mem.phase = "Installing" /\ mem.installed # 0
    BY <1>3 DEF JournalSync, Goto, AfterJournal
  <2>2. mem.installed \in Output /\ mem.installed > mem.installed - 1
    BY <1>1, <2>1, VolumeAssumption DEF Output
  <2>3. PICK x \in Output : x = mem.installed
    BY <2>2
  <2>4. disk[Target(x)] = {Original(x)}
    BY <1>1, <1>3, <2>1, <2>2, <2>3 DEF JournalSync, IInv, InvWriting, Ready, OldAbove
  <2>5. Found(Target(x))' = {Original(x)}
    <3>1. Found(Target(x)) = {Original(x)}
      BY <1>1, <2>4, NamesExist, DurableIsFound
    <3> QED BY <1>3, <3>1, StillIsFirm, OriginalIsContent DEF StillCall, Firm
  <2>6. Found(Target(mem.installed))' = {Original(mem.installed)}
    BY <2>1, <2>3, <2>5 DEF Found
  <2> QED BY <2>1, <2>6 DEF InvInFlight
<1>4. CASE pc' \in Replacing /\ ~JournalSync
  <2>1. pc \in Replacing
    BY <1>4, ReplacingArrivals
    DEF TemporaryCreate, TemporaryFill, TemporarySync, Preserve, PreserveSync, RemovalSync, Publish,
        AppendSome, AppendRest, vars, process
  <2>2. PICK x \in Output : x = mem.installed
    BY <2>1 DEF IInv, InvReplacing
  <2>3. Flying(x)
    BY <1>1, <2>1, <2>2 DEF InvInFlight, Flying
  <2>4. Flying(x)' /\ mem' = mem
    BY <1>4, <2>1, <2>2, <2>3, FlyingNext
  <2> QED BY <2>2, <2>4 DEF InvInFlight, Flying, Found
<1> QED BY <1>2, <1>3, <1>4

-----------------------------------------------------------------------------
(* Rolling back and cleaning up.                                            *)

\* How the code comes to where a file was put back.
LEMMA ReturnedArrivals ==
  ASSUME [Next]_vars, pc' \in {"restored_sync", "consumed_sync", "truncate_sync"}
  PROVE  RestoreBackup \/ RestoredSync \/ Truncate \/ UNCHANGED vars
<1>1. CASE WriteJournal \/ Prepare \/ Finish
  BY <1>1 DEF WriteJournal, JournalCreate, JournalRename, JournalSync, AfterJournal, Goto, GotoAt, Prepare,
     BeginSync, Recheck, Record, ReserveSpace, ReserveSync, CreateBackupDirectory, BackupDirectorySync,
     Finish, DeletionSync, Validate, DeleteMedia
<1>2. CASE InstallOutput
  BY <1>2 DEF InstallOutput, SpoolCreate, SpoolFill, SpoolSync, Intend, Record, PublishSync, Installed,
     Goto, GotoAt, TemporaryCreate, TemporaryFill, TemporarySync, Preserve, PreserveSync, RemovalSync,
     Publish, AppendSome, AppendRest
<1>3. CASE Cleanup \/ Clean
  BY <1>3 DEF Cleanup, CleanupEntry, CleanupBackup, CleanupBackupDirectory, CleanupSync,
     CleanupJournal, CleanupDirectory, CleanupDone, Goto, GotoAt, process,
     Clean, CleanTemporary, CleanJournal, Release, ReleaseSync, ParentsSync, Cleaned
<1>4. CASE Call \/ RecoverNothing \/ RecoverScaffold \/ RecoverAccepted \/ Refuse
  BY <1>4 DEF Call, Begin, Recover, RecoverNothing, RecoverScaffold, RecoverAccepted, Refuse, Goto
<1>5. CASE RollBack
  BY <1>5 DEF RollBack, RemoveNew, RemoveNewSync, RollbackIntent, Record, ConsumedSync, KeepOriginal,
     TruncateSync, Restored, Goto, GotoAt
<1>6. CASE PowerLoss \/ Stop \/ FailInstall \/ FailNewFile
  BY <1>6 DEF PowerLoss, Stop, FailInstall, FailNewFile, Stopped
<1> QED BY <1>1, <1>2, <1>3, <1>4, <1>5, <1>6 DEF Next, Work, RecoveryStep

\* Where a file was put back it is of the kind that is put back so.
LEMMA RollbackNext ==
  ASSUME IInv, InvRestorable, [Next]_vars
  PROVE  InvRollback'
<1>1. VolumeTypeOK /\ InvRollback
  BY DEF IInv, TypeOK, InvRestorable
<1>2. CASE pc' \notin {"restored_sync", "consumed_sync", "truncate_sync"}
  BY <1>2 DEF InvRollback
<1>3. CASE RestoreBackup
  <2>1. PICK x \in Output : /\ Kind[x] = "replace" /\ live[Backup(x)] = "old"
                            /\ Rename(Backup(x), Target(x)) /\ pc' = "restored_sync" /\ at' = x
    BY <1>3 DEF RestoreBackup, GotoAt
  <2>2. Target(x) \in Name /\ Backup(x) \in Name /\ Target(x) # Backup(x)
    BY NamesExist, TargetsDistinct
  <2>3. live'[Backup(x)] = "absent" /\ "old" \in disk'[Backup(x)]
    BY <1>1, <2>1, <2>2, FoundRename
  <2> QED BY <2>1, <2>3 DEF InvRollback
<1>4. CASE RestoredSync
  BY <1>1, <1>4 DEF RestoredSync, Goto, InvRollback
<1>5. CASE Truncate
  BY <1>5 DEF Truncate, NextDown, GotoAt, InvRollback
<1>6. CASE UNCHANGED vars
  BY <1>1, <1>6 DEF vars, volume, process, InvRollback
<1> QED BY <1>2, <1>3, <1>4, <1>5, <1>6, ReturnedArrivals

\* How the code comes to clean up, and to rest.
LEMMA CleaningUpArrivals ==
  ASSUME [Next]_vars, pc' \in CleaningUp
  PROVE  \/ CleanupEntry \/ CleanupBackup \/ CleanupBackupDirectory \/ CleanupSync
         \/ JournalSync \/ ReleaseSync \/ ParentsSync \/ UNCHANGED vars
<1>1. CASE WriteJournal \/ Prepare \/ Finish
  BY <1>1 DEF WriteJournal, JournalCreate, JournalRename, Goto, GotoAt, Prepare,
     BeginSync, Recheck, Record, ReserveSpace, ReserveSync, CreateBackupDirectory, BackupDirectorySync,
     Finish, DeletionSync, Validate, DeleteMedia
<1>2. CASE InstallOutput
  BY <1>2 DEF InstallOutput, SpoolCreate, SpoolFill, SpoolSync, Intend, Record, PublishSync, Installed,
     Goto, GotoAt, TemporaryCreate, TemporaryFill, TemporarySync, Preserve, PreserveSync, RemovalSync,
     Publish, AppendSome, AppendRest
<1>3. CASE Cleanup \/ Clean
  BY <1>3 DEF Cleanup, CleanupJournal, CleanupDirectory, CleanupDone, Goto, process,
     Clean, CleanTemporary, CleanJournal, Release
<1>4. CASE Call \/ RecoverNothing \/ RecoverScaffold \/ RecoverAccepted \/ Refuse
  BY <1>4 DEF Call, Begin, Recover, RecoverNothing, RecoverScaffold, RecoverAccepted, Refuse, Goto
<1>5. CASE RollBack
  BY <1>5 DEF RollBack, RemoveNew, RemoveNewSync, RollbackIntent, Record, RestoreBackup, RestoredSync,
     ConsumedSync, KeepOriginal, Truncate, TruncateSync, Restored, Goto, GotoAt
<1>6. CASE PowerLoss \/ Stop \/ FailInstall \/ FailNewFile
  BY <1>6 DEF PowerLoss, Stop, FailInstall, FailNewFile, Stopped
<1> QED BY <1>1, <1>2, <1>3, <1>4, <1>5, <1>6 DEF Next, Work, RecoveryStep

LEMMA RestingArrivals ==
  ASSUME [Next]_vars, pc' \in {"idle", "recover", "clean"}
  PROVE  \/ CleanupDone \/ CleanTemporary \/ PowerLoss \/ Stop \/ FailInstall \/ FailNewFile
         \/ pc \in {"idle", "recover", "clean"} /\ UNCHANGED volume
<1>1. CASE WriteJournal \/ Prepare \/ Finish \/ UNCHANGED vars
  BY <1>1 DEF WriteJournal, JournalCreate, JournalRename, JournalSync, AfterJournal, Goto, GotoAt, Prepare,
     BeginSync, Recheck, Record, ReserveSpace, ReserveSync, CreateBackupDirectory, BackupDirectorySync,
     Finish, DeletionSync, Validate, DeleteMedia, vars, process
<1>2. CASE InstallOutput
  BY <1>2 DEF InstallOutput, SpoolCreate, SpoolFill, SpoolSync, Intend, Record, PublishSync, Installed,
     Goto, GotoAt, TemporaryCreate, TemporaryFill, TemporarySync, Preserve, PreserveSync, RemovalSync,
     Publish, AppendSome, AppendRest
<1>3. CASE Cleanup \/ Clean
  BY <1>3 DEF Cleanup, CleanupEntry, CleanupBackup, CleanupBackupDirectory, CleanupSync,
     CleanupJournal, CleanupDirectory, Goto, GotoAt, process,
     Clean, CleanJournal, Release, ReleaseSync, ParentsSync, Cleaned
<1>4. CASE Call \/ RecoverNothing \/ RecoverScaffold \/ RecoverAccepted \/ Refuse
  BY <1>4 DEF Call, Begin, Recover, RecoverNothing, RecoverScaffold, RecoverAccepted, Refuse, Goto
<1>5. CASE RollBack
  BY <1>5 DEF RollBack, RemoveNew, RemoveNewSync, RollbackIntent, Record, RestoreBackup, RestoredSync,
     ConsumedSync, KeepOriginal, Truncate, TruncateSync, Restored, Goto, GotoAt
<1> QED BY <1>1, <1>2, <1>3, <1>4, <1>5 DEF Next, Work, RecoveryStep

\* Cleaning up only starts under a durable terminal journal, and nothing that
\* may come back is left when it does.
LEMMA TerminalNext ==
  ASSUME IInv, Steady, InvRestorable, Resyncs => InvSettled, [Next]_vars, pc' \in CleaningUp
  PROVE  \A j \in FoundJournals' : j.phase \in {"Committed", "RolledBack"}
<1>1. journal \in FoundJournals /\ journal \in Journal
  BY DEF IInv, TypeOK, VolumeTypeOK, FoundJournals
<1>2. CASE CleanupEntry \/ CleanupBackup \/ CleanupBackupDirectory \/ CleanupSync \/ UNCHANGED vars
  <2>1. pc \in CleaningUp /\ FoundJournals' \subseteq FoundJournals
    <3>1. pc \in CleaningUp
      BY <1>2 DEF CleanupEntry, CleanupBackup, CleanupBackupDirectory, CleanupSync, vars, process
    <3>2. journal' = journal /\ journalOnDisk' \in {journalOnDisk, {journal}}
      BY <1>2 DEF CleanupEntry, CleanupBackup, CleanupBackupDirectory, CleanupSync, Remove, SyncTransaction,
         vars, volume
    <3>3. journal \in journalOnDisk
      BY DEF IInv, TypeOK, VolumeTypeOK
    <3> QED BY <3>1, <3>2, <3>3 DEF FoundJournals
  <2> QED BY <2>1 DEF InvRestorable, InvCleanup
<1>3. CASE JournalSync
  <2>1. mem = journal /\ FoundJournals' = {journal} /\ mem.phase \in {"Committed", "RolledBack"}
    <3>1. mem.phase \notin {"None", "BackingUp", "Installing", "Validating", "RollingBack"}
      BY <1>3 DEF JournalSync, Goto, AfterJournal, IInv, InvWriting, Ready
    <3> QED BY <1>1, <1>3, <3>1 DEF JournalSync, SyncTransaction, IInv, InvWriting, FoundJournals, Journal, Phase
  <2> QED BY <2>1
<1>4. CASE ReleaseSync \/ ParentsSync
  <2>1. mem = journal /\ Terminal /\ journal' = journal
    BY <1>4 DEF ReleaseSync, ParentsSync, Cleaned, Goto, GotoAt, IInv, InvRemoving, SyncTransaction, Sync
  <2>2. FoundJournals' = {journal}
    <3>1. CASE ReleaseSync
      BY <2>1, <3>1 DEF ReleaseSync, SyncTransaction, FoundJournals
    <3>2. CASE ParentsSync /\ Resyncs
      <4>1. MaxFailures = 0 /\ pc \in Cleaning /\ journalOnDisk' = journalOnDisk
        BY <3>2 DEF ParentsSync, Resyncs, Sync
      <4> QED BY <2>1, <3>2, <4>1 DEF InvSettled, FoundJournals
    <3>3. CASE ~Resyncs
      BY <2>1, <3>3 DEF FoundJournals, Resyncs, Appends
    <3> QED BY <1>4, <3>1, <3>2, <3>3
  <2> QED BY <2>1, <2>2 DEF Terminal
<1> QED BY <1>2, <1>3, <1>4, CleaningUpArrivals

\* Nothing that is gone comes back.
LEMMA FlushedForGood ==
  ASSUME IInv, InvRestorable, NEW others, SyncTransaction(others)
  PROVE  /\ \A n \in Entries : Found(n)' = {live'[n]}
         /\ live'[BackupDirectory] = "absent" => \A o \in Output : Untouched(o)'
<1>1. VolumeTypeOK /\ InvBackups
  BY DEF IInv, TypeOK, InvRestorable
<1> DEFINE names == others \cup Entries \cup (IF live[BackupDirectory] = "absent" THEN Backups ELSE {})
<1>2. disk' = Flushed(names) /\ live' = live
  BY DEF SyncTransaction
<1>3. \A n \in Entries : n \in Name /\ n \in names
  BY AsideNames
<1>4. \A n \in Entries : Found(n)' = {live[n]}
  BY <1>1, <1>2, <1>3, FoundFlush
<1>5. ASSUME live[BackupDirectory] = "absent", NEW o \in Output PROVE Untouched(o)'
  <2>1. Backup(o) \in Name /\ Backup(o) \in names /\ live[Backup(o)] = "absent"
    BY <1>1, <1>5, NamesExist DEF Backups, InvBackups
  <2> QED BY <1>1, <1>2, <2>1, FoundFlush DEF Untouched
<1> QED BY <1>2, <1>4, <1>5

LEMMA CleanupNext ==
  ASSUME IInv, Steady, InvRestorable, Resyncs => InvSettled, [Next]_vars, ~PowerLoss
  PROVE  InvCleanup'
<1>1. /\ VolumeTypeOK /\ InvCleanup /\ InvBackups /\ BackupDirectory \in Entries
      /\ \A n \in Entries \cup Backups : n \in Name
  BY AsideNames, EntryNames, NamesExist DEF IInv, TypeOK, InvRestorable, Backups
<1>2. pc' \in CleaningUp => \A j \in FoundJournals' : j.phase \in {"Committed", "RolledBack"}
  BY TerminalNext
<1>3. ASSUME pc' = "cleanup"
      PROVE  /\ \A n \in Entries : Found(n)' = {live'[n]}
             /\ live'[BackupDirectory] = "absent" => \A o \in Output : Untouched(o)'
  <2>1. CASE JournalSync \/ ReleaseSync \/ CleanupSync
    BY <2>1, FlushedForGood DEF JournalSync, ReleaseSync, CleanupSync
  <2>2. CASE ParentsSync
    <3>1. StillCall /\ live' = live /\ pc = "clean"
      BY <2>2 DEF StillCall, ParentsSync, Sync
    <3>2. CASE MaxFailures = 0
      <4>1. \A n \in Entries \cup Backups : Found(n) = {live[n]}
        BY <1>1, <3>1, <3>2 DEF InvCleanup, Found
      <4>2. \A n \in Entries : Found(n)' = {live[n]}
        <5>1. \A n \in Entries : Firm(n) /\ live[n] \in Content /\ Found(n) = {live[n]}
          BY <1>1, <3>1, <4>1, StillIsFirm DEF VolumeTypeOK
        <5> QED BY <5>1 DEF Firm
      <4>3. \A o \in Output : live[Backup(o)] = "absent" => Untouched(o)'
        <5>1. \A o \in Output : live[Backup(o)] = "absent" => Untouched(o)
          BY <4>1 DEF Untouched, Backups
        <5> QED BY <3>1, <5>1, StillIsFirm DEF Untouched, Firm, Content
      <4> QED BY <1>1, <3>1, <4>2, <4>3 DEF InvBackups, Backups
    <3>3. CASE MaxFailures # 0
      BY <1>1, <3>1, <3>3 DEF Found, Untouched, InvBackups, Backups
    <3> QED BY <3>2, <3>3
  <2>3. CASE CleanupBackup
    <3>1. pc = "cleanup" /\ live[BackupDirectory] # "absent"
      BY <2>3 DEF CleanupBackup, First, Remaining
    <3>2. \A n \in Entries : Firm(n)
      BY <2>3, DiscardingBacks
    <3> QED BY <1>1, <3>1, <3>2 DEF InvCleanup, Firm, VolumeTypeOK
  <2>4. CASE UNCHANGED vars
    BY <1>1, <1>3, <2>4 DEF vars, volume, process, InvCleanup, Found, Untouched
  <2>5. ~CleanupEntry /\ ~CleanupBackupDirectory
    BY <1>3 DEF CleanupEntry, CleanupBackupDirectory, Goto
  <2> QED BY <1>3, <2>1, <2>2, <2>3, <2>4, <2>5, CleaningUpArrivals
<1>4. ASSUME MaxFailures = 0, pc' \in {"idle", "recover", "clean"}, NEW n \in Entries \cup Backups
      PROVE  disk'[n] = {live'[n]}
  <2>1. CASE CleanupDone
    BY <1>1, <1>4, <2>1 DEF CleanupDone, SyncDevice, Flushed
  <2>2. CASE CleanTemporary
    <3>1. pc = "clean" /\ StillCall
      BY <2>2 DEF CleanTemporary, StillCall, TemporaryCall
    <3>2. Leaves(n)
      <4>1. n \in Name \ Aside
        BY <1>4, AsideNames, NamesExist DEF Backups
      <4> QED BY <3>1, <4>1, StillDisturbs DEF Disturbs
    <3> QED BY <1>1, <1>4, <3>1, <3>2 DEF Leaves, InvCleanup
  <2>3. ~(Stop \/ FailInstall \/ FailNewFile)
    BY <1>4, SteadyFailures, BoundsAssumption DEF InvRestorable
  <2>4. CASE pc \in {"idle", "recover", "clean"} /\ UNCHANGED volume
    BY <1>1, <1>4, <2>4 DEF volume, InvCleanup
  <2> QED BY <1>4, <2>1, <2>2, <2>3, <2>4, RestingArrivals
<1> QED BY <1>2, <1>3, <1>4 DEF InvCleanup

-----------------------------------------------------------------------------
(* Losses of power.                                                         *)

\* A loss of power picks what may be found, and a renamed original survives it.
LEMMA LossFinds ==
  ASSUME VolumeTypeOK, MaxFailures = 0, LosePower
  PROVE  /\ \A n \in Name : live'[n] \in Found(n) /\ Found(n)' = {live'[n]} /\ disk'[n] = {live'[n]}
         /\ journal' \in FoundJournals /\ FoundJournals' = {journal'}
         /\ RenameOrdered(live')
         /\ live'[BackupDirectory] = "absent" => \A n \in Backups : live'[n] = "absent"
<1>1. /\ \A n \in Name : live'[n] \in disk[n] /\ disk'[n] = {live'[n]}
      /\ journal' \in journalOnDisk /\ journalOnDisk' = {journal'}
  BY LossSettles
<1>2. RenameOrdered(live') /\ \E found \in journalOnDisk : DirectoriesHold(live', found)
  BY DEF LosePower
<1>3. live'[BackupDirectory] = "absent" => \A n \in Backups : live'[n] = "absent"
  BY <1>2 DEF DirectoriesHold
<1>4. Resyncs
  BY DEF Resyncs
<1> QED BY <1>1, <1>2, <1>3, <1>4 DEF Found, FoundJournals

\* An original that can be had back is.
LEMMA LossReturns ==
  ASSUME IInv, InvRestorable, MaxFailures = 0, LosePower, NEW o \in Output, Returnable(o)
  PROVE  Returnable(o)'
<1>1. VolumeTypeOK /\ Target(o) \in Name /\ Backup(o) \in Name /\ Spool(o) \in Name
  BY NamesExist DEF IInv, TypeOK
<1>2. \A n \in Name : live'[n] \in Found(n) /\ Found(n)' = {live'[n]}
  BY <1>1, LossFinds
<1>3. CASE Kind[o] = "replace"
  <2>1. "old" \in {live'[Target(o)], live'[Backup(o)]}
    <3>1. CASE Found(Target(o)) = {"old"} \/ Found(Backup(o)) = {"old"}
      BY <1>1, <1>2, <3>1
    <3>2. CASE InMotion(o)
      <4>1. \/ live[Target(o)] # "old" /\ "old" \in disk[Target(o)]
            \/ live[Backup(o)] # "old" /\ "old" \in disk[Backup(o)]
        BY <3>2 DEF InMotion, InvRestorable, InvInFlight, InvRollback
      <4>2. MovedAway(o)
        BY <4>1 DEF MovedAway
      <4> QED BY <1>1, <1>3, <4>2, LossFinds DEF RenameOrdered
    <3> QED BY <1>3, <3>1, <3>2 DEF Returnable
  <2> QED BY <1>1, <1>2, <1>3, <2>1 DEF Returnable
<1>4. CASE Kind[o] # "replace"
  BY <1>1, <1>2, <1>4 DEF Returnable, Tears
<1> QED BY <1>3, <1>4

LEMMA LossNext ==
  ASSUME IInv, Steady, InvRestorable, PowerLoss
  PROVE  InvRestorable'
<1>1. /\ VolumeTypeOK /\ MaxFailures = 0 /\ LosePower /\ pc' = "idle" /\ mem' = NoJournal
  BY SteadyFailures, BoundsAssumption DEF IInv, TypeOK, InvRestorable, PowerLoss, Stopped
<1>2. /\ \A n \in Name : live'[n] \in Found(n) /\ Found(n)' = {live'[n]} /\ disk'[n] = {live'[n]}
      /\ journal' \in FoundJournals /\ FoundJournals' = {journal'}
      /\ live'[BackupDirectory] = "absent" => \A n \in Backups : live'[n] = "absent"
  BY <1>1, LossFinds
<1>3. /\ \A n \in Entries \cup Backups : n \in Name
      /\ \A o \in Output : Target(o) \in Name /\ Backup(o) \in Name /\ Spool(o) \in Name
  BY AsideNames, NamesExist DEF Backups
<1>4. \A n \in Name, content \in Content : Found(n) = {content} => Found(n)' = {content}
  BY <1>2
<1>5. ASSUME NEW o \in Output
      PROVE  /\ Untouched(o) => Untouched(o)'
             /\ Undoable(o) => Undoable(o)'
             /\ Returnable(o) => Returnable(o)'
  <2>1. Untouched(o) => Untouched(o)'
    BY <1>3, <1>4 DEF Untouched, Content
  <2>2. Undoable(o) => Undoable(o)'
    BY <1>2, <1>3, <1>4 DEF Undoable, Content
  <2> QED BY <1>1, <2>1, <2>2, LossReturns
<1>6. ASSUME NEW j \in FoundJournals' PROVE Backed(j)'
  <2>1. Backed(j)
    BY <1>2, <1>6 DEF InvRestorable, InvBacked
  <2>2. \A n \in Entries : Found(n) = {"absent"} => Found(n)' = {"absent"}
    BY <1>3, <1>4 DEF Content
  <2> QED BY <1>5, <2>1, <2>2 DEF Backed
<1>7. FoundJournals' = {journal'} /\ journal'.installed \in 0..Outputs
  <2>1. FoundJournals \subseteq Journal
    BY DEF IInv, TypeOK, VolumeTypeOK, FoundJournals
  <2> QED BY <1>2, <2>1 DEF Journal
<1>8. InvBacked'
  <2>1. \A o \in Output : Kind[o] # "replace" => Untouched(o)'
    BY <1>5 DEF InvRestorable, InvBacked
  <2> QED BY <1>1, <1>6, <1>7, <2>1, VolumeAssumption DEF InvBacked
<1>9. InvBackups' /\ InvPrepared' /\ InvInFlight' /\ InvRollback'
  BY <1>1, <1>2 DEF InvBackups, InvPrepared, InvInFlight, InvRollback
<1>10. InvCleanup'
  BY <1>1, <1>2, <1>3 DEF InvCleanup
<1>11. Counted'
  BY BoundsAssumption DEF Counted, InvRestorable, PowerLoss
<1> QED BY <1>8, <1>9, <1>10, <1>11 DEF InvRestorable

-----------------------------------------------------------------------------
(* The theorems.                                                            *)

LEMMA RestorableNext ==
  IInv /\ (Resyncs => InvSettled) /\ Steady /\ InvRestorable /\ [Next]_vars => InvRestorable'
<1> SUFFICES ASSUME IInv, Resyncs => InvSettled, Steady, InvRestorable, [Next]_vars
             PROVE  InvRestorable'
  OBVIOUS
<1>1. CASE PowerLoss
  BY <1>1, LossNext
<1>2. CASE ~PowerLoss
  <2>1. Counted'
    <3>1. powerLosses' = powerLosses
          /\ (failures' = failures \/ (failures < MaxFailures /\ failures' = failures + 1))
      BY <1>2 DEF Next, Call, Work, Stop, FailInstall, FailNewFile, Fails, vars
    <3> QED BY <3>1, BoundsAssumption DEF InvRestorable, Counted
  <2> QED BY <1>2, <2>1, BackedNext, BackupsNext, PreparedNext, InFlightNext, RollbackNext, CleanupNext
      DEF InvRestorable
<1> QED BY <1>1, <1>2

LEMMA InitRestorable == Init => InvRestorable
<1> SUFFICES ASSUME Init PROVE InvRestorable
  OBVIOUS
<1>1. /\ \A n \in Name : disk[n] = {live[n]} /\ Found(n) = {live[n]}
      /\ journal = NoJournal /\ FoundJournals = {NoJournal}
      /\ pc = "idle" /\ powerLosses = 0 /\ failures = 0
  BY DEF Init, VolumeInit, Found, FoundJournals
<1>2. \A n \in Entries \cup Backups : n \in Name /\ live[n] = "absent"
  <2>1. \A n \in Entries \cup Backups : n \in Name /\ n \notin Medias /\ \A o \in Output : n # Target(o)
    BY DEF Name, Entries, Backups, Medias, Target, Backup, Spool, Media, BackupDirectory,
       JournalTemporary, Reserve
  <2> QED BY <2>1 DEF Init, VolumeInit
<1>3. BackupDirectory \in Entries /\ \A o \in Output : Untouched(o)
  BY <1>1, <1>2, EntryNames DEF Untouched, Backups
<1>4. InvBacked
  BY <1>1, <1>2, <1>3 DEF InvBacked, Backed, NoJournal
<1>5. InvBackups /\ InvPrepared /\ InvInFlight /\ InvRollback
  BY <1>1, <1>2 DEF InvBackups, InvPrepared, InvInFlight, InvRollback
<1>6. InvCleanup /\ Counted
  BY <1>1, <1>2, BoundsAssumption DEF InvCleanup, Counted
<1> QED BY <1>4, <1>5, <1>6 DEF InvRestorable

\* A transaction that only losses of power interrupt, or only failures and
\* killed processes, always leaves recovery what its journal sends it to: the
\* originals, the spools and the backups.
THEOREM RestorableInvariance == Steady => (Spec => []InvRestorable)
<1>1. SUFFICES ASSUME Steady PROVE Spec => []InvRestorable
  OBVIOUS
<1>2. Init => InvRestorable
  BY InitRestorable
<1>3. CASE Resyncs
  <2>1. Spec => []InvSettled
    BY <1>3, SettledInvariance
  <2>2. IInv /\ InvSettled /\ InvRestorable /\ [Next]_vars => InvRestorable'
    BY <1>1, RestorableNext
  <2> QED BY <1>2, <2>1, <2>2, Invariance, PTL DEF Spec
<1>4. CASE ~Resyncs
  <2>1. IInv /\ InvRestorable /\ [Next]_vars => InvRestorable'
    BY <1>1, <1>4, RestorableNext
  <2> QED BY <1>2, <2>1, Invariance, PTL DEF Spec
<1> QED BY <1>3, <1>4

\* What backs the journal makes its state one that recovery accepts.
LEMMA BackedIsAccepted ==
  ASSUME IInv, InvRestorable, ~Tears
  PROVE  Scaffold \/ Accepts
<1>1. /\ VolumeTypeOK /\ Backed(journal) /\ Proves(journal) /\ journal \in Journal
      /\ journal.installed \in 0..Outputs
      /\ \A o \in Output : Kind[o] # "replace" => Untouched(o)
  BY DEF IInv, TypeOK, VolumeTypeOK, JournalProof, InvRestorable, InvBacked, FoundJournals, Journal
<1>2. \A n \in Name : live[n] \in Found(n) /\ live[n] \in disk[n]
  BY <1>1, LiveIsFound
<1>3. \A o \in Output : /\ live[Target(o)] \in Found(Target(o)) /\ live[Target(o)] \in disk[Target(o)]
                        /\ live[Backup(o)] \in Found(Backup(o)) /\ live[Spool(o)] \in Found(Spool(o))
  BY <1>2, NamesExist
<1>4. \A o \in Output : Untouched(o) => live[Backup(o)] = "absent"
  BY <1>3 DEF Untouched
<1>5. CASE journal.phase = "None"
  <2>1. \A n \in Entries \ {JournalTemporary, BackupDirectory} : live[n] = "absent"
    BY <1>1, <1>2, <1>5, AsideNames DEF Backed
  <2>2. \A n \in Backups : live[n] = "absent"
    BY <1>1, <1>4, <1>5 DEF Backed, Backups
  <2> QED BY <1>5, <2>1, <2>2 DEF Scaffold
<1>6. CASE journal.phase # "None"
  <2>1. ValidCount
    BY <1>1 DEF Backed, ValidCount
  <2>2. ASSUME NEW o \in Output, Kind[o] = "replace" PROVE ValidReplacement(o)
    <3>1. CASE journal.phase \in {"Committed", "RolledBack"}
      BY <1>1, <1>3, <2>2, <3>1 DEF Proves, OldOnDisk, NewOnDisk, Original, ValidReplacement
    <3>2. CASE journal.phase \in {"BackingUp", "Installing", "Validating", "RollingBack"}
      <4>1. CASE o > journal.installed
        <5>1. Untouched(o) /\ disk[Target(o)] = {"old"}
          BY <1>1, <2>1, <2>2, <3>2, <4>1, VolumeAssumption
          DEF Backed, Proves, OldOnDisk, Original, Working, Output, ValidCount
        <5> QED BY <1>1, <1>3, <1>4, <3>2, <4>1, <5>1 DEF ValidReplacement, Attempted, Output
      <4>2. CASE o <= journal.installed
        <5>1. journal.phase # "BackingUp"
          BY <2>1, <4>2 DEF ValidCount, Output
        <5>2. \/ Undoable(o)
              \/ Returnable(o) /\ (journal.phase = "RollingBack" \/ InFlight(o))
          BY <1>1, <3>2, <4>2, <5>1 DEF Backed, InFlight, Output
        <5> QED BY <1>3, <2>2, <3>2, <4>2, <5>2
            DEF ValidReplacement, Attempted, Undoable, Returnable
      <4> QED BY <1>1, <4>1, <4>2 DEF Output
    <3> QED BY <1>1, <1>6, <3>1, <3>2 DEF Journal, Phase
  <2>3. ASSUME NEW o \in Output, Kind[o] = "append" PROVE ValidAppend(o)
    <3>1. CASE journal.phase \in {"Committed", "RolledBack"}
      BY <1>1, <1>3, <2>3, <3>1 DEF Proves, OldOnDisk, NewOnDisk, Original, ValidAppend
    <3>2. CASE journal.phase \in {"BackingUp", "Installing", "Validating", "RollingBack"}
      <4>1. live[Backup(o)] = "absent"
        BY <1>1, <1>4, <2>3
      <4>2. CASE o > journal.installed
        <5>1. disk[Target(o)] = {"old"}
          BY <1>1, <2>1, <2>3, <3>2, <4>2, VolumeAssumption
          DEF Backed, Proves, OldOnDisk, Original, Working, Output, ValidCount
        <5> QED BY <1>1, <1>3, <3>2, <4>1, <4>2, <5>1 DEF ValidAppend, Attempted, Output
      <4>3. CASE o <= journal.installed
        <5>1. journal.phase # "BackingUp"
          BY <2>1, <4>3 DEF ValidCount, Output
        <5>2. \/ Undoable(o)
              \/ Returnable(o) /\ (journal.phase = "RollingBack" \/ InFlight(o))
          BY <1>1, <3>2, <4>3, <5>1 DEF Backed, InFlight, Output
        <5> QED BY <1>3, <2>3, <3>2, <4>1, <4>3, <5>2
            DEF ValidAppend, Attempted, Undoable, Returnable
      <4> QED BY <1>1, <4>2, <4>3 DEF Output
    <3> QED BY <1>1, <1>6, <3>1, <3>2 DEF Journal, Phase
  <2>4. ASSUME NEW o \in Output, Kind[o] = "new" PROVE ValidNew(o)
    <3>1. CASE journal.phase \in {"Committed", "RolledBack"}
      BY <1>1, <1>3, <2>1, <2>4, <3>1
      DEF Proves, OldOnDisk, NewOnDisk, Original, ValidNew, ValidCount, Attempted, Output
    <3>2. CASE journal.phase \in {"BackingUp", "Installing", "Validating", "RollingBack"}
      <4>1. CASE o > journal.installed
        <5>1. disk[Target(o)] = {"absent"}
          BY <1>1, <2>1, <2>4, <3>2, <4>1, VolumeAssumption
          DEF Backed, Proves, OldOnDisk, Original, Working, Output, ValidCount
        <5> QED BY <1>3, <3>2, <5>1 DEF ValidNew
      <4>2. CASE o <= journal.installed
        <5>1. journal.phase # "BackingUp"
          BY <2>1, <4>2 DEF ValidCount, Output
        <5>2. Undoable(o) \/ Returnable(o)
          BY <1>1, <3>2, <4>2, <5>1 DEF Backed, Output
        <5> QED BY <1>3, <2>4, <3>2, <4>2, <5>2 DEF ValidNew, Attempted, Undoable, Returnable
      <4> QED BY <1>1, <4>1, <4>2 DEF Output
    <3> QED BY <1>1, <1>6, <3>1, <3>2 DEF Journal, Phase
  <2>5. \A o \in Output : Kind[o] \in {"new", "replace", "append"}
    BY VolumeAssumption DEF Output
  <2> QED BY <1>6, <2>1, <2>2, <2>3, <2>4, <2>5 DEF ValidState, Accepts
<1> QED BY <1>5, <1>6

\* Whatever stopped a transaction, recovery finds a state it acts on: the
\* transaction directory, which closes the device, is never a dead end.
THEOREM NeverADeadEnd == Steady /\ ~Tears => (Spec => []Recoverable)
<1>1. SUFFICES ASSUME Steady, ~Tears PROVE Spec => []Recoverable
  OBVIOUS
<1>2. Spec => []InvRestorable
  BY <1>1, RestorableInvariance
<1>3. IInv /\ InvRestorable => Recoverable
  BY <1>1, BackedIsAccepted DEF Recoverable
<1> QED BY <1>2, <1>3, Invariance, PTL

\* While a journal on the disk may still ask for a rollback, the bytes that
\* undo every output are on the device.
THEOREM OriginalsAreKept == Steady /\ Resyncs => (Spec => []OriginalKept)
<1>1. SUFFICES ASSUME Steady, Resyncs PROVE Spec => []OriginalKept
  OBVIOUS
<1>2. Spec => []InvRestorable
  BY <1>1, RestorableInvariance
<1>3. ASSUME IInv, InvRestorable PROVE OriginalKept
  <2>1. SUFFICES ASSUME NEW j \in journalOnDisk, j.phase \notin {"None", "Committed"}, NEW o \in Output
                 PROVE  Restorable(o)
    BY DEF OriginalKept
  <2>2. Backed(j) /\ Proves(j) /\ j \in Journal /\ j.installed \in 0..Outputs /\ VolumeTypeOK
    BY <1>1, <1>3, <2>1
    DEF IInv, TypeOK, VolumeTypeOK, JournalProof, InvRestorable, InvBacked, FoundJournals, Journal
  <2>3. /\ live[Target(o)] \in Found(Target(o)) /\ live[Target(o)] \in disk[Target(o)]
        /\ live[Backup(o)] \in Found(Backup(o)) /\ live[Spool(o)] \in Found(Spool(o))
    BY <2>2, LiveIsFound, NamesExist
  <2>4. CASE disk[Target(o)] = {Original(o)}
    BY <2>3, <2>4 DEF Original, Restorable
  <2>5. CASE j.phase \in {"BackingUp", "RolledBack"}
    BY <2>2, <2>4, <2>5 DEF Proves, OldOnDisk
  <2>6. CASE j.phase \in Working /\ o > j.installed
    BY <2>2, <2>4, <2>6 DEF Proves
  <2>7. CASE j.phase \in Working /\ o <= j.installed
    <3>1. Undoable(o) \/ Returnable(o)
      BY <2>2, <2>7 DEF Backed, Working, Output
    <3> QED BY <2>3, <3>1 DEF Undoable, Returnable, Restorable
  <2> QED BY <2>1, <2>2, <2>5, <2>6, <2>7 DEF Journal, Phase, Working, Output
<1>4. IInv /\ InvRestorable => OriginalKept
  BY <1>3
<1> QED BY <1>2, <1>4, Invariance, PTL

\* Whatever stops transactions, everything that strengthens IInv holds together:
\* what the proofs above rest on is true of any manifest, not only of the one
\* that the run of losses of power checks.
THEOREM StrengthenedInvariance == Spec => []Strengthened
<1>1. Spec => [](Resyncs => InvSettled)
  <2>1. CASE Resyncs
    <3>1. Spec => []InvSettled
      BY <2>1, SettledInvariance
    <3> QED BY <3>1, PTL
  <2>2. CASE ~Resyncs
    <3>1. Resyncs => InvSettled
      BY <2>2
    <3> QED BY <3>1, PTL
  <2> QED BY <2>1, <2>2
<1>2. Spec => [](Steady => InvRestorable)
  <2>1. CASE Steady
    <3>1. Spec => []InvRestorable
      BY <2>1, RestorableInvariance
    <3> QED BY <3>1, PTL
  <2>2. CASE ~Steady
    <3>1. Steady => InvRestorable
      BY <2>2
    <3> QED BY <3>1, PTL
  <2> QED BY <2>1, <2>2
<1>3. InvDirectory /\ InvTemporaries /\ (Resyncs => InvSettled) /\ (Steady => InvRestorable) => Strengthened
  BY DEF Strengthened
<1> QED BY <1>1, <1>2, <1>3, DirectoryInvariance, PTL
=============================================================================
