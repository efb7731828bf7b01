---------------------- MODULE InstallTransactionProofs ----------------------
(***************************************************************************)
(* Proofs that IInv is an invariant of the transaction, whatever the       *)
(* number and kind of outputs, failures and losses of power, and of what   *)
(* follows from it: TypeOK, JournalProof and Atomic.                       *)
(***************************************************************************)
EXTENDS InstallInvariant, TLAPS

-----------------------------------------------------------------------------
(* Names.                                                                   *)

\* The names of the volume that belong to an output are names of it.
LEMMA NamesExist ==
  ASSUME NEW o \in Output
  PROVE  Target(o) \in Name /\ Temporary(o) \in Name /\ Backup(o) \in Name /\ Spool(o) \in Name
BY DEF Name, Backups, Entries

\* The names that belong to no output are names of the volume.
LEMMA PlainNamesExist ==
  /\ Transaction \in Name /\ BackupDirectory \in Name
  /\ JournalTemporary \in Name /\ Reserve \in Name
  /\ \A d \in Deletion : Media(d) \in Name
BY DEF Name, Entries, Medias

\* No other name is the target of an output, and no two outputs share one.
LEMMA TargetsDistinct ==
  ASSUME NEW o \in Output
  PROVE  /\ \A p \in Output : Target(o) = Target(p) => o = p
         /\ \A p \in Output : /\ Target(o) # Temporary(p) /\ Target(o) # Backup(p)
                              /\ Target(o) # Spool(p)
         /\ \A d \in Deletion : Target(o) # Media(d)
         /\ Target(o) # Transaction /\ Target(o) # BackupDirectory
         /\ Target(o) # JournalTemporary /\ Target(o) # Reserve
BY DEF Target, Temporary, Backup, Spool, Media, Transaction, BackupDirectory,
       JournalTemporary, Reserve

\* No temporary is the backup of an output.
LEMMA TemporariesDistinct ==
  \A o, p \in Output : Temporary(o) # Backup(p)
BY DEF Temporary, Backup

\* The transaction directory is none of the names inside or beside it.
LEMMA TransactionDistinct ==
  /\ \A o \in Output : /\ Transaction # Target(o) /\ Transaction # Temporary(o)
                       /\ Transaction # Backup(o) /\ Transaction # Spool(o)
  /\ \A d \in Deletion : Transaction # Media(d)
  /\ Transaction # BackupDirectory /\ Transaction # JournalTemporary
  /\ Transaction # Reserve
BY DEF Target, Temporary, Backup, Spool, Media, Transaction, BackupDirectory,
       JournalTemporary, Reserve

-----------------------------------------------------------------------------
(* What the file system calls do to the other names.                        *)

\* Every name but those of a set keeps what it holds and what it may hold.
KeptBut(names) ==
  \A n \in Name \ names : live'[n] = live[n] /\ disk'[n] = disk[n]

\* Writing a file changes no other name, and no content appears from nowhere.
LEMMA WriteEffect ==
  ASSUME VolumeTypeOK, NEW n \in Name, NEW content \in Content, Write(n, content)
  PROVE  /\ VolumeTypeOK'
         /\ KeptBut({n}) /\ live'[n] = content /\ content \in disk'[n]
         /\ disk'[n] = disk[n] \cup Reaches(n, content)
         /\ journal' = journal /\ journalOnDisk' = journalOnDisk
<1>1. Reaches(n, content) \in SUBSET Content /\ content \in Reaches(n, content)
  BY DEF Reaches, Content
<1> QED BY <1>1 DEF Write, VolumeTypeOK, KeptBut

\* Unlinking files changes no other name.
LEMMA RemoveEffect ==
  ASSUME VolumeTypeOK, NEW names \in SUBSET Name, Remove(names)
  PROVE  /\ VolumeTypeOK'
         /\ KeptBut(names)
         /\ \A n \in names : live'[n] = "absent" /\ disk'[n] = disk[n] \cup {"absent"}
         /\ journal' = journal /\ journalOnDisk' = journalOnDisk
BY DEF Remove, VolumeTypeOK, KeptBut, Content

\* Renaming a file changes its two names only.
LEMMA RenameEffect ==
  ASSUME VolumeTypeOK, NEW from \in Name, NEW to \in Name, from # to, Rename(from, to)
  PROVE  /\ VolumeTypeOK'
         /\ KeptBut({from, to})
         /\ live'[to] = live[from] /\ live'[from] = "absent"
         /\ disk'[from] = disk[from] \cup {"absent"}
         /\ journal' = journal /\ journalOnDisk' = journalOnDisk
BY DEF Rename, VolumeTypeOK, KeptBut, Content

\* Syncing makes what is there durable and adds nothing.
LEMMA FlushEffect ==
  ASSUME VolumeTypeOK, NEW names, disk' = Flushed(names), live' = live,
         journal' = journal, journalOnDisk' \in {journalOnDisk, {journal}}
  PROVE  /\ VolumeTypeOK'
         /\ \A n \in Name : n \in names => disk'[n] = {live[n]}
         /\ \A n \in Name : n \notin names => disk'[n] = disk[n]
BY DEF Flushed, VolumeTypeOK

-----------------------------------------------------------------------------
(* What a step that decides nothing preserves.                              *)

\* Whatever was certain of a target is certain still.
Settles ==
  \A o \in Output : \A content \in Content :
     disk[Target(o)] = {content} => disk'[Target(o)] = {content}

\* A target is certain to be original when it comes first to mind.
LEMMA OriginalIsContent ==
  \A o \in Output : Original(o) \in Content /\ Original(o) # "new"
BY DEF Original, Content

\* The durable facts survive a step that settles.
LEMMA SettlesKeeps ==
  ASSUME Settles
  PROVE  /\ \A k \in Int : OldAbove(k) => OldAbove(k)'
         /\ \A k \in Int : NewThrough(k) => NewThrough(k)'
         /\ \A k \in Int : NewRemovedAbove(k) => NewRemovedAbove(k)'
         /\ OldOnDisk => OldOnDisk'
         /\ NewOnDisk => NewOnDisk'
         /\ \A j \in Journal : Proves(j) => Proves(j)'
<1>1. "new" \in Content /\ "absent" \in Content
  BY DEF Content
<1>2. \A k \in Int : OldAbove(k) => OldAbove(k)'
  BY OriginalIsContent DEF Settles, OldAbove
<1>3. \A k \in Int : NewThrough(k) => NewThrough(k)'
  BY <1>1 DEF Settles, NewThrough
<1>4. \A k \in Int : NewRemovedAbove(k) => NewRemovedAbove(k)'
  BY <1>1 DEF Settles, NewRemovedAbove
<1>5. (OldOnDisk => OldOnDisk') /\ (NewOnDisk => NewOnDisk')
  BY <1>1, OriginalIsContent DEF Settles, OldOnDisk, NewOnDisk
<1>6. \A j \in Journal : Proves(j) => Proves(j)'
  BY <1>5, OriginalIsContent DEF Settles, Proves
<1> QED BY <1>2, <1>3, <1>4, <1>5, <1>6

\* A step that settles, publishes no journal and leaves the live targets and
\* the transaction directory alone.
Calm ==
  /\ VolumeTypeOK' /\ Settles
  /\ journal' = journal /\ journalOnDisk' \in {journalOnDisk, {journal}}
  /\ live'[Transaction] = live[Transaction]
  /\ \A o \in Output : live'[Target(o)] = live[Target(o)]

\* The names whose change is calm: neither targets nor the directory itself.
Minor == Name \ ({Target(o) : o \in Output} \cup {Transaction})

\* Everything but the targets and the directory is minor.
LEMMA MinorNames ==
  /\ \A o \in Output : {Temporary(o), Backup(o), Spool(o)} \subseteq Minor
  /\ {BackupDirectory, JournalTemporary, Reserve} \subseteq Minor
  /\ \A d \in Deletion : Media(d) \in Minor
BY NamesExist, PlainNamesExist, TargetsDistinct, TransactionDistinct DEF Minor

\* Writing a minor name is calm.
LEMMA CalmWrite ==
  ASSUME VolumeTypeOK, NEW n \in Minor, NEW content \in Content, Write(n, content)
  PROVE  Calm /\ live'[n] = content /\ KeptBut({n})
BY WriteEffect, NamesExist, PlainNamesExist DEF Minor, Calm, Settles, KeptBut

\* Unlinking minor names is calm.
LEMMA CalmRemove ==
  ASSUME VolumeTypeOK, NEW names \in SUBSET Minor, Remove(names)
  PROVE  Calm
BY RemoveEffect, NamesExist, PlainNamesExist DEF Minor, Calm, Settles, KeptBut

\* Syncing is calm.
LEMMA CalmFlush ==
  ASSUME VolumeTypeOK, NEW names, disk' = Flushed(names), live' = live,
         journal' = journal, journalOnDisk' \in {journalOnDisk, {journal}}
  PROVE  Calm
<1>1. \A n \in Name : disk'[n] \in {disk[n], {live[n]}} /\ live[n] \in disk[n]
  BY FlushEffect DEF VolumeTypeOK
<1>2. Settles
  BY <1>1, NamesExist DEF Settles
<1> QED BY <1>2, FlushEffect DEF Calm

\* The three kinds of sync are calm, and leave the live names alone.
LEMMA CalmSync ==
  ASSUME VolumeTypeOK, NEW names,
         Sync(names) \/ SyncTransaction(names) \/ SyncDevice
  PROVE  Calm /\ live' = live
BY CalmFlush DEF Sync, SyncTransaction, SyncDevice

\* Syncing the parent of an output makes its target durable.
LEMMA SyncEffect ==
  ASSUME VolumeTypeOK, NEW o \in Output, NEW others, Sync(InParent(o) \cup others) \/ Sync(InParent(o))
  PROVE  disk'[Target(o)] = {live[Target(o)]}
BY NamesExist DEF Sync, Flushed, InParent

\* Leaving the volume alone is calm.
LEMMA CalmUnchanged ==
  ASSUME VolumeTypeOK, UNCHANGED volume
  PROVE  Calm
BY DEF volume, VolumeTypeOK, Calm, Settles

\* A calm step keeps what holds everywhere in the code.
LEMMA CalmStep ==
  ASSUME IInv, Calm
  PROVE  /\ JournalProof' /\ Undecided'
         /\ live'[Transaction] = "absent" => journal'.phase = "None"
         /\ AllWorking => AllWorking'
<1>1. journal \in journalOnDisk /\ journalOnDisk \in SUBSET Journal
  BY DEF IInv, TypeOK, VolumeTypeOK
<1>2. JournalProof'
  BY <1>1, SettlesKeeps DEF IInv, JournalProof, Calm
<1>3. AllWorking => AllWorking'
  BY <1>1 DEF AllWorking, Calm
<1>4. Undecided'
  BY <1>1, <1>3 DEF IInv, Undecided, AllWorking, Calm
<1> QED BY <1>2, <1>3, <1>4 DEF IInv, Enclosed, Calm

\* What the invariant says of targets it says with these three contents.
LEMMA SettlesTargets ==
  ASSUME Settles
  PROVE  \A o \in Output :
           /\ disk[Target(o)] = {"absent"} => disk'[Target(o)] = {"absent"}
           /\ disk[Target(o)] = {"new"} => disk'[Target(o)] = {"new"}
           /\ disk[Target(o)] = {Original(o)} => disk'[Target(o)] = {Original(o)}
BY OriginalIsContent DEF Settles, Content

\* A calm step that keeps the journal in memory keeps it ready.
LEMMA ReadyStays ==
  ASSUME IInv, Calm, Ready, mem' = mem, at' = at
  PROVE  Ready'
<1>1. \A o \in Output :
        /\ disk[Target(o)] = {"absent"} => disk'[Target(o)] = {"absent"}
        /\ disk[Target(o)] = {"new"} => disk'[Target(o)] = {"new"}
        /\ disk[Target(o)] = {Original(o)} => disk'[Target(o)] = {Original(o)}
  BY SettlesTargets DEF Calm
<1>2. (OldOnDisk => OldOnDisk') /\ (NewOnDisk => NewOnDisk')
  BY <1>1 DEF OldOnDisk, NewOnDisk
<1>3. mem.phase = "Installing" => NewThrough(mem.installed - 1)' /\ OldAbove(mem.installed - 1)'
  BY <1>1 DEF Ready, NewThrough, OldAbove
<1>4. mem.phase = "RollingBack" => NewRemovedAbove(0)' /\ OldAbove(mem.installed)'
  BY <1>1 DEF Ready, NewRemovedAbove, OldAbove
<1> QED BY <1>2, <1>3, <1>4, CalmStep DEF Ready

-----------------------------------------------------------------------------
(* One lemma per part of the code.                                          *)

USE DEF Preparing, Writing, Staging, Spooling, Filled, Placed, Replacing,
        CleaningUp, Cleaning, Removing, Returned, Restoring, Positioned

\* Writing a journal keeps the invariant: what is published is ready.
LEMMA WriteJournalStep == IInv /\ WriteJournal => IInv'
<1> SUFFICES ASSUME IInv, WriteJournal PROVE IInv'
  OBVIOUS
<1>1. CASE JournalCreate
  <2>1. Calm
    BY <1>1, CalmWrite, MinorNames DEF JournalCreate, IInv, TypeOK, Content
  <2>2. JournalProof' /\ Undecided' /\ TypeOK' /\ Located' /\ Enclosed'
    BY <1>1, <2>1, CalmStep DEF Calm, JournalCreate, Goto, IInv, TypeOK, Located, Enclosed
  <2>3. InvWriting'
    BY <1>1, <2>1, ReadyStays DEF JournalCreate, Goto, IInv, InvWriting
  <2> QED
    BY <1>1, <2>2, <2>3 DEF JournalCreate, Goto, IInv, InvPreparing, InvStaging,
       InvReplacing, InvFinishing, InvRemoving, InvRestoring
<1>2. CASE JournalRename
  <2>1. /\ VolumeTypeOK' /\ journal' = mem /\ journalOnDisk' = journalOnDisk \cup {mem}
        /\ live'[Transaction] = live[Transaction] /\ Ready
        /\ \A o \in Output : disk'[Target(o)] = disk[Target(o)]
    BY <1>2, TargetsDistinct, TransactionDistinct, NamesExist, PlainNamesExist
    DEF JournalRename, PublishJournal, IInv, TypeOK, VolumeTypeOK, Content, InvWriting
  <2>2. Settles
    BY <2>1 DEF Settles
  <2>3. Proves(mem)
    BY <2>1, VolumeAssumption DEF Proves, Ready, Working, OldAbove, Output, IInv, TypeOK, Journal
  <2>4. JournalProof'
    BY <2>1, <2>2, <2>3, SettlesKeeps DEF IInv, TypeOK, JournalProof, VolumeTypeOK
  <2>5. Undecided' /\ (mem.phase \in Working /\ mem.installed > 0 => AllWorking')
    BY <2>1 DEF Undecided, Ready, AllWorking
  <2>6. TypeOK' /\ Located' /\ Enclosed'
    BY <1>2, <2>1 DEF JournalRename, Goto, IInv, TypeOK, Located, Enclosed
  <2>7. InvWriting'
    BY <1>2, <2>1, <2>5
    DEF JournalRename, Goto, IInv, InvWriting, Ready, OldAbove,
        NewThrough, NewRemovedAbove, OldOnDisk, NewOnDisk
  <2> QED
    BY <1>2, <2>4, <2>5, <2>6, <2>7 DEF JournalRename, Goto, IInv, InvPreparing, InvStaging,
       InvReplacing, InvFinishing, InvRemoving, InvRestoring
<1>3. CASE JournalSync
  <2>1. Calm /\ live' = live /\ journalOnDisk' = {mem} /\ journal' = mem /\ Ready
    BY <1>3, CalmSync DEF JournalSync, SyncTransaction, IInv, TypeOK, InvWriting
  <2>2. JournalProof' /\ Undecided' /\ TypeOK'
    BY <1>3, <2>1, CalmStep DEF Calm, JournalSync, Goto, IInv, TypeOK
  <2>3. Ready'
    BY <1>3, <2>1, ReadyStays DEF JournalSync, Goto
  <2>4. mem' = mem /\ at' = at /\ pc' = AfterJournal /\ mem \in Journal
    BY <1>3 DEF JournalSync, Goto, IInv, TypeOK
  <2>5. \/ mem.phase = "BackingUp" /\ pc' \in {"reserve", "back_up"}
        \/ mem.phase = "Installing" /\ mem.installed = 0 /\ pc' = "stage"
        \/ mem.phase = "Installing" /\ mem.installed # 0 /\ pc' = "install"
        \/ mem.phase = "Validating" /\ pc' = "validate"
        \/ mem.phase = "RollingBack" /\ pc' = "restore"
        \/ mem.phase \in {"RolledBack", "Committed"} /\ pc' = "cleanup"
    BY <2>1, <2>4 DEF AfterJournal, Ready, Journal, Phase
  <2>6. Located' /\ Enclosed'
    <3>1. mem.phase = "RollingBack" => at' <= mem'.installed
      BY <2>1, <2>4, VolumeAssumption DEF Ready, IInv, TypeOK, Journal
    <3>2. Located'
      BY <2>4, <2>5, <3>1 DEF Located
    <3>3. Enclosed'
      BY <1>3, <2>1 DEF JournalSync, IInv, Enclosed, Calm
    <3> QED BY <3>2, <3>3
  <2>7. InvPreparing' /\ InvWriting' /\ InvFinishing' /\ InvRemoving'
    BY <2>3, <2>4, <2>5 DEF InvPreparing, InvWriting, InvFinishing, InvRemoving, Ready
  <2>8. InvStaging'
    <3> SUFFICES ASSUME mem.phase = "Installing", mem.installed = 0
                 PROVE  AllWorking' /\ NewThrough(mem.installed)' /\ OldAbove(mem.installed)'
      BY <2>4, <2>5 DEF InvStaging
    <3>1. AllWorking'
      BY <2>1 DEF AllWorking, Working
    <3>2. NewThrough(mem.installed)' 
      BY <2>4, VolumeAssumption DEF NewThrough, Output
    <3>3. OldAbove(mem.installed)'
      BY <2>3, <2>4, VolumeAssumption DEF Ready, OldAbove, Output
    <3> QED BY <3>1, <3>2, <3>3
  <2>9. InvReplacing'
    <3> SUFFICES ASSUME mem.phase = "Installing", mem.installed # 0
                 PROVE /\ journalOnDisk' = {mem'}
    /\ mem'.phase = "Installing" /\ mem'.installed \in Output
    /\ NewThrough(mem.installed - 1)' /\ OldAbove(mem.installed)'
      BY <2>4, <2>5 DEF InvReplacing
    <3>1. mem'.installed \in Output
      BY <2>4, VolumeAssumption DEF Journal, Output
    <3>3. OldAbove(mem.installed)'
      BY <2>3, <2>4, <3>1, VolumeAssumption DEF Ready, OldAbove, Output
    <3> QED BY <2>1, <2>3, <2>4, <3>1, <3>3 DEF Ready
  <2>10. InvRestoring'
    BY <2>1, <2>3, <2>4, <2>5 DEF InvRestoring, Ready
  <2> QED
    BY <2>2, <2>6, <2>7, <2>8, <2>9, <2>10 DEF IInv
<1> QED BY <1>1, <1>2, <1>3 DEF WriteJournal

\* A journal that is recorded is a journal, and its phase is known.
LEMMA RecordEffect ==
  ASSUME NEW phase \in Phase, NEW installed \in 0..Outputs, Record(phase, installed)
  PROVE  /\ mem' \in Journal /\ mem'.phase = phase /\ mem'.installed = installed
         /\ pc' = "journal_create"
BY DEF Record, Journal

\* Recording a journal that is ready is all that it takes before writing it.
LEMMA RecordStep ==
  ASSUME IInv, Calm, mem' \in Journal, pc' = "journal_create", Ready', at' \in 0..(Outputs + Deletions + 1),
         recovering' \in BOOLEAN, pc \notin {"idle", "recover", "remove_sync"}
  PROVE  IInv'
<1>1. JournalProof' /\ Undecided' /\ TypeOK' /\ Located' /\ Enclosed'
  BY CalmStep DEF Calm, IInv, TypeOK, Located, Enclosed
<1> QED BY <1>1 DEF IInv, InvPreparing, InvWriting, InvStaging, InvReplacing,
           InvFinishing, InvRemoving, InvRestoring

\* Wherever the code stops, nothing else is needed than what holds everywhere.
LEMMA IdleStep ==
  ASSUME IInv, Calm, pc' = "idle", mem' = NoJournal, at' = 0, recovering' = FALSE
  PROVE  IInv'
<1>1. NoJournal \in Journal
  BY VolumeAssumption DEF NoJournal, Journal, Phase
<1>2. TypeOK'
  <2>1. recovering' \in BOOLEAN
    OBVIOUS
  <2>2. at' \in 0..(Outputs + Deletions + 1)
    BY VolumeAssumption
  <2> QED BY <1>1, <2>1, <2>2 DEF Calm, TypeOK
<1>3. JournalProof' /\ Undecided' /\ Located' /\ Enclosed'
  BY CalmStep DEF Located, Enclosed
<1> QED BY <1>2, <1>3 DEF IInv, InvPreparing, InvWriting, InvStaging, InvReplacing,
           InvFinishing, InvRemoving, InvRestoring

\* Nor is anything else needed to start recovering.
LEMMA RecoverCalls ==
  ASSUME IInv, Calm, pc' = "recover", mem' = mem, at' = at, recovering' = TRUE
  PROVE  IInv'
<1>1. recovering' \in BOOLEAN
  OBVIOUS
<1>2. JournalProof' /\ Undecided' /\ TypeOK' /\ Located' /\ Enclosed'
  BY <1>1, CalmStep DEF Calm, IInv, TypeOK, Located, Enclosed
<1> QED BY <1>2 DEF IInv, InvPreparing, InvWriting, InvStaging, InvReplacing,
           InvFinishing, InvRemoving, InvRestoring

\* Preparing an installation keeps the invariant: no target is touched.
LEMMA PrepareStep == IInv /\ Prepare => IInv'
<1> SUFFICES ASSUME IInv, Prepare PROVE IInv'
  OBVIOUS
<1>1. CASE BeginSync
  <2>1. Calm /\ live' = live
    BY <1>1, CalmSync DEF BeginSync, IInv, TypeOK
  <2>2. /\ mem' \in Journal /\ mem'.phase = "BackingUp" /\ mem'.installed = 0
        /\ pc' = "journal_create"
    BY <1>1, RecordEffect, VolumeAssumption DEF BeginSync, Phase
  <2>3. OldOnDisk'
    BY <1>1, <2>1, SettlesKeeps DEF Calm, BeginSync, IInv, InvPreparing
  <2>4. Ready'
    BY <2>2, <2>3 DEF Ready, NewThrough, OldAbove, NewRemovedAbove
  <2> QED
    BY <1>1, <2>1, <2>2, <2>4, RecordStep DEF BeginSync, IInv, TypeOK
<1>2. CASE ReserveSpace \/ ReserveSync \/ CreateBackupDirectory \/ BackupDirectorySync
  <2>1. Calm
    BY <1>2, CalmSync, CalmWrite, MinorNames
    DEF ReserveSpace, ReserveSync, CreateBackupDirectory, BackupDirectorySync, IInv,
        TypeOK, Content
  <2>2. pc \in Preparing /\ pc' \in Preparing /\ mem' = mem /\ at' = at /\ recovering' = recovering
    BY <1>2 DEF ReserveSpace, ReserveSync, CreateBackupDirectory, BackupDirectorySync, Goto
  <2>3. JournalProof' /\ Undecided' /\ TypeOK' /\ Located' /\ Enclosed'
    BY <2>1, <2>2, CalmStep DEF Calm, IInv, TypeOK, Located, Enclosed
  <2>4. OldOnDisk'
    BY <2>1, <2>2, SettlesKeeps DEF Calm, IInv, InvPreparing
  <2> QED
    BY <2>2, <2>3, <2>4 DEF IInv, InvPreparing, InvWriting, InvStaging,
       InvReplacing, InvFinishing, InvRemoving, InvRestoring
<1>3. CASE Recheck
  <2>1. Calm /\ UNCHANGED volume
    BY <1>3, CalmUnchanged DEF Recheck, IInv, TypeOK
  <2>2. /\ mem' \in Journal /\ mem'.phase = "Installing" /\ mem'.installed = 0
        /\ pc' = "journal_create"
    BY <1>3, RecordEffect, VolumeAssumption DEF Recheck, Phase
  <2>3. OldOnDisk'
    BY <1>3, <2>1, SettlesKeeps DEF Calm, Recheck, IInv, InvPreparing
  <2>4. NewThrough(mem.installed - 1)' /\ OldAbove(mem.installed - 1)'
    BY <2>2, <2>3, VolumeAssumption DEF OldOnDisk, NewThrough, OldAbove, Output
  <2>5. Ready'
    BY <2>2, <2>3, <2>4 DEF Ready, NewThrough, OldAbove, NewRemovedAbove
  <2> QED
    BY <1>3, <2>1, <2>2, <2>5, RecordStep DEF Recheck, IInv, TypeOK
<1> QED BY <1>1, <1>2, <1>3 DEF Prepare

\* Staging a suffix and recording an intent keep the invariant.
LEMMA StagingStep ==
  IInv /\ (SpoolCreate \/ SpoolFill \/ SpoolSync \/ Intend) => IInv'
<1> SUFFICES ASSUME IInv, SpoolCreate \/ SpoolFill \/ SpoolSync \/ Intend PROVE IInv'
  OBVIOUS
<1>1. pc \in Staging /\ mem \in Journal /\ mem.installed + 1 \in Output
  BY VolumeAssumption DEF IInv, TypeOK, Located, SpoolCreate, SpoolFill, SpoolSync, Intend,
     Following, Journal, Output
<1>2. Calm
  BY <1>1, CalmWrite, CalmSync, CalmUnchanged, MinorNames
  DEF SpoolCreate, SpoolFill, SpoolSync, Intend, Following, IInv, TypeOK, Located, Content
<1>3. \A o \in Output : /\ o <= mem.installed => disk'[Target(o)] = {"new"}
                        /\ o > mem.installed => disk'[Target(o)] = {Original(o)}
  BY <1>1, <1>2, SettlesTargets DEF Calm, IInv, InvStaging, NewThrough, OldAbove
<1>4. AllWorking'
  BY <1>1, <1>2, CalmStep DEF IInv, InvStaging
<1>5. CASE SpoolCreate \/ SpoolFill \/ SpoolSync
  <2>1. pc' \in Spooling /\ mem' = mem /\ at' = at /\ recovering' = recovering
    BY <1>5 DEF SpoolCreate, SpoolFill, SpoolSync, Goto
  <2>2. JournalProof' /\ Undecided' /\ TypeOK' /\ Located' /\ Enclosed'
    BY <1>1, <1>2, <2>1, CalmStep, VolumeAssumption
    DEF Calm, IInv, TypeOK, Located, Enclosed, Output, Journal
  <2>3. InvStaging'
    BY <1>3, <1>4, <2>1 DEF InvStaging, NewThrough, OldAbove
  <2> QED
    BY <2>1, <2>2, <2>3 DEF IInv, InvPreparing, InvWriting, InvReplacing,
       InvFinishing, InvRemoving, InvRestoring
<1>6. CASE Intend
  <2>1. /\ mem' \in Journal /\ mem'.phase = "Installing" /\ mem'.installed = mem.installed + 1
        /\ pc' = "journal_create"
    BY <1>1, <1>6, RecordEffect, VolumeAssumption DEF Intend, Following, Phase, Output
  <2>2. NewThrough(mem.installed - 1)' /\ OldAbove(mem.installed - 1)'
    BY <1>1, <1>3, <2>1, VolumeAssumption DEF NewThrough, OldAbove, Journal
  <2>3. Ready'
    BY <1>4, <2>1, <2>2 DEF Ready, NewThrough, OldAbove, NewRemovedAbove
  <2> QED
    BY <1>2, <1>6, <2>1, <2>3, RecordStep DEF Intend, IInv, TypeOK
<1> QED BY <1>5, <1>6

\* A step that settles every target but one.
SettlesBut(x) ==
  \A o \in Output : o # x =>
     \A content \in Content :
        disk[Target(o)] = {content} => disk'[Target(o)] = {content}

\* Changing one target and a minor name beside it settles the others.
LEMMA KeptSettles ==
  ASSUME NEW x \in Output, NEW n \in Minor, KeptBut({Target(x), n})
  PROVE  SettlesBut(x) /\ live'[Transaction] = live[Transaction]
BY NamesExist, TargetsDistinct, PlainNamesExist, TransactionDistinct
DEF KeptBut, SettlesBut, Minor

\* While an output is in flight only its own target is unsettled.
LEMMA InFlightStep ==
  ASSUME IInv, pc \in Replacing, VolumeTypeOK', SettlesBut(mem.installed),
         journal' = journal, journalOnDisk' \in {journalOnDisk, {journal}},
         live'[Transaction] = live[Transaction]
  PROVE  /\ JournalProof' /\ Undecided' /\ journalOnDisk' = {mem}
         /\ \A o \in Output : /\ o < mem.installed => disk'[Target(o)] = {"new"}
                              /\ o > mem.installed => disk'[Target(o)] = {Original(o)}
         /\ live'[Transaction] = "absent" => journal'.phase = "None"
<1>1. /\ journalOnDisk = {mem} /\ journal = mem /\ mem.phase = "Installing"
      /\ mem.installed \in Output
  BY DEF IInv, InvReplacing, TypeOK, VolumeTypeOK
<1>2. journalOnDisk' = {mem}
  BY <1>1
<1>3. \A o \in Output : /\ o < mem.installed => disk'[Target(o)] = {"new"}
                        /\ o > mem.installed => disk'[Target(o)] = {Original(o)}
  BY <1>1, OriginalIsContent, VolumeAssumption
  DEF SettlesBut, IInv, InvReplacing, NewThrough, OldAbove, Content, Output
<1>4. JournalProof' /\ Undecided'
  BY <1>1, <1>2, <1>3 DEF JournalProof, Proves, Working, Undecided, AllWorking
<1> QED BY <1>2, <1>3, <1>4 DEF IInv, Enclosed

\* Installing the output in flight keeps the invariant, call by call.
LEMMA ReplacingStep ==
  IInv /\ (\/ TemporaryCreate \/ TemporaryFill \/ TemporarySync \/ Preserve
           \/ PreserveSync \/ RemovalSync \/ Publish \/ AppendSome \/ AppendRest) => IInv'
<1> SUFFICES ASSUME IInv,
                    \/ TemporaryCreate \/ TemporaryFill \/ TemporarySync \/ Preserve
                    \/ PreserveSync \/ RemovalSync \/ Publish \/ AppendSome \/ AppendRest
             PROVE  IInv'
  OBVIOUS
<1> DEFINE c == mem.installed
<1>1. /\ pc \in Replacing /\ pc' \in Replacing /\ c \in Output /\ Current = c
      /\ mem' = mem /\ at' = at /\ recovering' = recovering /\ mem.phase = "Installing"
  BY DEF TemporaryCreate, TemporaryFill, TemporarySync, Preserve, PreserveSync, RemovalSync,
     Publish, AppendSome, AppendRest, Goto, IInv, InvReplacing, Current
<1>2. /\ VolumeTypeOK' /\ SettlesBut(c)
      /\ journal' = journal /\ journalOnDisk' \in {journalOnDisk, {journal}}
      /\ live'[Transaction] = live[Transaction]
      /\ pc' \in Filled => live'[Temporary(c)] = "new"
      /\ pc' \in Placed => live'[Target(c)] = "new"
  <2>1. CASE TemporaryCreate \/ TemporaryFill
    <3>1. Calm /\ (TemporaryFill => live'[Temporary(c)] = "new")
      BY <1>1, <2>1, CalmWrite, MinorNames DEF TemporaryCreate, TemporaryFill, IInv, TypeOK, Content
    <3> QED
      BY <2>1, <3>1 DEF Calm, Settles, SettlesBut, TemporaryCreate, TemporaryFill, Goto
  <2>2. CASE TemporarySync \/ PreserveSync \/ RemovalSync
    <3>1. Calm /\ live' = live
      BY <2>2, CalmSync DEF TemporarySync, PreserveSync, RemovalSync, IInv, TypeOK
    <3> QED
      BY <1>1, <2>2, <3>1 DEF Calm, Settles, SettlesBut, TemporarySync, PreserveSync, RemovalSync,
         Goto, IInv, InvReplacing
  <2>3. CASE Preserve
    <3>1. /\ VolumeTypeOK' /\ KeptBut({Target(c), Backup(c)})
          /\ journal' = journal /\ journalOnDisk' = journalOnDisk
      BY <1>1, <2>3, RenameEffect, NamesExist, TargetsDistinct DEF Preserve, IInv, TypeOK
    <3>2. live'[Temporary(c)] = "new"
      BY <1>1, <2>3, <3>1, NamesExist, TargetsDistinct, TemporariesDistinct
      DEF KeptBut, Preserve, IInv, InvReplacing
    <3> QED
      BY <1>1, <2>3, <3>1, <3>2, KeptSettles, MinorNames DEF Preserve, Goto
  <2>4. CASE Publish
    <3>1. /\ VolumeTypeOK' /\ KeptBut({Temporary(c), Target(c)})
          /\ live'[Target(c)] = "new"
          /\ journal' = journal /\ journalOnDisk' = journalOnDisk
      BY <1>1, <2>4, RenameEffect, NamesExist, TargetsDistinct
      DEF Publish, IInv, TypeOK, InvReplacing
    <3>2. SettlesBut(c) /\ live'[Transaction] = live[Transaction]
      <4>1. {Temporary(c), Target(c)} = {Target(c), Temporary(c)}
        OBVIOUS
      <4> QED BY <1>1, <3>1, <4>1, KeptSettles, MinorNames
    <3> QED
      BY <2>4, <3>1, <3>2 DEF Publish, Goto
  <2>5. CASE AppendSome \/ AppendRest
    <3>1. /\ VolumeTypeOK' /\ KeptBut({Target(c)})
          /\ AppendRest => live'[Target(c)] = "new"
          /\ journal' = journal /\ journalOnDisk' = journalOnDisk
      BY <1>1, <2>5, WriteEffect, NamesExist DEF AppendSome, AppendRest, IInv, TypeOK, Content
    <3>2. KeptBut({Target(c), Reserve})
      BY <3>1 DEF KeptBut
    <3> QED
      BY <1>1, <2>5, <3>1, <3>2, KeptSettles, MinorNames DEF AppendSome, AppendRest, Goto
  <2> QED BY <2>1, <2>2, <2>3, <2>4, <2>5
<1>3. /\ JournalProof' /\ Undecided' /\ journalOnDisk' = {mem}
      /\ \A o \in Output : /\ o < c => disk'[Target(o)] = {"new"}
                           /\ o > c => disk'[Target(o)] = {Original(o)}
      /\ live'[Transaction] = "absent" => journal'.phase = "None"
  BY <1>1, <1>2, InFlightStep
<1>4. TypeOK' /\ Located' /\ Enclosed'
  BY <1>1, <1>2, <1>3 DEF IInv, TypeOK, Located, Enclosed
<1>5. InvReplacing'
  BY <1>1, <1>2, <1>3, VolumeAssumption DEF InvReplacing, NewThrough, OldAbove, Output
<1> QED
  BY <1>1, <1>3, <1>4, <1>5 DEF IInv, InvPreparing, InvWriting, InvStaging,
     InvFinishing, InvRemoving, InvRestoring

\* The last sync of an output makes it durable before the next intent.
LEMMA PublishSyncStep == IInv /\ PublishSync => IInv'
<1> SUFFICES ASSUME IInv, PublishSync PROVE IInv'
  OBVIOUS
<1>1. /\ pc \in Placed /\ mem.installed \in Output /\ mem \in Journal /\ Current = mem.installed
      /\ mem' = mem /\ recovering' = recovering
      /\ \/ mem.installed < Outputs /\ pc' = "stage" /\ at' = at
         \/ mem.installed = Outputs /\ pc' = "delete" /\ at' = 1
  BY VolumeAssumption DEF PublishSync, Installed, Goto, GotoAt, IInv, TypeOK, InvReplacing,
     Current, Output
<1>2. Calm /\ live' = live
  BY CalmSync DEF PublishSync, IInv, TypeOK
<1>3. disk'[Target(mem.installed)] = {"new"}
  <2>1. disk'[Target(mem.installed)] = {live[Target(mem.installed)]}
    <3>1. Sync(InParent(mem.installed))
      BY <1>1 DEF PublishSync
    <3> QED BY <1>1, <3>1, SyncEffect DEF IInv, TypeOK
  <2> QED BY <1>1, <2>1 DEF IInv, InvReplacing
<1>4. \A o \in Output : /\ o <= mem.installed => disk'[Target(o)] = {"new"}
                        /\ o > mem.installed => disk'[Target(o)] = {Original(o)}
  BY <1>1, <1>2, <1>3, SettlesTargets, VolumeAssumption
  DEF Calm, IInv, InvReplacing, NewThrough, OldAbove, Output
<1>5. JournalProof' /\ Undecided' /\ TypeOK' /\ Located' /\ Enclosed'
  BY <1>1, <1>2, CalmStep, VolumeAssumption DEF Calm, IInv, TypeOK, Located, Enclosed
<1>6. AllWorking'
  BY <1>1, <1>2, CalmStep DEF IInv, InvReplacing, AllWorking, Working
<1>7. InvStaging'
  BY <1>1, <1>4, <1>6 DEF InvStaging, NewThrough, OldAbove
<1>8. InvFinishing'
  BY <1>1, <1>4, <1>6, VolumeAssumption DEF InvFinishing, NewOnDisk, Output
<1> QED
  BY <1>1, <1>5, <1>7, <1>8 DEF IInv, InvPreparing, InvWriting, InvReplacing,
     InvRemoving, InvRestoring

\* Deleting media, validating and committing keep the invariant.
LEMMA FinishStep == IInv /\ Finish => IInv'
<1> SUFFICES ASSUME IInv, Finish PROVE IInv'
  OBVIOUS
<1>1. CASE DeleteMedia
  <2>1. Calm
    <3>1. {Media(at)} \in SUBSET Minor
      BY <1>1, MinorNames DEF DeleteMedia
    <3> QED BY <1>1, <3>1, CalmRemove DEF DeleteMedia, IInv, TypeOK
  <2>2. pc = "delete" /\ pc' = "delete" /\ at' = at + 1 /\ mem' = mem /\ recovering' = recovering
    BY <1>1 DEF DeleteMedia, GotoAt
  <2>3. at' \in 1..(Deletions + 1) /\ at' \in 0..(Outputs + Deletions + 1)
    BY <1>1, <2>2, VolumeAssumption DEF DeleteMedia, Deletion
  <2>4. JournalProof' /\ Undecided' /\ TypeOK' /\ Located' /\ Enclosed'
    BY <2>1, <2>2, <2>3, CalmStep DEF Calm, IInv, TypeOK, Located, Enclosed
  <2>5. InvFinishing'
    BY <2>1, <2>2, CalmStep, SettlesKeeps DEF Calm, IInv, InvFinishing
  <2> QED
    BY <2>2, <2>4, <2>5 DEF IInv, InvPreparing, InvWriting, InvStaging, InvReplacing,
       InvRemoving, InvRestoring
<1>2. CASE DeletionSync
  <2>1. Calm /\ NewOnDisk' /\ AllWorking'
    BY <1>2, CalmSync, CalmStep, SettlesKeeps DEF DeletionSync, Calm, IInv, TypeOK, InvFinishing
  <2>2. /\ mem' \in Journal /\ mem'.phase = "Validating" /\ mem'.installed = Outputs
        /\ pc' = "journal_create"
    BY <1>2, RecordEffect, VolumeAssumption DEF DeletionSync, Phase
  <2>3. Ready'
    BY <2>1, <2>2 DEF Ready, NewThrough, OldAbove, NewRemovedAbove
  <2> QED
    BY <1>2, <2>1, <2>2, <2>3, RecordStep DEF DeletionSync, IInv, TypeOK
<1>3. CASE Validate
  <2>1. Calm /\ NewOnDisk'
    BY <1>3, CalmUnchanged, SettlesKeeps DEF Validate, Calm, IInv, TypeOK, InvFinishing
  <2>2. /\ mem' \in Journal /\ mem'.phase = "Committed" /\ mem'.installed = Outputs
        /\ pc' = "journal_create"
    BY <1>3, RecordEffect, VolumeAssumption DEF Validate, Phase
  <2>3. Ready'
    BY <2>1, <2>2 DEF Ready, Working, NewThrough, OldAbove, NewRemovedAbove
  <2> QED
    BY <1>3, <2>1, <2>2, <2>3, RecordStep DEF Validate, IInv, TypeOK
<1> QED BY <1>1, <1>2, <1>3 DEF Finish

\* Removing the transaction directory keeps the invariant.
LEMMA CleanupStep == IInv /\ Cleanup => IInv'
<1> SUFFICES ASSUME IInv, Cleanup PROVE IInv'
  OBVIOUS
<1>1. CASE CleanupEntry \/ CleanupBackup \/ CleanupBackupDirectory \/ CleanupSync
  <2>1. Calm
    <3>1. /\ \A n \in Entries : {n} \in SUBSET Minor
          /\ \A n \in Backups : {n} \in SUBSET Minor
          /\ {BackupDirectory} \in SUBSET Minor
      BY MinorNames DEF Entries, Backups
    <3> QED
      BY <1>1, <3>1, CalmRemove, CalmSync
      DEF CleanupEntry, CleanupBackup, CleanupBackupDirectory, CleanupSync, IInv, TypeOK
  <2>2. /\ pc \in CleaningUp /\ pc' \in CleaningUp
        /\ mem' = mem /\ at' = at /\ recovering' = recovering
    BY <1>1 DEF CleanupEntry, CleanupBackup, CleanupBackupDirectory, CleanupSync, Goto, process
  <2>3. JournalProof' /\ Undecided' /\ TypeOK' /\ Located' /\ Enclosed'
    BY <2>1, <2>2, CalmStep DEF Calm, IInv, TypeOK, Located, Enclosed
  <2>4. InvFinishing'
    BY <2>1, <2>2, SettlesKeeps DEF Calm, IInv, InvFinishing
  <2> QED
    BY <2>2, <2>3, <2>4 DEF IInv, InvPreparing, InvWriting, InvStaging, InvReplacing,
       InvRemoving, InvRestoring
<1>2. CASE CleanupJournal
  <2>1. /\ journal' = NoJournal /\ journalOnDisk' = journalOnDisk \cup {NoJournal}
        /\ live' = live /\ disk' = disk /\ (OldOnDisk \/ NewOnDisk)
        /\ pc = "cleanup" /\ pc' = "remove_directory"
        /\ mem' = mem /\ at' = at /\ recovering' = recovering
    BY <1>2 DEF CleanupJournal, RemoveJournal, Goto, IInv, InvFinishing
  <2>2. NoJournal \in Journal /\ NoJournal.phase = "None"
    BY VolumeAssumption DEF NoJournal, Journal, Phase
  <2>3. TypeOK'
    BY <2>1, <2>2 DEF IInv, TypeOK, VolumeTypeOK
  <2>4. JournalProof'
    BY <2>1, <2>2 DEF IInv, JournalProof, Proves, OldOnDisk, NewOnDisk, Working
  <2>5. Undecided' /\ Located' /\ Enclosed'
    BY <2>1, <2>2 DEF IInv, Undecided, Working, Located, Enclosed
  <2> QED
    BY <2>1, <2>2, <2>3, <2>4, <2>5 DEF IInv, InvPreparing, InvWriting, InvStaging,
       InvReplacing, InvFinishing, InvRemoving, InvRestoring
<1>3. CASE CleanupDirectory
  <2>1. /\ VolumeTypeOK' /\ KeptBut({Transaction}) /\ live'[Transaction] = "absent"
        /\ journal' = journal /\ journalOnDisk' = journalOnDisk
    BY <1>3, WriteEffect, PlainNamesExist DEF CleanupDirectory, IInv, TypeOK, Content
  <2>2. /\ pc = "remove_directory" /\ pc' = "remove_sync" /\ journal.phase = "None"
        /\ mem' = mem /\ at' = at /\ recovering' = recovering
    BY <1>3 DEF CleanupDirectory, Goto, IInv, InvFinishing
  <2>3. Settles
    BY <2>1, NamesExist, TransactionDistinct DEF KeptBut, Settles
  <2>4. JournalProof'
    BY <2>1, <2>3, SettlesKeeps DEF IInv, JournalProof, VolumeTypeOK
  <2>5. TypeOK' /\ Undecided' /\ Located' /\ Enclosed'
    BY <2>1, <2>2 DEF IInv, TypeOK, Undecided, Working, Located, Enclosed
  <2> QED
    BY <2>1, <2>2, <2>4, <2>5 DEF IInv, InvPreparing, InvWriting, InvStaging,
       InvReplacing, InvFinishing, InvRemoving, InvRestoring
<1>4. CASE CleanupDone
  <2>1. Calm /\ pc' = "idle" /\ mem' = NoJournal /\ at' = 0 /\ recovering' = FALSE
    BY <1>4, CalmSync DEF CleanupDone, IInv, TypeOK
  <2> QED BY <2>1, IdleStep
<1> QED BY <1>1, <1>2, <1>3, <1>4 DEF Cleanup

\* An installation that begins finds the original generation durable.
LEMMA BeginStep == IInv /\ Begin => IInv'
<1> SUFFICES ASSUME IInv, Begin PROVE IInv'
  OBVIOUS
<1>1. /\ VolumeTypeOK' /\ KeptBut({Transaction}) /\ live'[Transaction] = "present"
      /\ journal' = journal /\ journalOnDisk' = journalOnDisk
  BY WriteEffect, PlainNamesExist DEF Begin, IInv, TypeOK, Content
<1>2. /\ pc = "idle" /\ pc' = "create_sync" /\ journal.phase = "None"
      /\ mem' = mem /\ at' = at /\ recovering' = recovering
  BY DEF Begin, IInv, Enclosed
<1>3. Settles
  BY <1>1, NamesExist, TransactionDistinct DEF KeptBut, Settles
<1>4. JournalProof'
  BY <1>1, <1>3, SettlesKeeps DEF IInv, JournalProof, VolumeTypeOK
<1>5. TypeOK' /\ Undecided' /\ Located' /\ Enclosed'
  BY <1>1, <1>2 DEF IInv, TypeOK, Undecided, Working, Located, Enclosed
<1>6. OldOnDisk
  <2>1. OldOnDisk \/ NewOnDisk
    BY <1>2 DEF IInv, TypeOK, VolumeTypeOK, JournalProof, Proves
  <2>2. 1 \in Output
    BY VolumeAssumption DEF Output
  <2>3. live[Target(1)] = Original(1) /\ live[Target(1)] \in disk[Target(1)]
    BY <2>2, NamesExist DEF Begin, AllOld, IInv, TypeOK, VolumeTypeOK
  <2> QED BY <2>1, <2>2, <2>3, OriginalIsContent DEF NewOnDisk
<1> QED
  BY <1>2, <1>3, <1>4, <1>5, <1>6, SettlesKeeps DEF IInv, InvPreparing, InvWriting, InvStaging,
     InvReplacing, InvFinishing, InvRemoving, InvRestoring

\* Recovery starts from whatever the invariant allows to be found.
LEMMA EnterStep ==
  IInv /\ (Recover \/ RecoverNothing \/ RecoverScaffold \/ RecoverAccepted \/ Refuse) => IInv'
<1> SUFFICES ASSUME IInv,
                    Recover \/ RecoverNothing \/ RecoverScaffold \/ RecoverAccepted \/ Refuse
             PROVE  IInv'
  OBVIOUS
<1>1. CASE Recover
  <2>1. Calm
    BY <1>1, CalmUnchanged DEF Recover, IInv, TypeOK
  <2> QED BY <1>1, <2>1, RecoverCalls DEF Recover
<1>2. CASE RecoverNothing \/ Refuse
  <2>1. Calm
    BY <1>2, CalmUnchanged DEF RecoverNothing, Refuse, IInv, TypeOK
  <2> QED BY <1>2, <2>1, IdleStep DEF RecoverNothing, Refuse
<1>3. CASE RecoverScaffold
  <2>1. Calm
    BY <1>3, CalmRemove, MinorNames DEF RecoverScaffold, IInv, TypeOK
  <2>2. /\ pc = "recover" /\ pc' = "remove_directory" /\ journal.phase = "None"
        /\ live[Transaction] # "absent"
        /\ mem' = mem /\ at' = at /\ recovering' = recovering
    BY <1>3 DEF RecoverScaffold, Scaffold, Goto
  <2>3. JournalProof' /\ Undecided' /\ TypeOK' /\ Located' /\ Enclosed'
    BY <2>1, <2>2, CalmStep DEF Calm, IInv, TypeOK, Located, Enclosed
  <2> QED
    BY <2>1, <2>2, <2>3 DEF Calm, IInv, InvPreparing, InvWriting, InvStaging, InvReplacing,
       InvFinishing, InvRemoving, InvRestoring
<1>4. CASE RecoverAccepted
  <2>1. Calm /\ journal' = journal
    BY <1>4, CalmUnchanged DEF RecoverAccepted, IInv, TypeOK, Calm
  <2>2. /\ pc = "recover" /\ pc' = "clean" /\ mem' = journal /\ live[Transaction] # "absent"
        /\ journal.phase # "None" /\ (journal.phase = "BackingUp" => journal.installed = 0)
        /\ at' = at /\ recovering' = recovering
    BY <1>4 DEF RecoverAccepted, Accepts, ValidState, ValidCount
  <2>3. JournalProof' /\ Undecided' /\ TypeOK' /\ Located' /\ Enclosed'
    BY <2>1, <2>2, CalmStep DEF Calm, IInv, TypeOK, VolumeTypeOK, Located, Enclosed
  <2>4. InvRemoving'
    BY <2>1, <2>2 DEF InvRemoving
  <2> QED
    BY <2>2, <2>3, <2>4 DEF IInv, InvPreparing, InvWriting, InvStaging, InvReplacing,
       InvFinishing, InvRestoring
<1> QED BY <1>1, <1>2, <1>3, <1>4

\* Recovery's clean-up leaves targets alone, and knows what a journal proves.
LEMMA CleanStep == IInv /\ Clean => IInv'
<1> SUFFICES ASSUME IInv, Clean PROVE IInv'
  OBVIOUS
<1>1. pc \in Cleaning
  BY DEF Clean, CleanTemporary, CleanJournal, Release, ReleaseSync, ParentsSync
<1>2. Calm
  <2>1. /\ \A n \in Temporaries : {n} \in SUBSET Minor
        /\ {JournalTemporary} \in SUBSET Minor
        /\ \A n \in Expendable : {n} \in SUBSET Minor
    BY MinorNames DEF Temporaries, Expendable
  <2>2. \A names : \A n \in Present(names) : n \in names
    BY DEF Present
  <2>3. CASE CleanTemporary
    BY <2>1, <2>2, <2>3, CalmRemove DEF CleanTemporary, IInv, TypeOK
  <2>4. CASE CleanJournal
    BY <2>1, <2>4, CalmRemove DEF CleanJournal, IInv, TypeOK
  <2>5. CASE Release
    BY <2>1, <2>2, <2>5, CalmRemove DEF Release, IInv, TypeOK
  <2>6. CASE ReleaseSync \/ ParentsSync
    BY <2>6, CalmSync DEF ReleaseSync, ParentsSync, IInv, TypeOK
  <2> QED BY <2>3, <2>4, <2>5, <2>6 DEF Clean
<1>3. /\ mem = journal /\ mem.phase # "None" /\ mem \in Journal
      /\ mem.phase = "BackingUp" => mem.installed = 0
      /\ mem' = mem /\ recovering' = recovering /\ journal' = journal
  BY <1>1, <1>2 DEF IInv, TypeOK, InvRemoving, Calm, Clean, CleanTemporary, CleanJournal, Release,
     ReleaseSync, ParentsSync, Cleaned, Goto, GotoAt, process
<1>4. \/ pc' \in Cleaning /\ at' = at
      \/ Terminal /\ pc' = "cleanup" /\ at' = at
      \/ ~Terminal /\ pc' = "remove_new" /\ at' = mem.installed
  BY <1>1 DEF Clean, CleanTemporary, CleanJournal, Release, ReleaseSync, ParentsSync, Cleaned,
     Goto, GotoAt, process
<1>5. Proves(mem) /\ Proves(mem)'
  <2>1. Proves(mem)
    BY <1>3 DEF IInv, TypeOK, VolumeTypeOK, JournalProof
  <2>2. Proves(journal)'
    BY <1>2, <1>3, <2>1, CalmStep DEF Calm, JournalProof, VolumeTypeOK
  <2> QED BY <1>3, <2>1, <2>2
<1>6. TypeOK'
  BY <1>2, <1>3, <1>4, VolumeAssumption DEF Calm, IInv, TypeOK, Journal
<1>7. Located'
  BY <1>3, <1>4, VolumeAssumption DEF IInv, Located, Journal
<1>8. JournalProof' /\ Undecided' /\ Enclosed'
  BY <1>1, <1>2, <1>4, CalmStep DEF Calm, IInv, Enclosed
<1>9. InvFinishing'
  BY <1>3, <1>4, <1>5 DEF InvFinishing, Terminal, Proves
<1>10. InvRemoving'
  <2>1. ~Terminal => \A o \in Output : o > mem.installed => disk'[Target(o)] = {Original(o)}
    BY <1>3, <1>5, VolumeAssumption DEF Proves, Terminal, Working, OldOnDisk, Journal, Phase
  <2> QED BY <1>3, <1>4, <2>1 DEF InvRemoving, NewRemovedAbove, Terminal, Original
<1> QED
  BY <1>4, <1>6, <1>7, <1>8, <1>9, <1>10 DEF IInv, InvPreparing, InvWriting, InvStaging,
     InvReplacing, InvRestoring

\* What rolling back new files starts from.
LEMMA RemovingFacts ==
  ASSUME IInv, pc \in Removing
  PROVE  /\ mem = journal /\ mem \in Journal /\ journal \in journalOnDisk
         /\ mem.phase \in {"BackingUp", "Installing", "Validating", "RollingBack"}
         /\ \A o \in Output : o > mem.installed => disk[Target(o)] = {Original(o)}
         /\ \A o \in Output : o <= mem.installed => AllWorking
<1>1. /\ mem = journal /\ mem \in Journal /\ journal \in journalOnDisk
      /\ mem.phase = "BackingUp" => mem.installed = 0
  BY DEF IInv, TypeOK, VolumeTypeOK, InvRemoving
<1>2. mem.phase \in {"BackingUp", "Installing", "Validating", "RollingBack"}
  BY <1>1 DEF IInv, InvRemoving, Terminal, Journal, Phase
<1>3. Proves(mem)
  BY <1>1 DEF IInv, JournalProof
<1>4. \A o \in Output : o > mem.installed => disk[Target(o)] = {Original(o)}
  BY <1>2, <1>3 DEF Proves, Working, OldOnDisk
<1>5. \A o \in Output : o <= mem.installed => AllWorking
  BY <1>1, <1>2, VolumeAssumption DEF IInv, Undecided, Working, Output, Journal
<1> QED BY <1>1, <1>2, <1>4, <1>5

\* A new file that is removed was attempted under every journal left.
LEMMA RemoveNewStep == IInv /\ RemoveNew => IInv'
<1> SUFFICES ASSUME IInv, RemoveNew PROVE IInv'
  OBVIOUS
<1>1. PICK o \in Output : /\ NextDown(o, {"new"}) /\ Remove({Target(o)})
                          /\ GotoAt("remove_new_sync", o)
  BY DEF RemoveNew
<1>2. /\ pc = "remove_new" /\ pc' = "remove_new_sync" /\ at' = o
      /\ mem' = mem /\ recovering' = recovering
  BY <1>1 DEF RemoveNew, GotoAt
<1>3. /\ VolumeTypeOK' /\ KeptBut({Target(o)}) /\ live'[Target(o)] = "absent"
      /\ disk'[Target(o)] = disk[Target(o)] \cup {"absent"}
      /\ journal' = journal /\ journalOnDisk' = journalOnDisk
  BY <1>1, RemoveEffect, NamesExist DEF IInv, TypeOK
<1>4. /\ Kind[o] = "new" /\ o <= at /\ o <= mem.installed /\ AllWorking
      /\ \A p \in Output : p > o /\ p <= at => Kind[p] # "new"
  BY <1>1, <1>2, RemovingFacts, VolumeAssumption
  DEF NextDown, IInv, TypeOK, Located, Output, Journal
<1>5. \A p \in Output : /\ p # o => disk'[Target(p)] = disk[Target(p)]
                        /\ disk[Target(p)] = {Original(p)} => disk'[Target(p)] = {Original(p)}
  BY <1>3, <1>4, NamesExist, TargetsDistinct DEF KeptBut, Original
<1>6. JournalProof'
  BY <1>3, <1>4, <1>5 DEF IInv, JournalProof, AllWorking, Working, Proves
<1>7. live'[Transaction] = live[Transaction]
  BY <1>3, PlainNamesExist, TransactionDistinct DEF KeptBut
<1>8. TypeOK' /\ Undecided' /\ Located' /\ Enclosed'
  <2>1. at' \in 0..(Outputs + Deletions + 1)
    BY <1>2, VolumeAssumption DEF Output
  <2> QED BY <1>2, <1>3, <1>4, <1>7, <2>1
          DEF IInv, TypeOK, Undecided, AllWorking, Located, Enclosed
<1>9. \A p \in Output : p > o /\ Kind[p] = "new" => disk'[Target(p)] = {"absent"}
  BY <1>2, <1>4, <1>5, VolumeAssumption DEF IInv, TypeOK, InvRemoving, NewRemovedAbove, Output
<1>10. InvRemoving'
  BY <1>2, <1>3, <1>4, <1>9 DEF IInv, InvRemoving, NewRemovedAbove, Terminal
<1> QED
  BY <1>2, <1>6, <1>8, <1>10 DEF IInv, InvPreparing, InvWriting, InvStaging,
     InvReplacing, InvFinishing, InvRestoring

\* A removal is durable before the next one.
LEMMA RemoveNewSyncStep == IInv /\ RemoveNewSync => IInv'
<1> SUFFICES ASSUME IInv, RemoveNewSync PROVE IInv'
  OBVIOUS
<1>1. /\ pc = "remove_new_sync" /\ pc' = "remove_new" /\ at \in Output /\ at' = at - 1
      /\ at <= mem.installed /\ mem' = mem /\ recovering' = recovering /\ Sync(InParent(at))
  BY DEF RemoveNewSync, GotoAt, IInv, Located
<1>2. Calm /\ live' = live /\ disk'[Target(at)] = {"absent"}
  BY <1>1, CalmSync, SyncEffect DEF IInv, TypeOK, InvRemoving
<1>3. JournalProof' /\ Undecided' /\ Enclosed'
  BY <1>1, <1>2, CalmStep DEF Calm, IInv, Enclosed
<1>4. TypeOK' /\ Located'
  BY <1>1, <1>2, VolumeAssumption DEF Calm, IInv, TypeOK, Located, Output, Journal
<1>5. \A p \in Output : p > at' /\ Kind[p] = "new" => disk'[Target(p)] = {"absent"}
  BY <1>1, <1>2, SettlesTargets, VolumeAssumption
  DEF Calm, IInv, InvRemoving, NewRemovedAbove, Output
<1>6. InvRemoving'
  BY <1>1, <1>2, <1>5 DEF Calm, IInv, InvRemoving, NewRemovedAbove, Terminal
<1> QED
  BY <1>1, <1>3, <1>4, <1>6 DEF IInv, InvPreparing, InvWriting, InvStaging,
     InvReplacing, InvFinishing, InvRestoring

\* The rollback intent is recorded once every new file is durably gone.
LEMMA RollbackIntentStep == IInv /\ RollbackIntent => IInv'
<1> SUFFICES ASSUME IInv, RollbackIntent PROVE IInv'
  OBVIOUS
<1>1. /\ pc = "remove_new" /\ NoneDown({"new"}) /\ at' = mem.installed
      /\ recovering' = recovering /\ mem \in Journal /\ mem = journal
  BY RemovingFacts DEF RollbackIntent
<1>2. Calm
  BY CalmUnchanged DEF RollbackIntent, IInv, TypeOK
<1>3. /\ mem' \in Journal /\ mem'.phase = "RollingBack" /\ mem'.installed = mem.installed
      /\ \/ pc' = "journal_create"
         \/ pc' = "journal_sync" /\ journal' = mem'
  BY <1>1, <1>2, RecordEffect DEF RollbackIntent, Calm, Phase, Journal
<1>4. \A o \in Output :
        /\ Kind[o] = "new" => disk'[Target(o)] = {"absent"}
        /\ o > mem.installed => disk'[Target(o)] = {Original(o)}
  BY <1>1, <1>2, RemovingFacts, SettlesTargets, VolumeAssumption
  DEF Calm, NoneDown, IInv, TypeOK, InvRemoving, NewRemovedAbove, Output
<1>5. mem.installed > 0 => AllWorking'
  BY <1>1, <1>2, RemovingFacts, CalmStep, VolumeAssumption DEF Output, Journal
<1>6. Ready'
  BY <1>1, <1>3, <1>4, <1>5 DEF Ready, NewThrough, OldAbove, NewRemovedAbove
<1>7. JournalProof' /\ Undecided' /\ Enclosed'
  BY <1>1, <1>2, <1>3, CalmStep DEF Calm, IInv, Enclosed
<1>8. TypeOK' /\ Located'
  BY <1>1, <1>2, <1>3, VolumeAssumption DEF Calm, IInv, TypeOK, Located, Journal
<1> QED
  BY <1>3, <1>6, <1>7, <1>8 DEF IInv, InvPreparing, InvWriting, InvStaging,
     InvReplacing, InvFinishing, InvRemoving, InvRestoring

\* While an output is put back only its own target is unsettled.
LEMMA PutBack ==
  ASSUME IInv, pc \in Restoring, NEW x \in Output, x <= at, Kind[x] # "new",
         VolumeTypeOK', SettlesBut(x),
         journal' = journal, journalOnDisk' \in {journalOnDisk, {journal}},
         live'[Transaction] = live[Transaction]
  PROVE  /\ JournalProof' /\ Undecided' /\ journalOnDisk' = {mem} /\ mem.phase = "RollingBack"
         /\ \A o \in Output : /\ Kind[o] = "new" => disk'[Target(o)] = {"absent"}
                              /\ o > at /\ o # x => disk'[Target(o)] = {Original(o)}
         /\ live'[Transaction] = "absent" => journal'.phase = "None"
<1>1. /\ journalOnDisk = {mem} /\ journal = mem /\ mem.phase = "RollingBack"
      /\ x <= mem.installed /\ at <= mem.installed /\ mem \in Journal
  BY VolumeAssumption DEF IInv, InvRestoring, TypeOK, VolumeTypeOK, Located, Output, Journal
<1>2. journalOnDisk' = {mem}
  BY <1>1
<1>3. \A o \in Output : /\ Kind[o] = "new" => disk'[Target(o)] = {"absent"}
                        /\ o > at /\ o # x => disk'[Target(o)] = {Original(o)}
  BY <1>1, OriginalIsContent, VolumeAssumption
  DEF SettlesBut, IInv, InvRestoring, NewRemovedAbove, OldAbove, Content, Output
<1>4. \A o \in Output : o > mem.installed => disk'[Target(o)] = {Original(o)}
  BY <1>1, <1>3, VolumeAssumption DEF IInv, TypeOK, Output, Journal
<1>5. JournalProof' /\ Undecided'
  BY <1>1, <1>2, <1>4 DEF JournalProof, Proves, Working, Undecided, AllWorking
<1> QED BY <1>1, <1>2, <1>3, <1>5 DEF IInv, Enclosed

\* An output above the next one to put back is new, and so is gone.
LEMMA PassedOver ==
  ASSUME IInv, pc = "restore", NEW x \in Nat,
         \A p \in (x + 1)..at : Kind[p] \notin Replaced
  PROVE  \A o \in Output : o > x => disk[Target(o)] = {Original(o)}
<1>1. ASSUME NEW o \in Output, o > x, o <= at PROVE disk[Target(o)] = {Original(o)}
  <2>1. Kind[o] = "new"
    BY <1>1, VolumeAssumption DEF Replaced, Output, IInv, TypeOK
  <2> QED BY <1>1, <2>1, VolumeAssumption
          DEF IInv, InvRestoring, NewRemovedAbove, Original, Output
<1>2. ASSUME NEW o \in Output, o > at PROVE disk[Target(o)] = {Original(o)}
  BY <1>2 DEF IInv, InvRestoring, OldAbove
<1> QED BY <1>1, <1>2, VolumeAssumption DEF IInv, TypeOK, Output

\* Putting an original back touches only what the rollback intent covers.
LEMMA ReturnStep == IInv /\ (RestoreBackup \/ Truncate) => IInv'
<1> SUFFICES ASSUME IInv, RestoreBackup \/ Truncate PROVE IInv'
  OBVIOUS
<1>1. PICK x \in Output :
        /\ NextDown(x, Replaced) /\ at' = x
        /\ \/ Kind[x] = "replace" /\ live[Backup(x)] = "old"
              /\ Rename(Backup(x), Target(x)) /\ pc' = "restored_sync"
           \/ Kind[x] = "append" /\ Write(Target(x), "old") /\ pc' = "truncate_sync"
  BY DEF RestoreBackup, Truncate, GotoAt
<1>2. /\ pc = "restore" /\ pc' \in Returned /\ mem' = mem /\ recovering' = recovering
      /\ Kind[x] # "new" /\ x <= at /\ x <= mem.installed
  BY <1>1, VolumeAssumption
  DEF RestoreBackup, Truncate, GotoAt, NextDown, IInv, TypeOK, Located, Output, Journal
<1>3. /\ VolumeTypeOK' /\ KeptBut({Target(x), Backup(x)}) /\ live'[Target(x)] = "old"
      /\ journal' = journal /\ journalOnDisk' = journalOnDisk
  <2>1. CASE Rename(Backup(x), Target(x)) /\ live[Backup(x)] = "old"
    <3>1. {Backup(x), Target(x)} = {Target(x), Backup(x)}
      OBVIOUS
    <3> QED BY <2>1, <3>1, RenameEffect, NamesExist, TargetsDistinct DEF IInv, TypeOK
  <2>2. CASE Write(Target(x), "old")
    BY <2>2, WriteEffect, NamesExist DEF IInv, TypeOK, Content, KeptBut
  <2> QED BY <1>1, <2>1, <2>2
<1>4. SettlesBut(x) /\ live'[Transaction] = live[Transaction]
  BY <1>3, KeptSettles, MinorNames
<1>5. /\ JournalProof' /\ Undecided' /\ journalOnDisk' = {mem} /\ mem.phase = "RollingBack"
      /\ \A o \in Output : Kind[o] = "new" => disk'[Target(o)] = {"absent"}
  BY <1>2, <1>3, <1>4, PutBack
<1>6. \A o \in Output : o > x => disk'[Target(o)] = {Original(o)}
  <2>1. \A o \in Output : o > x => disk[Target(o)] = {Original(o)}
    BY <1>1, <1>2, PassedOver, VolumeAssumption DEF NextDown, Output
  <2> QED BY <1>4, <2>1, OriginalIsContent, VolumeAssumption DEF SettlesBut, Output
<1>7. TypeOK' /\ Located' /\ Enclosed'
  <2>1. at' \in 0..(Outputs + Deletions + 1)
    BY <1>1, VolumeAssumption DEF Output
  <2> QED BY <1>1, <1>2, <1>3, <1>4, <2>1 DEF IInv, TypeOK, Located, Enclosed
<1>8. InvRestoring'
  BY <1>1, <1>2, <1>3, <1>5, <1>6 DEF InvRestoring, NewRemovedAbove, OldAbove
<1> QED
  BY <1>2, <1>5, <1>7, <1>8 DEF IInv, InvPreparing, InvWriting, InvStaging,
     InvReplacing, InvFinishing, InvRemoving

\* What a calm step keeps while originals are put back.
LEMMA RestoringCalm ==
  ASSUME IInv, pc \in Restoring, Calm
  PROVE  /\ journalOnDisk' = {mem} /\ mem.phase = "RollingBack" /\ mem \in Journal
         /\ \A o \in Output : /\ Kind[o] = "new" => disk'[Target(o)] = {"absent"}
                              /\ o > at => disk'[Target(o)] = {Original(o)}
         /\ JournalProof' /\ Undecided'
         /\ live'[Transaction] = "absent" => journal'.phase = "None"
<1>1. /\ journalOnDisk = {mem} /\ journal = mem /\ mem.phase = "RollingBack" /\ mem \in Journal
  BY DEF IInv, InvRestoring, TypeOK, VolumeTypeOK
<1>2. \A o \in Output : /\ Kind[o] = "new" => disk'[Target(o)] = {"absent"}
                        /\ o > at => disk'[Target(o)] = {Original(o)}
  BY SettlesTargets, VolumeAssumption
  DEF Calm, IInv, InvRestoring, NewRemovedAbove, OldAbove, Output
<1> QED BY <1>1, <1>2, CalmStep DEF Calm

\* An original is durable before its backup counts as consumed.
LEMMA ReturnSyncStep == IInv /\ (RestoredSync \/ ConsumedSync \/ TruncateSync) => IInv'
<1> SUFFICES ASSUME IInv, RestoredSync \/ ConsumedSync \/ TruncateSync PROVE IInv'
  OBVIOUS
<1>1. /\ pc \in Positioned /\ pc \in Restoring /\ at \in Output /\ Kind[at] # "new"
      /\ at <= mem.installed /\ mem' = mem /\ recovering' = recovering
      /\ \/ pc = "restored_sync" /\ pc' = "consumed_sync" /\ at' = at
         \/ pc \in {"consumed_sync", "truncate_sync"} /\ pc' = "restore" /\ at' = at - 1
  BY DEF RestoredSync, ConsumedSync, TruncateSync, Goto, GotoAt, IInv, Located, InvRestoring
<1>2. Calm /\ live' = live
  BY CalmSync DEF RestoredSync, ConsumedSync, TruncateSync, IInv, TypeOK
<1>3. disk'[Target(at)] = {"old"}
  <2>1. CASE pc \in Returned
    <3>1. Sync(InParent(at))
      BY <2>1 DEF RestoredSync, ConsumedSync, TruncateSync
    <3> QED BY <1>1, <2>1, <3>1, SyncEffect DEF IInv, TypeOK, InvRestoring
  <2>2. CASE pc = "consumed_sync"
    BY <1>1, <1>2, <2>2 DEF Calm, Settles, Content, IInv, InvRestoring
  <2> QED BY <1>1, <2>1, <2>2
<1>4. /\ journalOnDisk' = {mem} /\ mem.phase = "RollingBack" /\ mem \in Journal
      /\ \A o \in Output : /\ Kind[o] = "new" => disk'[Target(o)] = {"absent"}
                           /\ o > at => disk'[Target(o)] = {Original(o)}
      /\ JournalProof' /\ Undecided'
      /\ live'[Transaction] = "absent" => journal'.phase = "None"
  BY <1>1, <1>2, RestoringCalm
<1>5. TypeOK' /\ Located' /\ Enclosed'
  BY <1>1, <1>2, <1>4, VolumeAssumption DEF Calm, IInv, TypeOK, Located, Enclosed, Output, Journal
<1>6. \A o \in Output : o > at' => disk'[Target(o)] = {Original(o)}
  BY <1>1, <1>3, <1>4, VolumeAssumption DEF Original, Output
<1>7. InvRestoring'
  BY <1>1, <1>3, <1>4, <1>6 DEF InvRestoring, NewRemovedAbove, OldAbove
<1> QED
  BY <1>1, <1>4, <1>5, <1>7 DEF IInv, InvPreparing, InvWriting, InvStaging,
     InvReplacing, InvFinishing, InvRemoving

\* An original that needs no restoring is made durable all the same.
LEMMA KeepOriginalStep == IInv /\ KeepOriginal => IInv'
<1> SUFFICES ASSUME IInv, KeepOriginal PROVE IInv'
  OBVIOUS
<1>1. PICK x \in Output :
        /\ NextDown(x, Replaced) /\ Kind[x] = "replace" /\ live[Target(x)] = "old"
        /\ SyncTransaction(InParent(x) \cup Backups) /\ at' = x - 1
        /\ pc = "restore" /\ pc' = "restore" /\ mem' = mem /\ recovering' = recovering
  BY DEF KeepOriginal, GotoAt
<1>2. Calm /\ live' = live
  BY <1>1, CalmSync DEF IInv, TypeOK
<1>3. disk'[Target(x)] = {Original(x)}
  BY <1>1, NamesExist DEF SyncTransaction, Flushed, InParent, Original
<1>4. /\ journalOnDisk' = {mem} /\ mem.phase = "RollingBack" /\ mem \in Journal
      /\ \A o \in Output : Kind[o] = "new" => disk'[Target(o)] = {"absent"}
      /\ JournalProof' /\ Undecided'
      /\ live'[Transaction] = "absent" => journal'.phase = "None"
  BY <1>1, <1>2, RestoringCalm
<1>5. \A o \in Output : o > at' => disk'[Target(o)] = {Original(o)}
  <2>1. \A o \in Output : o > x => disk[Target(o)] = {Original(o)}
    BY <1>1, PassedOver, VolumeAssumption DEF NextDown, Output
  <2> QED BY <1>1, <1>2, <1>3, <2>1, SettlesTargets, VolumeAssumption DEF Calm, Output
<1>6. TypeOK' /\ Located' /\ Enclosed'
  <2>1. at' \in 0..(Outputs + Deletions + 1) /\ at' <= mem'.installed
    BY <1>1, <1>4, VolumeAssumption DEF NextDown, Output, IInv, TypeOK, Located, Journal
  <2> QED BY <1>1, <1>2, <1>4, <2>1 DEF Calm, IInv, TypeOK, Located, Enclosed
<1>7. InvRestoring'
  BY <1>1, <1>4, <1>5 DEF InvRestoring, NewRemovedAbove, OldAbove
<1> QED
  BY <1>1, <1>4, <1>6, <1>7 DEF IInv, InvPreparing, InvWriting, InvStaging,
     InvReplacing, InvFinishing, InvRemoving

\* The terminal journal is recorded once every original is durable.
LEMMA RestoredStep == IInv /\ Restored => IInv'
<1> SUFFICES ASSUME IInv, Restored PROVE IInv'
  OBVIOUS
<1>1. Calm
  BY CalmUnchanged DEF Restored, IInv, TypeOK
<1>2. /\ mem' \in Journal /\ mem'.phase = "RolledBack"
      /\ pc' = "journal_create" /\ at' = at /\ recovering' = recovering /\ pc = "restore"
  BY RecordEffect DEF Restored, Phase, IInv, TypeOK, Journal
<1>3. OldOnDisk'
  <2>1. \A o \in Output : o > 0 => disk[Target(o)] = {Original(o)}
    BY <1>2, PassedOver DEF Restored, NoneDown
  <2> QED BY <1>1, <2>1, SettlesTargets, VolumeAssumption DEF Calm, OldOnDisk, Output
<1>4. Ready'
  BY <1>2, <1>3 DEF Ready, Working, NewThrough, OldAbove, NewRemovedAbove
<1> QED BY <1>1, <1>2, <1>4, RecordStep DEF IInv, TypeOK

\* A loss of power leaves one of the journals, and of every target one of the
\* contents, that were on the disk.
LEMMA LosePowerEffect ==
  ASSUME VolumeTypeOK, LosePower
  PROVE  /\ VolumeTypeOK' /\ Settles
         /\ journal' \in journalOnDisk /\ journalOnDisk' = {journal'}
         /\ live'[Transaction] = "absent" => journal' = NoJournal
<1>1. PICK found \in journalOnDisk, part \in [Unsynced -> UNION {disk[n] : n \in Unsynced}] :
        /\ \A n \in Unsynced : part[n] \in disk[n]
        /\ live' = [n \in Name |-> IF n \in Unsynced THEN part[n] ELSE live[n]]
        /\ DirectoriesHold(live', found)
        /\ disk' = [n \in Name |-> {live'[n]}]
        /\ journal' = found /\ journalOnDisk' = {found}
  BY DEF LosePower
<1>2. \A n \in Name : live'[n] \in disk[n] /\ live'[n] \in Content
  BY <1>1 DEF VolumeTypeOK
<1>3. \A n \in Name : disk'[n] = {live'[n]}
  BY <1>1
<1>4. live' \in [Name -> Content] /\ disk' \in [Name -> SUBSET Content]
  BY <1>1, <1>2
<1>5. VolumeTypeOK'
  BY <1>1, <1>3, <1>4 DEF VolumeTypeOK
<1>6. Settles
  BY <1>2, <1>3, NamesExist DEF Settles
<1> QED BY <1>1, <1>5, <1>6 DEF DirectoriesHold

\* A loss of power keeps the invariant.
LEMMA PowerLossStep == IInv /\ LosePower /\ Stopped => IInv'
<1> SUFFICES ASSUME IInv, LosePower, Stopped PROVE IInv'
  OBVIOUS
<1>1. /\ VolumeTypeOK' /\ Settles
      /\ journal' \in journalOnDisk /\ journalOnDisk' = {journal'}
      /\ live'[Transaction] = "absent" => journal'.phase = "None"
  BY LosePowerEffect DEF IInv, TypeOK, NoJournal
<1>2. NoJournal \in Journal
  BY VolumeAssumption DEF NoJournal, Journal, Phase
<1>3. TypeOK'
  <2>1. recovering' \in BOOLEAN
    BY DEF Stopped
  <2>2. at' \in 0..(Outputs + Deletions + 1) /\ mem' \in Journal
    BY <1>2, VolumeAssumption DEF Stopped
  <2> QED BY <1>1, <2>1, <2>2 DEF TypeOK
<1>4. JournalProof'
  <2>1. journal' \in Journal /\ Proves(journal')
    BY <1>1 DEF IInv, TypeOK, VolumeTypeOK, JournalProof
  <2>2. \A j \in Journal : Proves(j) => Proves(j)'
    BY <1>1, SettlesKeeps
  <2> QED BY <1>1, <2>1, <2>2 DEF JournalProof
<1>5. Undecided' /\ Located' /\ Enclosed'
  BY <1>1 DEF Undecided, AllWorking, Located, Enclosed, Stopped
<1> QED
  BY <1>3, <1>4, <1>5 DEF Stopped, IInv, InvPreparing, InvWriting, InvStaging, InvReplacing,
     InvFinishing, InvRemoving, InvRestoring

\* Failed calls and killed processes keep the invariant.
LEMMA FailureStep == IInv /\ (Stop \/ FailInstall \/ FailNewFile) => IInv'
<1> SUFFICES ASSUME IInv, Stop \/ FailInstall \/ FailNewFile PROVE IInv'
  OBVIOUS
<1>1. CASE Stop
  <2>1. Calm
    BY <1>1, CalmUnchanged DEF Stop, IInv, TypeOK
  <2> QED BY <1>1, <2>1, IdleStep DEF Stop, Stopped
<1>2. CASE FailInstall
  <2>1. Calm
    BY <1>2, CalmUnchanged DEF FailInstall, IInv, TypeOK
  <2> QED BY <1>2, <2>1, RecoverCalls DEF FailInstall
<1>3. CASE FailNewFile
  <2> DEFINE c == mem.installed
  <2>1. c \in Output /\ Current = c
    BY <1>3 DEF FailNewFile, IInv, InvReplacing, Current
  <2>2. /\ live' = [live EXCEPT ![Temporary(c)] = "absent"]
        /\ disk' = [disk EXCEPT ![Temporary(c)] = {"absent"},
                                ![Target(c)] = {live[Target(c)]}]
        /\ journal' = journal /\ journalOnDisk' = journalOnDisk
    BY <1>3, <2>1 DEF FailNewFile
  <2>3. VolumeTypeOK'
    BY <2>1, <2>2, NamesExist, TargetsDistinct DEF IInv, TypeOK, VolumeTypeOK, Content
  <2>4. \A o \in Output : /\ live'[Target(o)] = live[Target(o)]
                          /\ disk'[Target(o)] \in {disk[Target(o)], {live[Target(o)]}}
                          /\ live[Target(o)] \in disk[Target(o)]
    BY <2>1, <2>2, NamesExist, TargetsDistinct DEF IInv, TypeOK, VolumeTypeOK
  <2>5. live'[Transaction] = live[Transaction]
    BY <2>1, <2>2, NamesExist, PlainNamesExist, TransactionDistinct DEF IInv, TypeOK, VolumeTypeOK
  <2>6. Calm
    BY <2>2, <2>3, <2>4, <2>5 DEF Calm, Settles
  <2> QED BY <1>3, <2>6, RecoverCalls DEF FailNewFile
<1> QED BY <1>1, <1>2, <1>3

-----------------------------------------------------------------------------
(* The invariant.                                                           *)

\* The invariant holds of a volume nobody has touched.
LEMMA InitInvariant == Init => IInv
<1> SUFFICES ASSUME Init PROVE IInv
  OBVIOUS
<1>1. NoJournal \in Journal /\ NoJournal.phase = "None"
  BY VolumeAssumption DEF NoJournal, Journal, Phase
<1>2. VolumeTypeOK
  BY <1>1 DEF Init, VolumeInit, VolumeTypeOK, Content
<1>3. TypeOK
  <2>1. recovering \in BOOLEAN
    BY DEF Init
  <2>2. at \in 0..(Outputs + Deletions + 1) /\ mem \in Journal
    BY <1>1, VolumeAssumption DEF Init
  <2> QED BY <1>2, <2>1, <2>2 DEF TypeOK
<1>4. OldOnDisk
  <2>1. ASSUME NEW o \in Output PROVE live[Target(o)] = Original(o)
    <3>1. Target(o) \in Name /\ Target(o) \notin Medias
      BY NamesExist, TargetsDistinct DEF Medias
    <3>2. (\E p \in Output : Target(o) = Target(p) /\ Kind[p] # "new") <=> Kind[o] # "new"
      BY TargetsDistinct
    <3> QED BY <3>1, <3>2 DEF Init, VolumeInit, Original
  <2> QED BY <2>1, NamesExist DEF Init, VolumeInit, OldOnDisk
<1>5. JournalProof
  BY <1>1, <1>4 DEF Init, VolumeInit, JournalProof, Proves, Working
<1>6. Undecided /\ Located /\ Enclosed
  BY <1>1 DEF Init, VolumeInit, Undecided, Working, Located, Enclosed
<1> QED
  BY <1>3, <1>5, <1>6 DEF Init, IInv, InvPreparing, InvWriting, InvStaging, InvReplacing,
     InvFinishing, InvRemoving, InvRestoring

\* Stuttering changes nothing the invariant mentions.
LEMMA StutterStep == IInv /\ UNCHANGED vars => IInv'
BY DEF vars, volume, process, IInv, TypeOK, VolumeTypeOK, Located, JournalProof, Proves, OldOnDisk,
   NewOnDisk, Enclosed, Undecided, AllWorking, InvPreparing, InvWriting, Ready, OldAbove,
   NewThrough, NewRemovedAbove, InvStaging, InvReplacing, InvFinishing, InvRemoving, Terminal,
   InvRestoring

\* Every step keeps the invariant.
LEMMA NextInvariant == IInv /\ [Next]_vars => IInv'
<1> SUFFICES ASSUME IInv, [Next]_vars PROVE IInv'
  OBVIOUS
<1>1. CASE Call
  BY <1>1, BeginStep, EnterStep DEF Call
<1>2. CASE Work
  <2>1. CASE InstallOutput
    BY <2>1, StagingStep, ReplacingStep, PublishSyncStep DEF InstallOutput
  <2>2. CASE RecoveryStep
    <3>1. CASE RollBack
      BY <3>1, RemoveNewStep, RemoveNewSyncStep, RollbackIntentStep, ReturnStep,
         ReturnSyncStep, KeepOriginalStep, RestoredStep DEF RollBack
    <3> QED BY <2>2, <3>1, EnterStep, CleanStep DEF RecoveryStep
  <2> QED BY <1>2, <2>1, <2>2, PrepareStep, WriteJournalStep, FinishStep, CleanupStep DEF Work
<1>3. CASE PowerLoss
  BY <1>3, PowerLossStep DEF PowerLoss
<1>4. CASE Stop \/ FailInstall \/ FailNewFile
  BY <1>4, FailureStep
<1>5. CASE UNCHANGED vars
  BY <1>5, StutterStep
<1> QED BY <1>1, <1>2, <1>3, <1>4, <1>5 DEF Next

\* The invariant holds throughout every behaviour.
THEOREM Invariance == Spec => []IInv
BY InitInvariant, NextInvariant, PTL DEF Spec

\* Every variable has its type: TransactionJournal counts at most the outputs
\* of the manifest, and no loop leaves its bounds.
THEOREM TypeCorrect == Spec => []TypeOK
<1>1. IInv => TypeOK
  BY DEF IInv
<1> QED BY <1>1, Invariance, PTL

\* Whatever journal a loss of power leaves, it tells the truth about whatever
\* it leaves of the targets (write_journal, install_inner, recovery).
THEOREM JournalTellsTruth == Spec => []JournalProof
<1>1. IInv => JournalProof
  BY DEF IInv
<1> QED BY <1>1, Invariance, PTL

\* A device without a transaction directory, which Device::open accepts, holds
\* one whole generation, after any failures and losses of power.
THEOREM OpenDeviceIsWhole == Spec => []Atomic
<1>1. ASSUME IInv PROVE Atomic
  <2> SUFFICES ASSUME live[Transaction] = "absent" PROVE AllOld \/ AllNew
    BY DEF Atomic
  <2>1. OldOnDisk \/ NewOnDisk
    BY <1>1 DEF IInv, TypeOK, VolumeTypeOK, Enclosed, JournalProof, Proves
  <2>2. \A o \in Output : live[Target(o)] \in disk[Target(o)]
    BY <1>1, NamesExist DEF IInv, TypeOK, VolumeTypeOK
  <2> QED BY <2>1, <2>2 DEF OldOnDisk, NewOnDisk, AllOld, AllNew
<1> QED BY <1>1, Invariance, PTL
=============================================================================
