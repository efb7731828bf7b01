------------------------------- MODULE Volume -------------------------------
(***************************************************************************)
(* The mounted iPod volume as the transaction code of libopod sees it: the *)
(* names an installation touches, what each holds now, and what each may   *)
(* hold after a loss of power.                                             *)
(*                                                                         *)
(* live[n] is what a process reads under the name n.  disk[n] is the set   *)
(* of contents the name may have after a power loss: everything written    *)
(* since the last sync of its directory, and what that sync made durable.  *)
(* The journal file is kept apart (journal, journalOnDisk) since what it   *)
(* holds is a record.                                                      *)
(*                                                                         *)
(* Every target has a parent directory of its own, so that syncing one     *)
(* never helps another: real targets share some.                           *)
(***************************************************************************)
EXTENDS Integers

CONSTANTS
  Outputs,      \* how many files the staging manifest installs
  Kind,         \* how each is installed: "new", "replace" or "append"
  Deletions,    \* how many media files the manifest deletes
  TornAppends   \* may a power loss leave unwritten clusters in a grown file?

ASSUME VolumeAssumption ==
  /\ Outputs \in Nat \ {0}
  /\ Deletions \in Nat
  /\ Kind \in [1..Outputs -> {"new", "replace", "append"}]
  /\ TornAppends \in BOOLEAN

VARIABLES live, disk, journal, journalOnDisk

volume == <<live, disk, journal, journalOnDisk>>

Output == 1..Outputs
Deletion == 1..Deletions

Target(o) == <<"target", o>>          \* the live file of the library
Temporary(o) == <<"temporary", o>>    \* .<name>.libopod-<index>.tmp beside it
Backup(o) == <<"backup", o>>          \* backup/<staged> in the transaction
Spool(o) == <<"spool", o>>            \* append-<index>.bin in the transaction
Media(d) == <<"media", d>>            \* a media file to delete
Transaction == <<"transaction", 0>>   \* .libopod-transaction-v1
BackupDirectory == <<"backups", 0>>   \* backup/ in the transaction
JournalTemporary == <<"journal.tmp", 0>>
Reserve == <<"reserve", 0>>           \* rollback-reserve in the transaction

InParent(o) == {Target(o), Temporary(o)}
Backups == {Backup(o) : o \in Output}
Entries == {BackupDirectory, JournalTemporary, Reserve}
             \cup {Spool(o) : o \in Output}
Medias == {Media(d) : d \in Deletion}

Name == {Target(o) : o \in Output} \cup {Temporary(o) : o \in Output}
          \cup Backups \cup Entries \cup Medias \cup {Transaction}

(***************************************************************************)
(* File contents, as the fingerprints of the manifest tell them apart:     *)
(* "old" is the original generation, "new" the staged output (of a spool:  *)
(* the complete suffix), "partial" an incomplete copy or append, "torn" a  *)
(* grown file whose tail is not the suffix; "present" is a directory or a  *)
(* file whose bytes nobody compares.                                       *)
(***************************************************************************)
Content == {"absent", "present", "old", "new", "partial", "torn"}

Phase == {"None", "BackingUp", "Installing", "Validating", "Committed",
          "RollingBack", "RolledBack"}
Journal == [phase : Phase, installed : 0..Outputs]
NoJournal == [phase |-> "None", installed |-> 0]   \* no journal.json

Original(o) == IF Kind[o] = "new" THEN "absent" ELSE "old"

AllOld == \A o \in Output : live[Target(o)] = Original(o)
AllNew == \A o \in Output : live[Target(o)] = "new"

VolumeTypeOK ==
  /\ live \in [Name -> Content]
  /\ disk \in [Name -> SUBSET Content]
  /\ journal \in Journal
  /\ journalOnDisk \in SUBSET Journal
  /\ \A n \in Name : live[n] \in disk[n]
  /\ journal \in journalOnDisk

VolumeInit ==
  /\ live = [n \in Name |->
               IF \E o \in Output : n = Target(o) /\ Kind[o] # "new" THEN "old"
               ELSE IF n \in Medias THEN "present" ELSE "absent"]
  /\ disk = [n \in Name |-> {live[n]}]
  /\ journal = NoJournal
  /\ journalOnDisk = {NoJournal}

-----------------------------------------------------------------------------
(***************************************************************************)
(* The file system calls.                                                  *)
(***************************************************************************)

\* Unsynced appended bytes may come back as clusters never written.
Reaches(n, content) ==
  {content} \cup IF /\ TornAppends /\ content # "old"
                   /\ \E o \in Output : n = Target(o) /\ Kind[o] = "append"
                THEN {"torn"} ELSE {}

Write(n, content) ==
  /\ live' = [live EXCEPT ![n] = content]
  /\ disk' = [disk EXCEPT ![n] = @ \cup Reaches(n, content)]
  /\ UNCHANGED <<journal, journalOnDisk>>

Remove(names) ==
  /\ live' = [n \in Name |-> IF n \in names THEN "absent" ELSE live[n]]
  /\ disk' = [n \in Name |->
                IF n \in names THEN disk[n] \cup {"absent"} ELSE disk[n]]
  /\ UNCHANGED <<journal, journalOnDisk>>

Rename(from, to) ==
  /\ live' = [live EXCEPT ![to] = live[from], ![from] = "absent"]
  /\ disk' = [disk EXCEPT ![to] = @ \cup {live[from]}, ![from] = @ \cup {"absent"}]
  /\ UNCHANGED <<journal, journalOnDisk>>

\* fs::rename(journal.tmp, journal.json)
PublishJournal(content) ==
  /\ journal' = content
  /\ journalOnDisk' = journalOnDisk \cup {content}
  /\ live' = [live EXCEPT ![JournalTemporary] = "absent"]
  /\ disk' = [disk EXCEPT ![JournalTemporary] = @ \cup {"absent"}]

RemoveJournal ==
  /\ journal' = NoJournal
  /\ journalOnDisk' = journalOnDisk \cup {NoJournal}
  /\ UNCHANGED <<live, disk>>

Flushed(names) ==
  [n \in Name |-> IF n \in names THEN {live[n]} ELSE disk[n]]

\* sync_directory on a directory outside the transaction, or on backup/, after
\* the fsync of the files in it
Sync(names) ==
  /\ disk' = Flushed(names)
  /\ UNCHANGED <<live, journal, journalOnDisk>>

\* sync_directory on the transaction directory.  A backup/ that is durably gone
\* takes what it may have held with it.
SyncTransaction(others) ==
  /\ disk' = Flushed(others \cup Entries \cup
                     (IF live[BackupDirectory] = "absent" THEN Backups ELSE {}))
  /\ journalOnDisk' = {journal}
  /\ UNCHANGED <<live, journal>>

\* sync_directory on the parent of the transaction directory, which is empty or
\* gone whenever this is called
SyncDevice ==
  /\ disk' = Flushed({Transaction} \cup Entries \cup Backups)
  /\ journalOnDisk' = {journal}
  /\ UNCHANGED <<live, journal>>

-----------------------------------------------------------------------------
(***************************************************************************)
(* Loss of power.  Each name comes back with any of the contents that may  *)
(* have reached the disk, except that                                      *)
(*   - what is in a lost directory is lost, and                            *)
(*   - a renamed file is not lost while the removal of its old name is     *)
(*     unsynced: the file system writes the new name first.  Once the      *)
(*     directory of the old name is synced only a sync of the other        *)
(*     directory protects the file.                                        *)
(***************************************************************************)
MovedAway(o) == \E n \in {Target(o), Backup(o)} : "old" \in disk[n] /\ live[n] # "old"

RenameOrdered(found) ==
  \A o \in Output : Kind[o] = "replace" /\ MovedAway(o) =>
     "old" \in {found[Target(o)], found[Backup(o)]}

DirectoriesHold(found, foundJournal) ==
  /\ found[Transaction] = "absent" =>
       /\ \A n \in Entries : found[n] = "absent"
       /\ foundJournal = NoJournal
  /\ found[BackupDirectory] = "absent" => \A n \in Backups : found[n] = "absent"

Unsynced == {n \in Name : disk[n] # {live[n]}}

LosePower ==
  \E foundJournal \in journalOnDisk, part \in [Unsynced -> UNION {disk[n] : n \in Unsynced}] :
    /\ \A n \in Unsynced : part[n] \in disk[n]
    /\ live' = [n \in Name |-> IF n \in Unsynced THEN part[n] ELSE live[n]]
    /\ RenameOrdered(live')
    /\ DirectoriesHold(live', foundJournal)
    /\ disk' = [n \in Name |-> {live'[n]}]
    /\ journal' = foundJournal
    /\ journalOnDisk' = {foundJournal}
=============================================================================
