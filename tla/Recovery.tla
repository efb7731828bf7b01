------------------------------ MODULE Recovery ------------------------------
(***************************************************************************)
(* Recovery of an interrupted transaction: recover_with_failure_mode,      *)
(* cleanup_interrupted_temporaries and validate_recovery_state of          *)
(* edit/commit.rs, with rename::restore_backup, rename::finish_restored_-  *)
(* sync, append::rollback and the validations of the two strategies.       *)
(* Journals of versions 2 and 3, which this installer no longer writes,    *)
(* are not modelled.                                                       *)
(***************************************************************************)
EXTENDS Installation

-----------------------------------------------------------------------------
(* validate_recovery_state: which interrupted states recovery acts on.      *)

Attempted(o) == o <= journal.installed

\* As if the output in flight were the one after the last recorded.
InFlightOffByOne(o) == journal.phase = "Installing" /\ o = journal.installed + 1

InFlight(o) == journal.phase = "Installing" /\ o = journal.installed

\* rename::validate_replacement
ValidReplacement(o) ==
  LET found == live[Target(o)]
      rollback == journal.phase = "RollingBack"
  IN CASE journal.phase = "Committed" -> found = "new"
       [] journal.phase = "RolledBack" -> found = "old"
       [] OTHER ->
            \/ ~Attempted(o) /\ live[Backup(o)] = "absent" /\ found = "old"
            \/ /\ Attempted(o) /\ live[Backup(o)] = "old"
               /\ \/ found \in {"old", "new"}
                  \/ found = "absent" /\ (rollback \/ InFlight(o))
            \/ /\ Attempted(o) /\ live[Backup(o)] = "absent"
               /\ found = "old" /\ (rollback \/ InFlight(o))

\* append::validate
ValidAppend(o) ==
  LET found == live[Target(o)]
  IN CASE journal.phase = "Committed" -> found = "new"
       [] journal.phase = "RolledBack" -> found = "old"
       [] OTHER ->
            /\ live[Backup(o)] = "absent"
            /\ \/ ~Attempted(o) /\ found = "old"
               \/ /\ Attempted(o) /\ live[Spool(o)] = "new"
                  /\ \/ found = "new"
                     \/ /\ found \in {"old", "partial"}
                        /\ journal.phase = "RollingBack" \/ InFlight(o)

\* the new-output arm of validate_recovery_state
ValidNew(o) ==
  LET found == live[Target(o)]
  IN /\ found # "absent" => /\ journal.phase # "RolledBack"
                            /\ Attempted(o) /\ found = "new"
     /\ journal.phase = "Committed" => found = "new"

ValidCount ==
  /\ journal.phase = "BackingUp" => journal.installed = 0
  /\ journal.phase \in {"Validating", "Committed"} => journal.installed = Outputs

ValidState ==
  /\ ValidCount
  /\ \A o \in Output : CASE Kind[o] = "new" -> ValidNew(o)
                         [] Kind[o] = "append" -> ValidAppend(o)
                         [] OTHER -> ValidReplacement(o)

\* rename::remove_empty_scaffold: no journal, and nothing worth keeping
Scaffold ==
  /\ journal.phase = "None"
  /\ \A n \in Entries \ {JournalTemporary, BackupDirectory} : live[n] = "absent"
  /\ \A n \in Backups : live[n] = "absent"

-----------------------------------------------------------------------------
\* A later run of the tool: Device::open has refused the volume.
Recover ==
  /\ pc = "idle"
  /\ live[Transaction] = "present"
  /\ pc' = "recover" /\ recovering' = TRUE
  /\ UNCHANGED <<volume, mem, at>>

RecoverNothing ==
  /\ pc = "recover"
  /\ live[Transaction] = "absent"
  /\ pc' = "idle" /\ mem' = NoJournal /\ at' = 0 /\ recovering' = FALSE
  /\ UNCHANGED volume

RecoverScaffold ==
  /\ pc = "recover"
  /\ live[Transaction] = "present" /\ Scaffold
  /\ Remove({JournalTemporary, BackupDirectory})
  /\ Goto("remove_directory")

Accepts == journal.phase # "None" /\ ValidState

RecoverAccepted ==
  /\ pc = "recover"
  /\ live[Transaction] = "present" /\ Accepts
  /\ mem' = journal /\ pc' = "clean"
  /\ UNCHANGED <<volume, at, recovering>>

\* Nothing is changed when the state does not verify.
Refuse ==
  /\ pc = "recover"
  /\ live[Transaction] = "present" /\ ~Scaffold /\ ~Accepts
  /\ pc' = "idle" /\ mem' = NoJournal /\ at' = 0 /\ recovering' = FALSE
  /\ UNCHANGED volume

-----------------------------------------------------------------------------
(* cleanup_interrupted_temporaries and append::release_recovery_space       *)

\* As if the output in flight could not have left a temporary.
TemporariesFinished == {Temporary(o) : o \in 1..(mem.installed - 1)}

Temporaries == {Temporary(o) : o \in Output}
Appends == \E o \in Output : Kind[o] = "append"

\* As if the spool of the append in flight were expendable too.
ExpendableInFlight ==
  {Reserve} \cup {Spool(o) : o \in {p \in Output : p >= mem.installed}}

\* what append::release_recovery_space discards: never the spool of an
\* attempted append, the only proof of what may be truncated
Expendable ==
  {Reserve} \cup {Spool(o) : o \in {p \in Output : p > mem.installed}}

Present(names) == {n \in names : live[n] # "absent"}
Parents == UNION {InParent(o) : o \in Output}

\* As if a committed journal were rolled back.
TerminalRolledBackOnly == mem.phase = "RolledBack"

Terminal == mem.phase \in {"Committed", "RolledBack"}
Cleaned == IF Terminal THEN Goto("cleanup") ELSE GotoAt("remove_new", mem.installed)

CleanTemporary ==
  /\ pc = "clean"
  /\ \E n \in Present(Temporaries) : Remove({n})
  /\ UNCHANGED process

\* The transaction directory is synced only if something in it is removed or
\* the journal plans an append.
CleanJournal ==
  /\ pc = "clean"
  /\ Present(Temporaries) = {}
  /\ live[JournalTemporary] = "present" \/ Appends
  /\ Remove({JournalTemporary})
  /\ Goto("release")

Release ==
  /\ pc = "release"
  /\ \E n \in Present(Expendable) : Remove({n})
  /\ UNCHANGED process

ReleaseSync ==
  /\ pc = "release"
  /\ Present(Expendable) = {}
  /\ SyncTransaction(Parents)
  /\ Cleaned

\* The flush is repeated even if there was nothing to remove this time.
ParentsSync ==
  /\ pc = "clean"
  /\ Present(Temporaries) = {}
  /\ live[JournalTemporary] = "absent" /\ ~Appends
  /\ Sync(Parents)
  /\ Cleaned

Clean == CleanTemporary \/ CleanJournal \/ Release \/ ReleaseSync \/ ParentsSync

-----------------------------------------------------------------------------
(* Rolling back, in reverse order: new files, then the durable rollback     *)
(* intent, then the replaced and grown files.                               *)

\* o is the next output of these kinds at or below position at.
NextDown(o, kinds) ==
  /\ o \in 1..at /\ Kind[o] \in kinds
  /\ \A p \in (o + 1)..at : Kind[p] \notin kinds
NoneDown(kinds) == \A o \in 1..at : Kind[o] \notin kinds

RemoveNew ==
  /\ pc = "remove_new"
  /\ \E o \in Output : /\ NextDown(o, {"new"})
                       /\ live[Target(o)] \in {"new", "absent"}
                       /\ Remove({Target(o)})
                       /\ GotoAt("remove_new_sync", o)

\* As if the reverse loop counted down twice.
RemoveNewSyncTwice ==
  /\ pc = "remove_new_sync"
  /\ Sync(InParent(at))
  /\ GotoAt("remove_new", at - 2)

RemoveNewSync ==
  /\ pc = "remove_new_sync"
  /\ Sync(InParent(at))
  /\ GotoAt("remove_new", at - 1)

\* As if originals were restored under the journal of the installation.
RollbackIntentUnrecorded ==
  /\ pc = "remove_new"
  /\ NoneDown({"new"})
  /\ GotoAt("restore", mem.installed)
  /\ UNCHANGED volume

\* An intent an earlier recovery published may not be durable: its sync is
\* repeated before any original is consumed.
RollbackIntent ==
  /\ pc = "remove_new"
  /\ NoneDown({"new"})
  /\ IF mem.phase = "RollingBack"
     THEN pc' = "journal_sync" /\ UNCHANGED mem
     ELSE Record("RollingBack", mem.installed)
  /\ at' = mem.installed
  /\ UNCHANGED <<volume, recovering>>

Replaced == {"replace", "append"}

\* rename::restore_backup
RestoreBackup ==
  /\ pc = "restore"
  /\ \E o \in Output : /\ NextDown(o, Replaced) /\ Kind[o] = "replace"
                       /\ live[Backup(o)] = "old"
                       /\ Rename(Backup(o), Target(o))
                       /\ GotoAt("restored_sync", o)

RestoredSync ==
  /\ pc = "restored_sync"
  /\ Sync(InParent(at))
  /\ Goto("consumed_sync")

ConsumedSync ==
  /\ pc = "consumed_sync"
  /\ Sync(Backups)
  /\ GotoAt("restore", at - 1)

\* rename::finish_restored_sync: no backup, so the live original must verify,
\* and what an earlier recovery renamed may not be durable yet.
KeepOriginal ==
  /\ pc = "restore"
  /\ \E o \in Output : /\ NextDown(o, Replaced) /\ Kind[o] = "replace"
                       /\ live[Backup(o)] = "absent"
                       /\ live[Target(o)] = "old"
                       /\ SyncTransaction(InParent(o) \cup Backups)
                       /\ GotoAt("restore", o - 1)

\* append::rollback
Truncate ==
  /\ pc = "restore"
  /\ \E o \in Output : /\ NextDown(o, Replaced) /\ Kind[o] = "append"
                       /\ Write(Target(o), "old")
                       /\ GotoAt("truncate_sync", o)

\* As if the truncated file were not flushed.
TruncateSyncForgotten ==
  /\ pc = "truncate_sync"
  /\ GotoAt("restore", at - 1)
  /\ UNCHANGED volume

TruncateSync ==
  /\ pc = "truncate_sync"
  /\ Sync(InParent(at))
  /\ GotoAt("restore", at - 1)

\* The terminal journal is written once every output is back.
Restored ==
  /\ pc = "restore"
  /\ NoneDown(Replaced)
  /\ AllOld
  /\ Record("RolledBack", mem.installed)
  /\ UNCHANGED <<volume, at, recovering>>

RollBack ==
  \/ RemoveNew \/ RemoveNewSync \/ RollbackIntent
  \/ RestoreBackup \/ RestoredSync \/ ConsumedSync
  \/ KeepOriginal \/ Truncate \/ TruncateSync \/ Restored

RecoveryStep ==
  \/ RecoverNothing \/ RecoverScaffold \/ RecoverAccepted \/ Refuse
  \/ Clean \/ RollBack
=============================================================================
