------------------------- MODULE RestorableInvariant -------------------------
(***************************************************************************)
(* The inductive invariant behind Recoverable and OriginalKept: whatever   *)
(* stops a transaction, recovery finds the files its journal asks for.     *)
(* Losses of power and killed processes are taken apart (Steady), since    *)
(* together they defeat it (run lost_original).                            *)
(***************************************************************************)
EXTENDS DirectoryInvariant

\* Transactions are stopped by losses of power or by failures, not by both.
Steady == MaxFailures = 0 \/ MaxPowerLosses = 0

-----------------------------------------------------------------------------
(* What recovery may find.                                                  *)

\* A loss of power leaves what may be on the disk, a killed process what was
\* there to read.
Found(n) == IF MaxFailures = 0 THEN disk[n] ELSE {live[n]}

\* Without appends recovery does not flush the journal of a killed process, so
\* all that can be said is said of that journal.
FoundJournals == IF Resyncs THEN journalOnDisk ELSE {journal}

\* A grown file whose tail is not the suffix.
Tears == TornAppends /\ MaxFailures = 0

-----------------------------------------------------------------------------
(* What recovery needs of an output.                                        *)

\* Nothing was moved into the backup.
Untouched(o) == Found(Backup(o)) = {"absent"}

\* The output is installed, and what undoes it is kept.
Undoable(o) ==
  CASE Kind[o] = "replace" -> Found(Target(o)) = {"new"} /\ Found(Backup(o)) = {"old"}
    [] Kind[o] = "append" -> Found(Target(o)) = {"new"} /\ Found(Spool(o)) = {"new"}
    [] OTHER -> Found(Target(o)) \subseteq {"absent", "new"}

\* The rename of the original is not yet durable at either end.
InMotion(o) ==
  \/ pc = "preserve_sync" /\ o = mem.installed
  \/ pc = "restored_sync" /\ o = at

\* The original can be had back, whichever way the output was left.
Returnable(o) ==
  CASE Kind[o] = "replace" ->
         /\ Found(Target(o)) \subseteq {"absent", "old", "new"}
         /\ Found(Backup(o)) \subseteq {"absent", "old"}
         /\ "old" \in {live[Target(o)], live[Backup(o)]}
         /\ \/ Found(Target(o)) = {"old"} \/ Found(Backup(o)) = {"old"}
            \/ InMotion(o)
    [] Kind[o] = "append" ->
         /\ Found(Target(o)) \subseteq {"old", "partial", "new", "torn"}
         /\ "torn" \in Found(Target(o)) => Tears
         /\ Found(Spool(o)) = {"new"}
    [] OTHER -> Found(Target(o)) \subseteq {"absent", "new"}

\* A journal is backed by the files it sends recovery to.
Backed(j) ==
  /\ j.phase = "None" =>
       /\ \A n \in Entries \ {JournalTemporary, BackupDirectory} : Found(n) = {"absent"}
       /\ \A o \in Output : Untouched(o)
  /\ j.phase \in {"None", "BackingUp"} => j.installed = 0
  /\ j.phase = "BackingUp" => \A o \in Output : Untouched(o)
  /\ j.phase = "Installing" =>
       \A o \in Output : /\ o > j.installed => Untouched(o)
                         /\ o = j.installed => Returnable(o)
                         /\ o < j.installed => Undoable(o)
  /\ j.phase \in {"Validating", "Committed"} => j.installed = Outputs
  /\ j.phase = "Validating" => \A o \in Output : Undoable(o)
  /\ j.phase = "RollingBack" =>
       \A o \in Output : IF o > j.installed THEN Untouched(o) ELSE Returnable(o)

-----------------------------------------------------------------------------
(* The invariant.                                                           *)

Counted ==
  /\ failures \in Nat /\ failures <= MaxFailures
  /\ powerLosses \in Nat /\ powerLosses <= MaxPowerLosses

\* Every journal that may be found is backed, and so is the one about to be
\* published, which counts no fewer outputs.
InvBacked ==
  /\ \A j \in FoundJournals : Backed(j)
  /\ \A o \in Output : Kind[o] # "replace" => Untouched(o)
  /\ journal.phase # "None" => \A j \in FoundJournals : j.installed <= journal.installed
  /\ pc \in Writing =>
       Backed(mem) /\ \A j \in FoundJournals : j.installed <= mem.installed

\* No backup without the directory that holds it.
InvBackups ==
  /\ live[BackupDirectory] = "absent" => \A n \in Backups : live[n] = "absent"
  /\ NeedsBackups /\ (pc \in Staging \cup Replacing \/ (pc \in Writing /\ mem.phase = "Installing")) =>
       live[BackupDirectory] = "present"

\* Preparing and staging, no older journal is left.
InvPrepared ==
  /\ pc = "create_sync" => journal.phase = "None"
  /\ pc \in Preparing \ {"create_sync"} => journalOnDisk = {mem} /\ mem.phase = "BackingUp"
  /\ pc \in Staging =>
       /\ journalOnDisk = {mem} /\ mem.phase = "Installing"
       /\ \A o \in Output : o <= mem.installed => Undoable(o)
  /\ pc \in Spooling => Kind[mem.installed + 1] = "append"
  /\ pc = "spool_sync" => live[Spool(mem.installed + 1)] = "new"
  /\ pc = "intent" => Found(Spool(mem.installed + 1)) = {"new"}
  /\ pc = "delete" => \A o \in Output : Undoable(o)

\* The output in flight, call by call.
InvInFlight ==
  pc \in Replacing =>
    /\ pc \in {"temporary_fill", "publish", "publish_sync"} => Kind[mem.installed] # "append"
    /\ pc \in {"temporary_sync", "preserve", "preserve_sync", "removal_sync"} =>
         Kind[mem.installed] = "replace"
    /\ pc \in {"append_rest", "append_sync"} => Kind[mem.installed] = "append"
    /\ pc \in {"install", "temporary_fill", "temporary_sync", "preserve"} =>
         Found(Target(mem.installed)) = {Original(mem.installed)} \/ Kind[mem.installed] = "new"
    /\ pc = "preserve_sync" =>
         /\ live[Backup(mem.installed)] = "old"
         /\ live[Target(mem.installed)] # "old" /\ "old" \in disk[Target(mem.installed)]
    /\ pc \in {"removal_sync", "publish", "publish_sync"} /\ Kind[mem.installed] = "replace" =>
         Found(Backup(mem.installed)) = {"old"}

\* Rolling back.
InvRollback ==
  /\ pc \in {"restored_sync", "consumed_sync"} => Kind[at] = "replace"
  /\ pc = "restored_sync" =>
       live[Backup(at)] # "old" /\ "old" \in disk[Backup(at)]
  /\ pc = "truncate_sync" => Kind[at] = "append"

\* Cleaning up, nothing that is gone can come back, and no journal can ask for it.
InvCleanup ==
  /\ pc \in CleaningUp => \A j \in FoundJournals : j.phase \in {"Committed", "RolledBack"}
  /\ pc = "cleanup" =>
       /\ \A n \in Entries : Found(n) = {live[n]}
       /\ live[BackupDirectory] = "absent" => \A o \in Output : Untouched(o)
  /\ MaxFailures = 0 /\ pc \in {"idle", "recover", "clean"} =>
       \A n \in Entries \cup Backups : disk[n] = {live[n]}

InvRestorable ==
  /\ Counted /\ InvBacked /\ InvBackups /\ InvPrepared /\ InvInFlight
  /\ InvRollback /\ InvCleanup

\* All that strengthens IInv.
Strengthened ==
  /\ InvDirectory /\ InvTemporaries
  /\ Resyncs => InvSettled
  /\ Steady => InvRestorable
=============================================================================
