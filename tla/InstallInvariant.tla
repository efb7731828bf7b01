-------------------------- MODULE InstallInvariant --------------------------
(***************************************************************************)
(* The inductive invariant behind JournalProof and Atomic.  JournalProof   *)
(* alone is not inductive: a journal may be published because of what the  *)
(* process did before, so the invariant says, for every point of the code, *)
(* which targets are durable and which journals may still be on the disk.  *)
(***************************************************************************)
EXTENDS InstallTransaction

-----------------------------------------------------------------------------
(* What is durable.                                                         *)

OldAbove(k) == \A o \in Output : o > k => disk[Target(o)] = {Original(o)}
NewThrough(k) == \A o \in Output : o <= k => disk[Target(o)] = {"new"}
NewRemovedAbove(k) ==
  \A o \in Output : o > k /\ Kind[o] = "new" => disk[Target(o)] = {"absent"}

\* No journal on the disk lets recovery skip the rollback.
AllWorking == \A j \in journalOnDisk : j.phase \in Working

-----------------------------------------------------------------------------
(* The points of the code that share a part of the invariant.               *)

Preparing == {"create_sync", "reserve", "reserve_sync", "back_up", "back_up_sync"}
Writing == {"journal_create", "journal_rename", "journal_sync"}
Staging == {"stage", "spool_fill", "spool_sync", "intent"}
Spooling == {"spool_fill", "spool_sync", "intent"}
Filled == {"temporary_sync", "preserve", "preserve_sync", "removal_sync", "publish"}
Placed == {"publish_sync", "append_sync"}
Replacing == {"install", "temporary_fill", "append_rest"} \cup Filled \cup Placed
CleaningUp == {"cleanup", "cleanup_sync"}
Cleaning == {"clean", "release"}
Removing == {"remove_new", "remove_new_sync"}
Returned == {"restored_sync", "truncate_sync"}
Restoring == {"restore", "consumed_sync"} \cup Returned
Positioned == {"remove_new_sync", "consumed_sync"} \cup Returned

\* The code is somewhere, and a loop is where its bounds allow.
Located ==
  /\ pc \in {"idle", "recover", "delete", "validate", "remove_directory", "remove_sync"}
              \cup Preparing \cup Writing \cup Staging \cup Replacing
              \cup CleaningUp \cup Cleaning \cup Removing \cup Restoring
  /\ pc \in Spooling => mem.installed < Outputs
  /\ pc = "delete" => at \in 1..(Deletions + 1)
  /\ pc \in Removing \cup Restoring => at <= mem.installed
  /\ pc \in Positioned => at \in Output

\* The directory is there whenever the code works in it, and no journal
\* outlives it.
Enclosed ==
  /\ live[Transaction] = "absent" => journal.phase = "None"
  /\ pc \notin {"idle", "recover", "remove_sync"} => live[Transaction] # "absent"

\* Once an output is attempted, only journals that keep recovery going are left.
Undecided == journal.phase \in Working /\ journal.installed > 0 => AllWorking

\* The journal about to be published tells the truth.
Ready ==
  /\ mem.phase # "None"
  /\ mem.phase = "BackingUp" => mem.installed = 0
  /\ mem.phase \in {"BackingUp", "RolledBack"} => OldOnDisk
  /\ mem.phase = "Installing" =>
       NewThrough(mem.installed - 1) /\ OldAbove(mem.installed - 1)
  /\ mem.phase \in {"Validating", "Committed"} => NewOnDisk /\ mem.installed = Outputs
  /\ mem.phase = "RollingBack" =>
       at = mem.installed /\ NewRemovedAbove(0) /\ OldAbove(mem.installed)
  /\ mem.phase \in Working /\ mem.installed > 0 => AllWorking

InvPreparing == pc \in Preparing => OldOnDisk

InvWriting == pc \in Writing => Ready /\ (pc = "journal_sync" => journal = mem)

InvStaging ==
  pc \in Staging => AllWorking /\ NewThrough(mem.installed) /\ OldAbove(mem.installed)

InvReplacing ==
  pc \in Replacing =>
    /\ journalOnDisk = {mem}
    /\ mem.phase = "Installing" /\ mem.installed \in Output
    /\ NewThrough(mem.installed - 1) /\ OldAbove(mem.installed)
    /\ pc \in Filled => live[Temporary(mem.installed)] = "new"
    /\ pc \in Placed => live[Target(mem.installed)] = "new"

InvFinishing ==
  /\ pc = "delete" => AllWorking
  /\ pc \in {"delete", "validate"} => NewOnDisk
  /\ pc \in CleaningUp => OldOnDisk \/ NewOnDisk
  /\ pc \in {"remove_directory", "remove_sync"} => journal.phase = "None"

InvRemoving ==
  pc \in Cleaning \cup Removing =>
    /\ mem = journal /\ mem.phase # "None"
    /\ mem.phase = "BackingUp" => mem.installed = 0
    /\ pc \in Removing => ~Terminal /\ NewRemovedAbove(at)
    /\ pc = "remove_new_sync" => Kind[at] = "new" /\ live[Target(at)] = "absent"

InvRestoring ==
  pc \in Restoring =>
    /\ journalOnDisk = {mem} /\ mem.phase = "RollingBack"
    /\ NewRemovedAbove(0) /\ OldAbove(at)
    /\ pc \in Positioned => Kind[at] # "new"
    /\ pc \in Returned => live[Target(at)] = "old"
    /\ pc = "consumed_sync" => disk[Target(at)] = {"old"}

IInv ==
  /\ TypeOK /\ Located /\ JournalProof /\ Enclosed /\ Undecided
  /\ InvPreparing /\ InvWriting /\ InvStaging /\ InvReplacing
  /\ InvFinishing /\ InvRemoving /\ InvRestoring
=============================================================================
