------------------------- MODULE DirectoryInvariant -------------------------
(***************************************************************************)
(* What IInv leaves open: that the transaction directory, which closes the *)
(* device, is durable while anything is undecided, that it goes only when  *)
(* no journal is left that could undo what it decided, and that no hidden  *)
(* temporary file outlives it.                                             *)
(***************************************************************************)
EXTENDS InstallInvariant

-----------------------------------------------------------------------------
(* The directory.                                                           *)

DirectoryKept == disk[Transaction] = {"present"}

\* The points at which the directory may still come or already go.
Unclosed == {"idle", "recover", "create_sync", "remove_directory", "remove_sync"}

\* A journal lies in a directory that a loss of power does not take away.
InvDirectory ==
  /\ disk[Transaction] \subseteq {"absent", "present"}
  /\ journal.phase # "None" => DirectoryKept
  /\ pc \notin Unclosed => DirectoryKept

-----------------------------------------------------------------------------
(* The journals.                                                            *)

\* Recovery makes the journal it found durable before it acts on a terminal
\* one: it does so if the transaction appends (Clean), or if whatever stopped
\* the process before was a loss of power.
Resyncs == Appends \/ MaxFailures = 0

\* No journal on the disk can lead to another generation than the live one.
Settled == \A j \in journalOnDisk : j.phase \in {"None", "Committed", "RolledBack"}

InvSettled ==
  /\ failures \in Nat
  /\ journal.phase = "None" => Settled
  /\ pc \in CleaningUp => Settled
  /\ MaxFailures = 0 /\ pc \in {"idle", "recover"} \cup Cleaning => journalOnDisk = {journal}

-----------------------------------------------------------------------------
(* The hidden temporary files.                                              *)

TemporaryGone(o) == disk[Temporary(o)] = {"absent"}
TemporariesGone == \A o \in Output : TemporaryGone(o)

\* The points at which every temporary is durably gone.
Tidy == Preparing \cup Writing \cup Staging \cup CleaningUp \cup Removing \cup Restoring
          \cup {"install", "append_rest", "delete", "validate", "remove_directory", "remove_sync"}

\* None outlives the directory, or a journal that ends the rollback.
DebrisEnclosed ==
  /\ "absent" \in disk[Transaction] => TemporariesGone
  /\ (\E j \in journalOnDisk : j.phase \notin Working) => TemporariesGone

\* Only the output in flight has one, until recovery has removed it.
DebrisLocated ==
  /\ pc \in Tidy => TemporariesGone
  /\ pc \in Replacing => \A o \in Output : o # mem.installed => TemporaryGone(o)
  /\ pc \in Placed => live[Temporary(mem.installed)] = "absent"
  /\ pc = "release" => \A o \in Output : live[Temporary(o)] = "absent"

InvTemporaries == DebrisEnclosed /\ DebrisLocated
=============================================================================
