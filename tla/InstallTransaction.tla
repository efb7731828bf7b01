------------------------- MODULE InstallTransaction -------------------------
(***************************************************************************)
(* The device transaction as a whole: one process at a time installs a     *)
(* bundle or recovers, and at any step a call may fail, the process may be *)
(* killed, or the volume may lose power.                                   *)
(***************************************************************************)
EXTENDS Recovery

CONSTANTS
  MaxPowerLosses,   \* bound on losses of power
  MaxFailures       \* bound on failed calls and killed processes

ASSUME BoundsAssumption == MaxPowerLosses \in Nat /\ MaxFailures \in Nat

VARIABLES powerLosses, failures

vars == <<volume, process, powerLosses, failures>>

Init ==
  /\ VolumeInit
  /\ pc = "idle" /\ mem = NoJournal /\ at = 0 /\ recovering = FALSE
  /\ powerLosses = 0 /\ failures = 0

Stopped == pc' = "idle" /\ mem' = NoJournal /\ at' = 0 /\ recovering' = FALSE

-----------------------------------------------------------------------------
PowerLoss ==
  /\ powerLosses < MaxPowerLosses
  /\ LosePower
  /\ Stopped
  /\ powerLosses' = powerLosses + 1
  /\ UNCHANGED failures

Fails ==
  /\ failures < MaxFailures
  /\ failures' = failures + 1
  /\ UNCHANGED powerLosses

\* The process is killed, recovery returns an error, or the sync that follows
\* the creation of the transaction directory fails, which nothing rolls back.
Stop ==
  /\ pc # "idle"
  /\ Fails
  /\ Stopped
  /\ UNCHANGED volume

\* An installation that fails recovers at once, in the same process.
FailInstall ==
  /\ ~recovering /\ pc \notin {"idle", "create_sync"}
  /\ Fails
  /\ pc' = "recover" /\ recovering' = TRUE
  /\ UNCHANGED <<volume, mem, at>>

\* install_file_impl removes the temporary of a new file before it reports
\* the failure.
FailNewFile ==
  /\ ~recovering /\ pc \in {"temporary_fill", "publish", "publish_sync"}
  /\ Kind[Current] = "new"
  /\ Fails
  /\ live' = [live EXCEPT ![Temporary(Current)] = "absent"]
  /\ disk' = [disk EXCEPT ![Temporary(Current)] = {"absent"},
                          ![Target(Current)] = {live[Target(Current)]}]
  /\ pc' = "recover" /\ recovering' = TRUE
  /\ UNCHANGED <<journal, journalOnDisk, mem, at>>

Work == /\ \/ Prepare \/ WriteJournal \/ InstallOutput \/ Finish \/ Cleanup
           \/ RecoveryStep
        /\ UNCHANGED <<powerLosses, failures>>
Call == (Begin \/ Recover) /\ UNCHANGED <<powerLosses, failures>>

Next == Call \/ Work \/ PowerLoss \/ Stop \/ FailInstall \/ FailNewFile

Spec == Init /\ [][Next]_vars

-----------------------------------------------------------------------------
(***************************************************************************)
(* Fairness: a process that runs goes on running, and the user, whom       *)
(* Device::open refuses, calls recovery.  Nobody has to begin an           *)
(* installation, and nothing has to fail.                                  *)
(***************************************************************************)
Retry == Recover /\ UNCHANGED <<powerLosses, failures>>

FairSpec == Spec /\ WF_vars(Work) /\ WF_vars(Retry)

-----------------------------------------------------------------------------
(* Properties.                                                              *)

\* Types; the position of a loop stays within the outputs and deletions.
TypeOK ==
  /\ VolumeTypeOK
  /\ mem \in Journal
  /\ at \in 0..(Outputs + Deletions + 1)
  /\ recovering \in BOOLEAN

\* No output may come back from a power loss as anything but its original, or
\* as anything but its staged bytes.
OldOnDisk == \A o \in Output : disk[Target(o)] = {Original(o)}
NewOnDisk == \A o \in Output : disk[Target(o)] = {"new"}

Working == {"Installing", "Validating", "RollingBack"}

\* What a journal that recovery finds lets it conclude about the live files.
Proves(j) ==
  /\ j.phase = "None" => OldOnDisk \/ NewOnDisk
  /\ j.phase \in {"BackingUp", "RolledBack"} => OldOnDisk
  /\ j.phase = "Committed" => NewOnDisk
  /\ j.phase \in Working =>
       \A o \in Output : o > j.installed => disk[Target(o)] = {Original(o)}

\* Whatever journal a power loss leaves tells the truth about every target a
\* power loss leaves: no rename, append or unlink reaches the disk before the
\* intent that covers it, and no terminal journal before what it declares done
\* (write_journal against install_replacement, append::install, rollback).
JournalProof == \A j \in journalOnDisk : Proves(j)

\* A device that can be opened shows one whole generation, after any failures
\* and losses of power (install_staged_and_open, recover_with_failure_mode).
Atomic == live[Transaction] = "absent" => AllOld \/ AllNew

\* The interrupted state is always one that recovery acts on: the transaction
\* directory never becomes a dead end (validate_recovery_state).
Recoverable ==
  pc = "recover" /\ live[Transaction] = "present" => Scaffold \/ Accepts

\* As long as a rollback may still be asked for, the bytes it needs are on the
\* device: the renamed original, or the suffix that tells what to truncate.
Restorable(o) ==
  CASE Kind[o] = "replace" -> "old" \in {live[Target(o)], live[Backup(o)]}
    [] Kind[o] = "append" -> live[Target(o)] = "old" \/ live[Spool(o)] = "new"
    [] OTHER -> TRUE

OriginalKept ==
  (\E j \in journalOnDisk : j.phase \notin {"None", "Committed"}) =>
     \A o \in Output : Restorable(o)

\* An open device carries no hidden temporary file, nor may one come back.
NoDebris ==
  live[Transaction] = "absent" => \A o \in Output : disk[Temporary(o)] = {"absent"}

\* Deleted media never comes back to a library without it: not under a journal
\* that says Committed, nor on an open device with the new generation, whatever
\* losses of power follow (install_inner syncs all unlinks before Validating;
\* commit.rs:444, "the required final state is simply absence").
DeletionsStick ==
  (\E j \in journalOnDisk : j.phase = "Committed") \/ (live[Transaction] = "absent" /\ AllNew /\ ~AllOld) =>
    \A d \in Deletion : disk[Media(d)] = {"absent"}

\* An interrupted transaction is resolved once interruptions end.
Recovered == live[Transaction] = "present" ~> live[Transaction] = "absent"

\* The transaction implements the abstract installation.
Abstract ==
  INSTANCE AtomicInstall WITH
    generation <- IF AllOld THEN "old" ELSE IF AllNew THEN "new" ELSE "mixed",
    closed <- live[Transaction] = "present",
    settled <- \A j \in journalOnDisk : j.phase \in {"None", "Committed", "RolledBack"}
InstallsAtomically == Abstract!AbstractSpec

-----------------------------------------------------------------------------
(* Statements of the documentation that the code does not keep.             *)

\* README.md:96, "Full original files remain on-device until commit."
OriginalsRemain ==
  \A o \in Output : Kind[o] = "replace" /\ live[Target(o)] = "absent" =>
     live[Backup(o)] = "old"

\* rename.rs:308, "An interruption during recursive backup cleanup must never
\* erase the only proof that no rollback is needed."
ProofOutlivesBackups ==
  pc \in {"cleanup", "cleanup_sync"} /\ live[BackupDirectory] = "present"
    /\ (\E o \in Output : Kind[o] = "replace" /\ live[Backup(o)] = "absent") =>
  \A j \in journalOnDisk : j.phase \in {"Committed", "RolledBack"}

=============================================================================
