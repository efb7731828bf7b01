---------------------------- MODULE AtomicInstall ----------------------------
(***************************************************************************)
(* What an installation promises to whoever opens the device: the library  *)
(* is one generation or the other, it is closed to readers while it may be *)
(* anything else, and a generation that was settled on stays.              *)
(*                                                                         *)
(* generation is what the live files are; closed says that Device::open    *)
(* answers RecoveryRequired; settled that no interruption can lead to any  *)
(* other generation than this one.                                         *)
(***************************************************************************)
VARIABLES generation, closed, settled

abstract == <<generation, closed, settled>>

AbstractInit == generation = "old" /\ closed = FALSE /\ settled = TRUE

\* The device is closed: an installation begins, or a loss of power brings
\* back the directory of one that was settled.
Close == ~closed /\ settled /\ closed' = TRUE /\ UNCHANGED <<generation, settled>>

\* Only the old generation is given up, and only behind a closed door.
Undertake ==
  /\ closed /\ settled /\ generation = "old"
  /\ settled' = FALSE
  /\ UNCHANGED <<generation, closed>>

Change ==
  /\ closed /\ ~settled
  /\ generation' \in {"old", "mixed", "new"}
  /\ UNCHANGED <<closed, settled>>

Settle ==
  /\ closed /\ ~settled /\ generation \in {"old", "new"}
  /\ settled' = TRUE
  /\ UNCHANGED <<generation, closed>>

Open == closed /\ settled /\ closed' = FALSE /\ UNCHANGED <<generation, settled>>

AbstractNext == Close \/ Undertake \/ Change \/ Settle \/ Open

AbstractSpec == AbstractInit /\ [][AbstractNext]_abstract
=============================================================================
