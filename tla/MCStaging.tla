------------------------------ MODULE MCStaging ------------------------------
EXTENDS Staging

CONSTANTS Backends, Removals, Arts, MaxAdditions, MaxSlot

\* Tracks 1 and 2 are of one album, track 3 of another.
AlbumOf(t) == IF t = 3 THEN "B" ELSE "A"
MCProfiles == {[backend |-> b.backend, formats |-> b.formats] : b \in Backends}

\* Format 1 is used by every record; in format 2 the slots are mirrored, or it is unused.
Layouts == UNION {[T -> 0..MaxSlot] : T \in SUBSET (1..3)}
RecordsOf(layout, both) ==
  LET tracks == SetToSortSeq(DOMAIN layout, <)
  IN  [i \in DOMAIN tracks |->
        [image |-> 99 + tracks[i], track |-> tracks[i],
         refs |-> [f \in (IF both THEN {1, 2} ELSE {1}) |->
                     IF f = 1 THEN layout[tracks[i]] ELSE MaxSlot - layout[tracks[i]]]]]
DeviceOf(layout, both) ==
  [tracks |-> [t \in 1..3 |-> [album |-> AlbumOf(t), art |-> t \in DOMAIN layout]],
   cdb    |-> 1..3,
   store  |-> [present |-> TRUE, records |-> RecordsOf(layout, both), next |-> 103,
               files |-> [f \in (IF both THEN {1, 2} ELSE {1}) |-> [n \in 1..(MaxSlot + 1) |-> 10 * f + n]]]]

Shared == {DeviceOf(layout, both) : layout \in Layouts, both \in BOOLEAN}
\* A device that has never had artwork, and one after another program removed track 3.
Bare == [DeviceOf(<<>>, FALSE) EXCEPT !.store.present = FALSE, !.store.files = <<>>]
Shorter ==
  LET d == DeviceOf([t \in {1, 2} |-> 0], TRUE)
  IN  [d EXCEPT !.tracks = [t \in {1, 2} |-> d.tracks[t]], !.cdb = {1, 2}]
MCRivals == {DeviceOf([t \in {1, 3} |-> t \div 2], TRUE), DeviceOf([t \in 1..3 |-> 0], TRUE), Bare, Shorter}
MCDevices == Shared \cup MCRivals

Adding == {[album |-> a, art |-> k] : a \in {"A"}, k \in Arts}
MCRequests ==
  [removals : Removals, additions : UNION {[1..n -> Adding] : n \in 0..MaxAdditions}]

SomeRemovals == {{}, {1}, {3}, {1, 2}}
MCNewPids == <<11, 12>>
OneRemoval == {{}, {1}}
SqliteOnly == {[backend |-> "sqlite", formats |-> {1, 2}]}
BothBackends == {[backend |-> "sqlite", formats |-> {1, 2}],
                 [backend |-> "binary", formats |-> {1, 2}],
                 [backend |-> "binary", formats |-> {}]}
=============================================================================
