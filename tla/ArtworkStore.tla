----------------------------- MODULE ArtworkStore -----------------------------
(* ArtworkDB and its .ithmb thumbnail files (artwork/mod.rs, artwork/write.rs) *)
(* and what an edit does to them.  A store is a record                         *)
(*   present  whether ArtworkDB exists                                         *)
(*   records  the mhii records in database order: [image, track, refs], where  *)
(*            refs gives, for each thumbnail format of the record, its slot    *)
(*   next     the next-image-id field of the mhfd header                       *)
(*   files    the .ithmb file of each format that has one: a sequence of images *)
(* Offsets are counted in slots: slot n of a format starts at byte             *)
(* n * slot_bytes, and every file is a whole number of slots.                  *)
EXTENDS Selection, SequencesExt, FiniteSets, FiniteSetsExt

TracksOf(records) == {r.track : r \in Range(records)}
Kept(records, removed) == Selected(records, {i \in DOMAIN records : records[i].track \notin removed})
RecordOf(records, track) == CHOOSE r \in Range(records) : r.track = track

\* parse_artwork_records, with referenced_artwork_files: the files records name.
Referenced(records) == UNION {DOMAIN r.refs : r \in Range(records)}

\* ithmb slot read is out of range
Readable(store, r) ==
  \A f \in DOMAIN r.refs : f \in DOMAIN store.files /\ r.refs[f] < Len(store.files[f])

\* What a track shows in each of its formats; 0 is what lies beyond the file.
Shown(store, track) ==
  IF track \notin TracksOf(store.records) THEN <<>>
  ELSE LET r == RecordOf(store.records, track)
       IN  [f \in DOMAIN r.refs |-> IF Readable(store, r) THEN store.files[f][r.refs[f] + 1] ELSE 0]

\* A store as an edit may find it: a record for a track, an image for a record,
\* and every slot that a record names is in its file.
SoundRecord(store, r) ==
  /\ DOMAIN r = {"image", "track", "refs"}
  /\ r.image \in Nat /\ r.track \in Nat /\ r.refs \in [DOMAIN r.refs -> Nat]
  /\ r.image < store.next /\ Readable(store, r)

SoundStore(store) ==
  /\ DOMAIN store = {"present", "records", "next", "files"} /\ store.next \in Nat
  /\ \A f \in DOMAIN store.files : f \in Nat /\ store.files[f] \in Seq(Nat)
  /\ store.records \in Seq(Range(store.records))
  /\ \A r \in Range(store.records) : SoundRecord(store, r)
  /\ \A i, j \in DOMAIN store.records :
       i # j => /\ store.records[i].track # store.records[j].track
                /\ store.records[i].image # store.records[j].image

------------------------------------------------------------------------------
(* Removal: reindex_artwork_removals *)

Using(records, f) == {i \in DOMAIN records : f \in DOMAIN records[i].refs}

\* Mutant of Packed: no SlotMap, so a shared slot is copied for every record.
PackedUnshared(records, f) ==
  LET using == Selected(records, Using(records, f))
  IN  [n \in DOMAIN using |-> using[n].refs[f]]

\* The records that are the first to use a slot of a format.
FirstUses(records, f) ==
  {i \in Using(records, f) :
     \A j \in Using(records, f) : j < i => records[j].refs[f] # records[i].refs[f]}

\* The old slots of a format in their new order: a shared slot is moved once.
Packed(records, f) ==
  LET first == Selected(records, FirstUses(records, f))
  IN  [n \in DOMAIN first |-> first[n].refs[f]]

\* Mutant of Repointed: the references keep their old slots.
RepointedStale(records) == records

\* patch_record_slots: every reference moves to its packed slot.
Repointed(records) ==
  [i \in DOMAIN records |->
    [records[i] EXCEPT !.refs =
      [f \in DOMAIN records[i].refs |-> SelectInSeq(Packed(records, f), LAMBDA s : s = records[i].refs[f]) - 1]]]

\* Each requested track has exactly one record, and what stays can be read.
Reindexable(store, removed) ==
  /\ \A t \in removed : Cardinality({i \in DOMAIN store.records : store.records[i].track = t}) = 1
  /\ \A r \in Range(Kept(store.records, removed)) : Readable(store, r)

\* Every file that was referenced is rewritten, an emptied one included.
Reindexed(store, removed) ==
  LET kept   == Kept(store.records, removed)
      slots(f) == Packed(kept, f)
  IN  [store EXCEPT !.records = Repointed(kept),
                    !.files = [f \in Referenced(store.records) |->
                                 [i \in DOMAIN slots(f) |-> store.files[f][slots(f)[i] + 1]]]]

------------------------------------------------------------------------------
(* Addition *)

LastImage(records) == IF records = <<>> THEN 99 ELSE Max({r.image : r \in Range(records)})

\* base_image_id
BaseImageId(store) == LastImage(store.records) + 1

\* append_artwork_records: the header's next image id never goes back.
WithRecords(store, new) ==
  [store EXCEPT !.records = @ \o new, !.next = Max({@, LastImage(new) + 1})]

\* choose_artwork_format_ids
ChooseFormats(referenced, existing, available) ==
  IF referenced # {} THEN referenced ELSE IF existing # {} THEN existing ELSE available

\* active_artwork_format_ids
ActiveFormats(store, formats, removed) ==
  ChooseFormats(Referenced(Kept(store.records, removed)), formats \cap DOMAIN store.files, formats)

FormatsKnown(store, formats, removed) ==
  /\ store.present
  /\ Referenced(Kept(store.records, removed)) \subseteq formats \cap DOMAIN store.files

\* inspect metadata: an absent frame file starts empty.
FileOf(files, f) == IF f \in DOMAIN files THEN files[f] ELSE <<>>

\* append_artwork_frames: every frame has to land at the slot it was allocated.
FramesFit(file, frames) == \A i \in DOMAIN frames : frames[i].slot = Len(file) + i - 1
WithFrames(file, frames) == file \o [i \in DOMAIN frames |-> frames[i].image]
=============================================================================
