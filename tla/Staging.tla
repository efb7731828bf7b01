------------------------------- MODULE Staging -------------------------------
(* Staging of one edit on the host (stage_sqlite, stage_classic and            *)
(* resolve_additions of edit/mod.rs): the device is opened, its databases and   *)
(* artwork are copied, edited and checked into a bundle, step by step, while    *)
(* another program may install something on the device.  The databases are      *)
(* kept to the set of their tracks: SqliteEdit has their tables, BinaryEdit the *)
(* records of the binary one.                                                   *)
EXTENDS ArtworkStore, TLC

CONSTANTS Devices,    \* generations a device may hold: [tracks, cdb, store]
          Profiles,   \* device profiles: [backend, formats]
          Requests,   \* edits a session may have queued: [removals, additions]
          NewPids,    \* what generate_unique_pid may return, in order
          Rivals,     \* generations between which another program may change the device
          MaxWrites   \* bound on the changes of that program

\* A generation as the device's own programs leave it: every track is in the
\* companion, and says that it has artwork when it has.
SoundDevice(d) ==
  /\ IsFiniteSet(DOMAIN d.tracks) /\ DOMAIN d.tracks \subseteq d.cdb
  /\ SoundStore(d.store)
  /\ \A t \in DOMAIN d.tracks : d.tracks[t].art <=> t \in TracksOf(d.store.records)

\* A profile knows the formats of its devices, and what it has is enough to
\* write new artwork.
SoundProfile(p) ==
  /\ p.formats \subseteq Nat /\ IsFiniteSet(p.formats)
  /\ p.formats # {} => \A d \in Devices : Referenced(d.store.records) \subseteq p.formats

SoundRequest(r) ==
  /\ r.additions \in Seq(Range(r.additions)) /\ Len(r.additions) <= Len(NewPids)
  /\ \A i \in DOMAIN r.additions : r.additions[i].art \in {"none", "new", "reuse"}

\* generate_unique_pid draws from 2^64: no id is drawn twice, or drawn when it is in use.
FreshPids ==
  /\ NewPids \in Seq(Nat) /\ \A i, j \in DOMAIN NewPids : NewPids[i] = NewPids[j] => i = j
  /\ \A d \in Devices, i \in DOMAIN NewPids :
       NewPids[i] \notin DOMAIN d.tracks \cup d.cdb \cup TracksOf(d.store.records)

ASSUME StagingAssumptions ==
  /\ \A d \in Devices : SoundDevice(d)
  /\ \A p \in Profiles : SoundProfile(p)
  /\ \A r \in Requests : SoundRequest(r)
  /\ FreshPids
  /\ Rivals \subseteq Devices
  /\ MaxWrites \in Nat

VARIABLES live,      \* the device
          library,   \* Device::library, read when the device was opened
          opened,    \* Device::generation, captured after it
          original,  \* the verified host snapshot
          profile, request,
          resolved,  \* the additions as resolve_additions returns them
          active,    \* active_artwork_formats
          nextImage, \* next_image_id
          bundle,    \* the staged outputs: [tracks, cdb, artwork, files]
          phase,     \* the next statement of the staging
          why,       \* the error it ended with
          writes

vars == <<live, library, opened, original, profile, request, resolved, active,
          nextImage, bundle, phase, why, writes>>
unstaged == <<live, library, opened, original, profile, request, writes>>

None == [kind |-> "none"]
Unwritten == [present |-> FALSE]
NoBundle == [tracks |-> {}, cdb |-> {}, artwork |-> Unwritten, files |-> <<>>]

Init ==
  /\ live \in Devices
  /\ profile \in Profiles /\ request \in Requests
  /\ request.removals \subseteq DOMAIN live.tracks
  /\ library = live.tracks /\ opened = live /\ original = live
  /\ resolved = <<>> /\ active = {} /\ nextImage = 100
  /\ bundle = NoBundle
  /\ phase = "capture" /\ why = "" /\ writes = 0

\* Another program installs an edit of its own.
InstalledByAnother ==
  /\ writes < MaxWrites /\ phase \notin {"staged", "refused"}
  /\ live \in Rivals /\ \E d \in Rivals \ {live} : live' = d
  /\ writes' = writes + 1
  /\ UNCHANGED <<library, opened, original, profile, request, resolved, active,
                 nextImage, bundle, phase, why>>

\* Mutant of Refuse: the staging ends without its error.
RefuseSilently(reason) ==
  /\ phase' = "refused"
  /\ UNCHANGED <<unstaged, resolved, active, nextImage, bundle, why>>

Refuse(reason) ==
  /\ phase' = "refused" /\ why' = reason
  /\ UNCHANGED <<unstaged, resolved, active, nextImage, bundle>>

Continue(to) == phase' = to /\ UNCHANGED why

Supported == profile.formats # {}
Binary == profile.backend = "binary"
Removing == request.removals # {}
WithNewArt == \E i \in DOMAIN request.additions : request.additions[i].art = "new"
WithArt == \E i \in DOMAIN request.additions : request.additions[i].art # "none"

------------------------------------------------------------------------------

\* Device::open reads the library first and fingerprints the files after it.
Capture ==
  /\ phase = "capture"
  /\ opened' = live
  /\ Continue("backup")
  /\ UNCHANGED <<live, library, original, profile, request, resolved, active, nextImage, bundle, writes>>

\* back_up_generation: what is copied has the fingerprint taken at the opening.
BackUp ==
  /\ phase = "backup"
  /\ IF live # opened THEN Refuse("generation")
     ELSE /\ original' = live
          /\ Continue("resolve")
          /\ UNCHANGED <<live, library, opened, profile, request, resolved, active, nextImage, bundle, writes>>

\* resolve_additions, before its loop: formats and image ids, of the live device.
Resolve ==
  /\ phase = "resolve"
  /\ IF request.additions = <<>> THEN
          Continue("database") /\ UNCHANGED <<unstaged, resolved, active, nextImage, bundle>>
     ELSE IF Binary /\ ~Supported /\ WithArt THEN Refuse("unsupported")
     ELSE IF WithNewArt /\ ~FormatsKnown(live.store, profile.formats, request.removals) THEN Refuse("formats")
     ELSE IF WithArt /\ ~live.store.present THEN Refuse("missing")
     ELSE /\ active' = IF WithNewArt THEN ActiveFormats(live.store, profile.formats, request.removals) ELSE {}
          /\ nextImage' = IF WithArt THEN BaseImageId(live.store) ELSE 100
          /\ Continue("allocate")
          /\ UNCHANGED <<unstaged, resolved, bundle>>

\* Mutant of Allocated: the running sizes are not kept.
AllocatedNever(f) == 0

\* The frames the additions resolved so far have put in a format's file.
Allocated(f) ==
  Cardinality({i \in DOMAIN resolved : resolved[i].link.kind = "new" /\ f \in DOMAIN resolved[i].link.refs})

NewImage(i, f) == 100 * i + f

\* resolve_new_artwork: one slot after the running end of every active file.
NewLink(i) ==
  [kind |-> "new", image |-> nextImage,
   refs |-> [f \in active |-> Len(FileOf(live.store.files, f)) + Allocated(f)],
   frames |-> [f \in active |-> NewImage(i, f)]]

Mates(album) == {t \in DOMAIN library : library[t].art /\ library[t].album = album}

\* resolve_reused_artwork: the slots of the first track of the album with artwork.
ReusedLink(mate) ==
  LET r == RecordOf(live.store.records, mate)
  IN  [kind |-> "reused", image |-> nextImage, refs |-> r.refs, frames |-> <<>>, mate |-> mate]

Resolved(i, link) == [pid |-> NewPids[i], album |-> request.additions[i].album, link |-> link]

ImageAfter(link) == IF link = None THEN nextImage ELSE nextImage + 1

\* One turn of the loop of resolve_additions.
Allocate ==
  LET i     == Len(resolved) + 1
      add   == request.additions[i]
      mates == Mates(add.album)
      link  == IF add.art = "new" THEN NewLink(i)
               ELSE IF add.art = "reuse" /\ mates # {} THEN ReusedLink(Min(mates))
               ELSE None
  IN  /\ phase = "allocate"
      /\ IF add.art = "reuse" /\ mates # {} /\ Min(mates) \notin TracksOf(live.store.records)
         THEN Refuse("mate")
         ELSE /\ resolved' = Append(resolved, Resolved(i, link))
              /\ nextImage' = ImageAfter(link)
              /\ Continue(IF i = Len(request.additions) THEN "database" ELSE "allocate")
              /\ UNCHANGED <<unstaged, active, bundle>>

Added == {resolved[i].pid : i \in DOMAIN resolved}
Linked == Selected(resolved, {i \in DOMAIN resolved : resolved[i].link.kind # "none"})

------------------------------------------------------------------------------

\* The main database is edited from the host snapshot.
EditDatabase ==
  /\ phase = "database"
  /\ IF ~(request.removals \subseteq DOMAIN original.tracks) THEN Refuse("removals")
     ELSE /\ bundle' = [bundle EXCEPT !.tracks = (DOMAIN original.tracks \ request.removals) \cup Added]
          /\ Continue(IF Binary THEN "reindex" ELSE "cdb")
          /\ UNCHANGED <<unstaged, resolved, active, nextImage>>

\* write_cdb_preview from the live companion, or copy_unchanged_companions.
RemoveFromCdb ==
  /\ phase = "cdb"
  /\ IF Removing /\ ~(request.removals \subseteq live.cdb) THEN Refuse("cdb")
     ELSE /\ bundle' = IF Removing \/ resolved = <<>>
                       THEN [bundle EXCEPT !.cdb = live.cdb \ request.removals] ELSE bundle
          /\ Continue("reindex")
          /\ UNCHANGED <<unstaged, resolved, active, nextImage>>

\* The removed tracks that have a record: nothing to do without one.
Requested == request.removals \cap TracksOf(live.store.records)

\* Mutant of ReindexArtwork: a removed track's artwork is left alone.
ReindexNothing ==
  /\ phase = "reindex"
  /\ Continue(IF resolved = <<>> THEN "verify" ELSE IF Binary THEN "records" ELSE "extend")
  /\ UNCHANGED <<unstaged, resolved, active, nextImage, bundle>>

\* write_artwork_preview
ReindexArtwork ==
  /\ phase = "reindex"
  /\ LET next  == IF resolved = <<>> THEN "verify" ELSE IF Binary THEN "records" ELSE "extend"
         store == Reindexed(live.store, Requested)
     IN  IF ~Supported \/ Requested = {} THEN
              Continue(next) /\ UNCHANGED <<unstaged, resolved, active, nextImage, bundle>>
         ELSE IF ~(Referenced(live.store.records) \subseteq profile.formats \cap DOMAIN live.store.files)
                 \/ ~Reindexable(live.store, Requested) THEN Refuse("artwork")
         ELSE /\ bundle' = [bundle EXCEPT !.artwork = [present |-> TRUE, records |-> store.records, next |-> store.next],
                                          !.files = store.files]
              /\ Continue(next)
              /\ UNCHANGED <<unstaged, resolved, active, nextImage>>

\* write_cdb_additions: from the live companion again, in place of the staged one.
AddToCdb ==
  /\ phase = "extend"
  /\ bundle' = [bundle EXCEPT !.cdb = live.cdb \cup Added]
  /\ Continue("records")
  /\ UNCHANGED <<unstaged, resolved, active, nextImage>>

NewRecords == [i \in DOMAIN Linked |-> [image |-> Linked[i].link.image, track |-> Linked[i].pid, refs |-> Linked[i].link.refs]]

\* write_artwork_additions: from the live ArtworkDB again, in place of the staged one.
AppendRecords ==
  /\ phase = "records"
  /\ LET store == WithRecords(live.store, NewRecords)
     IN  IF ~Supported \/ Linked = <<>> THEN
              Continue("frames") /\ UNCHANGED <<unstaged, resolved, active, nextImage, bundle>>
         ELSE IF ~live.store.present THEN Refuse("missing")
         ELSE /\ bundle' = [bundle EXCEPT !.artwork = [present |-> TRUE, records |-> store.records, next |-> store.next]]
              /\ Continue("frames")
              /\ UNCHANGED <<unstaged, resolved, active, nextImage>>

\* The additions whose frames go to the file of a format.
Drawing(f) ==
  {i \in DOMAIN resolved : resolved[i].link.kind = "new" /\ f \in DOMAIN resolved[i].link.frames}

Framed == UNION {DOMAIN resolved[i].link.frames : i \in {k \in DOMAIN resolved : resolved[k].link.kind = "new"}}
FramesOf(f) ==
  LET with == Selected(resolved, Drawing(f))
  IN  [n \in DOMAIN with |-> [slot |-> with[n].link.refs[f], image |-> with[n].link.frames[f]]]

\* An already-staged prefix wins over the original snapshot.
Prefix(f) == IF f \in DOMAIN bundle.files THEN bundle.files[f] ELSE FileOf(original.store.files, f)

\* write_artwork_frames
AppendFrames ==
  /\ phase = "frames"
  /\ IF Supported /\ \E f \in Framed : ~FramesFit(Prefix(f), FramesOf(f)) THEN Refuse("changed")
     ELSE /\ bundle' = [bundle EXCEPT !.files =
                          [f \in DOMAIN bundle.files \cup Framed |->
                             IF f \in Framed THEN WithFrames(Prefix(f), FramesOf(f)) ELSE bundle.files[f]]]
          /\ Continue("verify")
          /\ UNCHANGED <<unstaged, resolved, active, nextImage>>

RemovedWithArt == {t \in request.removals : t \in DOMAIN library /\ library[t].art}

\* removed_ithmb_targets fails on a format the profile does not know.
TargetsNamed ==
  RemovedWithArt = {} \/ Referenced(live.store.records) \subseteq profile.formats

\* validate_semantics: against the library read at the opening.
Meant ==
  /\ Cardinality(bundle.tracks) = Cardinality(DOMAIN library) - Cardinality(request.removals) + Len(resolved)
  /\ bundle.tracks \cap request.removals = {}
  /\ Added \subseteq bundle.tracks

\* Mutant of Unchanged: the generation is not compared at the end.
Unchecked == TRUE

\* verify_unchanged
Unchanged == live = opened

\* validate_semantics, verify_unchanged, and the lists of the result.
Verify ==
  /\ phase = "verify"
  /\ IF ~Meant THEN Refuse("semantics")
     ELSE IF ~Unchanged THEN Refuse("generation")
     ELSE IF ~TargetsNamed THEN Refuse("targets")
     ELSE Continue("staged") /\ UNCHANGED <<unstaged, resolved, active, nextImage, bundle>>

Next ==
  \/ InstalledByAnother
  \/ Capture \/ BackUp \/ Resolve \/ Allocate
  \/ EditDatabase \/ RemoveFromCdb \/ ReindexArtwork \/ AddToCdb
  \/ AppendRecords \/ AppendFrames \/ Verify

Spec == Init /\ [][Next]_vars

------------------------------------------------------------------------------

\* What the artwork store is once the bundle is installed.
Installed ==
  [records |-> IF bundle.artwork.present THEN bundle.artwork.records ELSE opened.store.records,
   files   |-> [f \in DOMAIN bundle.files \cup DOMAIN opened.store.files |->
                  IF f \in DOMAIN bundle.files THEN bundle.files[f] ELSE opened.store.files[f]]]

\* The image a track of the edited library is meant to show.
Meaning(t) ==
  IF t \in Added
  THEN LET a == CHOOSE x \in Range(resolved) : x.pid = t
       IN  IF a.link.kind = "new" THEN a.link.frames ELSE Shown(opened.store, a.link.mate)
  ELSE Shown(opened.store, t)

\* An addition derives the companion, or the artwork, of a removal again.
Mixed == Removing /\ resolved # <<>>
MixedArt == Removing /\ Linked # <<>>

TypeOK ==
  /\ live \in Devices /\ opened \in Devices /\ original \in Devices
  /\ profile \in Profiles /\ request \in Requests /\ writes \in 0..MaxWrites
  /\ Len(resolved) <= Len(request.additions)
  /\ phase = "refused" <=> why # ""
  /\ active \subseteq profile.formats

\* Every record of the installed artwork shows the image of its own track: what
\* stays keeps its image through the repacking, an added track shows its source
\* or its album's.  Of an edit that removes and adds artwork at once this is not true.
EveryTrackShowsItsImage ==
  phase = "staged" =>
    \A t \in TracksOf(Installed.records) \cap bundle.tracks : Shown(Installed, t) = Meaning(t)

OwnImages == ~MixedArt => EveryTrackShowsItsImage

\* A repacked store holds the images its records show and nothing else, each once.
NoUnreferencedSlots ==
  phase = "staged" /\ Removing /\ ~MixedArt /\ bundle.artwork.present =>
    \A f \in DOMAIN bundle.files :
      {r.refs[f] : r \in {s \in Range(bundle.artwork.records) : f \in DOMAIN s.refs}} = 0..(Len(bundle.files[f]) - 1)

\* Image ids stay unique, and the header's next id is above all of them.
ImageIdsUnique ==
  phase = "staged" /\ bundle.artwork.present =>
    LET records == bundle.artwork.records
    IN  /\ \A i, j \in DOMAIN records : records[i].image = records[j].image => i = j
        /\ \A r \in Range(records) : r.image < bundle.artwork.next

\* A bundle is staged from one generation, the one the device still holds: the
\* tables, the companion and the artwork all continue what was opened.
OneGeneration ==
  phase = "staged" =>
    /\ original = opened
    /\ bundle.tracks \ Added = DOMAIN opened.tracks \ request.removals
    /\ ~Binary =>
         bundle.cdb \ Added = opened.cdb \ (IF Mixed THEN {} ELSE request.removals)
    /\ bundle.artwork.present =>
         TracksOf(bundle.artwork.records) \ Added
           = TracksOf(opened.store.records) \ (IF MixedArt THEN {} ELSE request.removals)

\* verify_bundle and expected_artwork_outputs: the installer counts the outputs.
ExpectedArtwork ==
  LET removedFiles == IF RemovedWithArt = {} THEN {} ELSE Referenced(opened.store.records)
  IN  IF ~Supported THEN 0
      ELSE (IF RemovedWithArt # {} \/ Linked # <<>> THEN 1 ELSE 0) + Cardinality(removedFiles \cup Framed)

\* output_targets: ArtworkDB, and every thumbnail file in the staging directory.
ArtworkOutputs == (IF bundle.artwork.present THEN 1 ELSE 0) + Cardinality(DOMAIN bundle.files)

\* What is staged can be installed: the manifest has the artwork outputs that the
\* installer derives from the counts of the edit.  The exception is a device
\* that changed between the two reads of Device::open.
Installable ==
  phase = "staged" /\ library = opened.tracks => ArtworkOutputs = ExpectedArtwork

\* mod.rs:518: the iTunesCDB records of removed tracks are removed.
RemovedFromCdb == phase = "staged" /\ ~Binary => bundle.cdb \cap request.removals = {}

\* mod.rs:2177, mod.rs:2213: a database, a companion or a frame file is refused
\* only when the device changed under the staging, and never for what the passes
\* before have made of it.  The exceptions are edits that remove and add artwork
\* at once, and devices with artwork but no format to write it in.
RefusedForCause ==
  why \in {"removals", "cdb", "artwork", "changed", "semantics", "generation", "targets"} =>
    writes > 0 \/ MixedArt \/ (~Supported /\ why = "targets")
=============================================================================
