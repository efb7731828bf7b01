# libopod in TLA+

libopod edits the music library of an iPod. The library is a *generation* of
files that must agree with each other: SQLite databases and a signed binary
companion on the Nano 7G, one signed binary database on the other models, and
on both ArtworkDB with its thumbnail files and the media. An edit is staged as
a bundle on the host and then installed on a FAT volume that the user may
unplug at any moment. This directory models that program, checks the models
with TLC and proves the properties that matter most with TLAPS.

Paths such as `edit/commit.rs` are relative to `src/src/`.

## 1. Inventory

| Component | State it keeps | Operations | What makes it correct |
|---|---|---|---|
| Device transaction, installation (`edit/commit.rs`) | `journal.json` (phase, installed), live files, temporaries, backups | `install_staged_and_open`, `install_inner`, `write_journal`, `install_file_impl` | the journal never claims more than is durable; an open device is one whole generation |
| Device transaction, recovery (`edit/commit.rs`) | the same, read back | `recover_with_failure_mode`, `validate_recovery_state`, `cleanup_interrupted_temporaries` | every state an interruption leaves is one that it accepts; what it does can be interrupted and repeated |
| Rename strategy (`edit/commit/rename.rs`) | `backup/` | `install_replacement`, `restore_backup`, `finish_restored_sync`, `validate_replacement`, `remove_transaction_directory`, `remove_empty_scaffold` | an original has a name at all times |
| Append strategy (`edit/commit/append.rs`) | suffix spools, `rollback-reserve` | `plan`, `prepare`, `install`, `validate`, `rollback`, reserve and release | the old prefix is never written, and what may be truncated can be proved |
| Generation fingerprints (`edit/generation.rs`) | sizes and digests of the databases and artwork | `capture`, `verify_unchanged` | nothing is installed over a generation other than the staged one |
| Staging manifest (`edit/manifest.rs`) | source and output fingerprints, deletions | `back_up_generation`, `write_staging_manifest` | new media first, the database last |
| Edit session and staging (`edit/mod.rs`, `edit/add.rs`) | removals, additions, playlist edits, staged previews | `EditSession`, `stage_sqlite`, `stage_classic`, `write_*_preview`, `write_*_additions` | all companions describe the same tracks |
| Media allocation (`edit/media.rs`, `random.rs`) | names taken in each `Fxx` folder | `scan`, `stage_copy`, `reserve_name` | a name is given once, in any letter case |
| Playlists and sort keys (`edit/playlist.rs`, `edit/sort.rs`) | memberships, positions | `apply` of the edits | members exist, positions are dense |
| Artwork (`artwork/`) | image records, thumbnail slots | add, reuse, `reindex_artwork_removals` | a slot is moved once, every image that shares it follows |
| Nano binary companion (`storage/binary/cdb*.rs`) | tracks, playlists, albums | parse, add, remove | counts and lengths agree with the children |
| Classic binary database (`storage/binary/classic*`) | the same, podcasts as well | parse, edit | the same, and podcast grouping |
| SQLite library (`storage/sqlite/`) | the five databases | read-only snapshot, open | reads never touch the device's files |
| CBK (`storage/binary/cbk.rs`) | block digests of Locations.itdb | encode, verify | the digest covers every block |
| Signatures (`crypto/`) | none | HASH58, HASHAB | equal to the device's |
| Device (`device/`) | profile, evidence, library, generation | `Device::open`, `profile::resolve` | no edit without a certain profile; no open during a transaction |
| Paths and mounts (`fs/`) | mount root | `IpodPath::new`, `MountRoot::resolve_*` | no path leaves the mount; FAT letter case |
| Library, errors, progress, random (`library/`, `error.rs`, `edit/progress.rs`, `random.rs`) | values | accessors | nothing to check |

How they interact: `Device::open` reads identity, library and generation and
refuses when the transaction directory exists. `EditSession` stages a bundle
from the device (host backup of the generation, edited databases, media,
manifest). Installing verifies the generation again, installs the outputs in
manifest order inside a transaction directory on the device, and reopens the
device before it commits. `recover_interrupted_transaction` needs only the
mount and the journal. There are no threads in the library: what is concurrent
is the environment, which may stop a call, the process or the power at every
file system call, and a second process that may work on the same mount.

What is hard: the order of writes and syncs against a loss of power; failures
of any call in the middle; a recovery that is itself interrupted; a recovery
that starts from state which is visible but not durable; loops that skip
outputs of another kind; and state derived from the device where it should be
derived from what was staged before. `PROJECT.json` lists each hazard at its
line.

## 2. Plan

The most important behaviour, the one that can destroy a library, came first;
then what decides the content of the bundle that is installed.

1. **Transaction** (done): `Volume`, `Installation`, `Recovery`,
   `InstallTransaction`; the abstract promise `AtomicInstall`; the inductive
   invariant and its proofs.
2. **Session** (done): `EditSession`, the promise `PlaylistStore` it
   implements, and the proofs of both in `EditSessionProofs`.
3. **Staging** (done): `Staging` over `ArtworkStore`: the order in which the
   companions of a bundle are derived, beside another program that writes, with
   the proofs in `StagingProofs`.
4. **SQLite** (done): `SqliteTables`, `SqliteEdit`: the relational edits, with
   the proofs in `SqliteProofs`.
5. **Binary databases** (done): `BinaryTables`, `BinaryPodcasts`, `BinaryEdit`,
   with the proofs in `BinaryProofs`.
6. **Two hosts**: an installer and a recoverer as two processes over `Volume`,
   with no lock between them (`plan.md` asks for an advisory lock).
7. **Space**: the amounts of `required_transaction_bytes` against what coexists
   on the volume at each point of the transaction.

Proved: everything safe about the transaction but `DeletionsStick`, its refinement included, the
session with its refinement, all that `Staging` and `SqliteEdit` promise, and
of `BinaryEdit` the types, the master lists, memberships, universes, companions,
links and sorted indexes. `Facts` has the lemmas that more than one of the
proofs need. Theorems to come: the show groups of `BinaryEdit`, and that its
semantic check accepts what the session lets through.

How the models fit together: `EditSession` ends in a request, which is the
`request` or `edit` that `Staging`, `SqliteEdit` and `BinaryEdit` begin with
(their `Queueable` is what the session lets through). `Staging` keeps each
database to the set of its tracks and shows in which order the outputs are
derived; `SqliteEdit` and `BinaryEdit` have the databases in full and none of
the artwork. All three end in a bundle, whose installation is one step in them
and `InstallTransaction` in full.

## 3. The models

### The transaction

| Module | Content |
|---|---|
| `Volume` | the names a transaction touches, file contents, the file system calls, and what a loss of power does |
| `Installation` | `install_staged_and_open` and `install_inner` with both strategies, `write_journal` and the terminal clean-up, one action per file system call |
| `Recovery` | `recover_with_failure_mode` with its validation, one action per file system call |
| `InstallTransaction` | the whole: processes that stop, calls that fail, losses of power; specification and properties |
| `AtomicInstall` | what an installation promises to whoever opens the device |
| `InstallInvariant` | the inductive invariant |
| `InstallTransactionProofs` | its proof and the theorems |
| `DirectoryInvariant`, `DirectoryProofs` | the durability of the transaction directory and where temporaries may be; the proofs that an open device has none and that the transaction implements `AtomicInstall` |
| `RestorableInvariant`, `RestorableProofs` | what every journal that may be found needs; the proof that recovery finds it and that originals are kept |
| `MCInstallTransaction` | manifests for the runs |

#### State and its counterpart in the code

- `live[n]`: what a process reads under a name: a target, its hidden
  temporary, its backup, a spool, the reserve, `journal.tmp`, `backup/`, the
  transaction directory, a media file to delete.
- `disk[n]`: the contents the name may have after a loss of power: whatever was
  written since its directory was last synced, and what that sync made durable.
- `journal`, `journalOnDisk`: the same two for `journal.json`, whose phase and
  `installed` count are those of `TransactionJournal`.
- `pc`: the next file system call; `mem`: the `TransactionJournal` value in
  memory; `at`: the index of a loop that does not advance `installed`;
  `recovering`: whether the clean-up runs for recovery.

A content is a symbol for what fingerprints tell apart (`old`, `new`,
`partial`, `torn`, `absent`, `present`). The outputs are a sequence of kinds
(`Kind`): `new` for a file without an original, `replace` for the rename
strategy, `append` for the append strategy; that sequence is what the manifest
and `append::plan` give `install_inner`.

Between two file system calls the process only computes, so its steps are the
calls; a flush of a file is joined with the sync of its directory when nothing
can be told between them. Each action names its code in `PROJECT.json`.

#### Loss of power

A FAT volume has no journal. The model lets every unsynced name come back with
any content it had since its last sync, independently of all the others, with
two restrictions: what is in a lost directory is lost, and a renamed file is
not lost while the removal of its old name is unsynced, since the driver
writes the new name first. Once the directory of the old name is synced, only
a sync of the other directory protects the file. Every target has its own
parent directory, which is weaker than the shared parents of a real device:
the sync of one never helps another. With `TornAppends` a grown file may also
come back with clusters that were never written.

#### Failures

`Stop` kills the process, or makes recovery return an error, before any call.
`FailInstall` is an error in an installation, which starts recovery in the same
process over unsynced state; `FailNewFile` is the error path of
`install_file_impl`, which also removes the temporary. All three may happen
during clean-up and during recovery. After a stop or a loss of power anyone may
call recovery, or, if no transaction directory is there, begin again.

### The session

`PlaylistStore` is what callers may rely on: each call that succeeds acts on
the playlists at once. `EditSession` has the queues of the code (`removals`,
`additions`, `playlistEdits`), one action per public call with its early
returns, and the merging of edits of one playlist; a call that fails leaves the
queue alone. `Store` maps the queue to the playlists it stands for.
`EditSessionProofs` proves that the queue implements the promise.

### Staging

`Staging` is `stage_sqlite` and `stage_classic` as a sequence of steps, one for
each pass that writes outputs: `Capture` and `BackUp` (the two fingerprints),
`Resolve` and `Allocate` (`resolve_additions` and its loop), `EditDatabase`,
`RemoveFromCdb`, `ReindexArtwork`, `AddToCdb`, `AppendRecords`, `AppendFrames`,
`Verify`. Every step reads what its function reads: `live`, the device as it is
now; `original`, the host snapshot; `library`, what was read when the device was
opened; or `bundle`, what was staged before. Between any two steps another
program may change the device (`InstalledByAnother`). `ArtworkStore` has the
ArtworkDB: records that refer, in each format, to a slot of its `.ithmb` file;
a slot holds an image. Repacking, allocation and appending are its operators.
Their loops pick elements of a sequence in order, which is `Selected` of
`Selection`, a recursive function that proofs can expand.

### The SQLite databases

`SqliteTables` has the tables that refer to each other (item, album, artist,
genre, containers, memberships, companion rows) as functions from keys to rows,
and one operator for each statement or group of statements that changes them.
`SqliteEdit` runs edits on them: removal, addition, playlists, then
`validate_semantics`, which compares what is read back with the request, then
the installation, after which the next edit begins.
`add_tracks_to_staged_databases` is one action per turn of its loop (`AddTrack`)
and one for what follows the loop (`IndexTracks`); `edit_staged_playlists`
likewise (`EditPlaylist`, in the order of the ids, as its `BTreeMap` is walked,
and `CheckPlaylists`). `SortKey` gives each name the rank of its normalized
form; equal ranks are equal forms. `SoundLibrary` says what the properties ask
of an installed generation and what the opened one is assumed to be;
`ListsSound` adds what is assumed of its containers, and `SoundQueue` what a
session queues.

### The binary databases

`BinaryTables` has the records of an iTunesDB or of the payload of an iTunesCDB:
tracks, albums, and the playlist datasets 2, 3 and 5 with their lists, items,
sorted indexes (type 52) and jump tables (type 53). Its operators are the
rewrites of `cdb_edit.rs`, `cdb_add.rs` and `classic_edit.rs`.
`BinaryPodcasts` is `sync_podcasts`. `BinaryEdit` chains them as
`stage_classic` does, and for an iTunesCDB as `stage_sqlite` does, including
the file each addition starts from (`AdditionBase`). What the loops of the code
pick out of a sequence is `Selected`, as in the artwork, and the slots of a
sorted index are given by the rank of each track, so that proofs can expand
both. `SoundDatabase` says what an edit finds and has to leave, `SoundIndexes`
the same of the sorted indexes of the masters. A record has the string fields
it is stored with (`fields`) and the length of its header, on which it depends
what `build_mhit` can write at all: a record has room for a media type from 212
bytes (`KindRoom`), for an album id from 292 (`AlbumRoom`) and for an artist
reference from 484 (`RefRoom`), and what has no room is read back as 0. The
length is that of the first record, or by the version of the database if there
is none (`HeaderSize`). The album of an addition is looked up and written by its
album artist, or else by its artist (`AlbumArtist`); `given` tells an absent
album artist or genre from an empty one.

## 4. Properties

| Property | Says | About |
|---|---|---|
| `TypeOK` | types, and every loop index within the outputs and deletions | the reverse loops of recovery |
| `JournalProof` | whichever journal a loss of power leaves, it tells the truth about whatever targets it leaves | the order of every rename, append, unlink and sync against `write_journal` |
| `Atomic` | without a transaction directory the library is all old or all new | the whole |
| `Recoverable` | a recovery that is called finds a state it accepts | `validate_recovery_state` against the states interruptions leave |
| `OriginalKept` | while a rollback may be asked for, its bytes are on the device | rename and append strategies, `release_recovery_space` |
| `NoDebris` | an open device has no hidden temporary, now or after a loss of power | `cleanup_interrupted_temporaries`, `install_file_impl` |
| `DeletionsStick` | the media of removed tracks never comes back to a library that has committed without it | one sync of all unlinks before `Validating` in `install_inner` |
| `Recovered` | a pending transaction is resolved once interruptions end | the whole (liveness) |
| `InstallsAtomically` | every behaviour is one of `AtomicInstall` | refinement |
| `IInv` | the inductive invariant | the proofs |
| `Strengthened` | what the later proofs add to it: the directory, the temporaries, the journals a settled generation may have, the files behind every journal | every file system call against the journals recovery may read |
| `ActsImmediately` | the queue means what applying every successful call at once would have given | merging of playlist edits (refinement of `PlaylistStore`) |
| `ReadyToStage` | a session that opened never fails to stage for lack of a profile, a library or an identity | `EditSession::new` against the checks of staging |
| `CreationsAreNew` | a queued creation never shares its id with a playlist of the library | `create_playlist`, `delete_playlist` |
| `OneGeneration` | tables, companion and artwork of a bundle continue the generation that was opened | the two fingerprints around the live reads |
| `OwnImages` | every track shows its own image after installation | repacking, allocation, reuse |
| `NoUnreferencedSlots` | a repacked store holds the images its records show and nothing else | `SlotMap` |
| `ImageIdsUnique` | image ids stay unique and below the next id; proved, and not among the runs | `base_image_id`, `append_artwork_records` |
| `Installable` | the artwork outputs are those the installer counts | `expected_artwork_outputs` against `output_targets` |
| `RefusedForCause` | nothing is refused late for what an earlier pass has done | the checks inside the passes against each other |
| `RefsIntact` | no row refers to a row that is gone | removal, addition and their order |
| `CountsExact` | stored counts are what counting gives | `update_derived_rows`, twice |
| `RowsEarned` | no album, artist or genre without tracks or twice | lookup by normalized name |
| `BrowseSorted` | browse orders are ranks of the keys they sort by, sort names included | `reindex_browse_orders` |
| `AlbumFollowsPlainArtist` | an album has the rank of its artist, if the artist sorts under the key of its name | the last loop of `reindex_browse_orders`; of every artist (`AlbumFollowsArtist`) it is false, finding 5 |
| `OwnWorkAccepted` | `validate_semantics` accepts what the passes produce | the passes against the check |
| `SoundRequestsPass` | what the session lets through is staged, edit after edit | both databases |
| `MasterComplete` | the master lists every track at its position | removal renumbers, addition rewrites |
| `IndexesWhole`, `IndexesSortedIfStored` | slots are a permutation, jump tables a partition, both what a rebuild gives | `rewrite_mhod52`, `rewrite_mhod53` against `rebuild_*` |
| `MembersExist` | no list of any dataset names a track that is gone | all datasets, the smart lists included |
| `UniversesAgree` | datasets 2 and 3 have lists of the same ids, and an ordinary list is the same wherever it is | `edit_playlists`, `sync_podcasts`, the first list in `add_track` |
| `AlbumsResolve` | a track names the record of its album, by its album artist, or else its artist, or nobody; tracks share an artist reference if and only if they share the artist | `resolve_album` and `append_album` against `build_mhit`, `resolve_artist_id_ref` |
| `GroupsSound` | no empty, dangling or double show group | `sync_podcasts` and when it is called |
| `CompanionFollows` | an iTunesCDB has the tracks the edit asks for | the chain of `write_cdb_additions` |

Some of them name exceptions, because the code has them and no document of the
repository denies them, or they belong to a finding below:

- `OwnImages`, `NoUnreferencedSlots`, `OneGeneration` and `RefusedForCause` say
  nothing of the artwork of an edit that removes and adds artwork at once
  (`MixedArt`): `write_artwork_additions` (`edit/mod.rs:2101`) appends to the
  device's ArtworkDB although its thumbnail files have been repacked, and
  `append_artwork_frames` (`edit/mod.rs:2208`) finds a length that
  `resolve_new_artwork` did not foresee. Without the exception TLC shows
  records that point into the old layout, and edits refused as a change nobody
  made. `OneGeneration` and `CompanionFollows` make the same exception for the
  iTunesCDB, where the run `stale_companion` shows it.
- `RefusedForCause` excepts profiles without writable formats: the result of a
  staging collects the names of rewritten thumbnail files from the database
  (`edit/mod.rs:1588`), so the removal of a track that has an ArtworkDB record
  is refused there although `commit.rs:1036` means to leave its artwork alone.
- `Installable` holds if the library and the fingerprint of `Device::open` are
  of one generation: the library is read first (`device/mod.rs:49`), and what
  another program installs in between leaves counts of the one and records of
  the other. The installer then refuses the bundle.
- `AlbumFollowsPlainArtist` speaks of the artists for whom `edit/add.rs:1211`
  finds the rank: those whose name has the key they sort under. The rest is
  finding 5, with its run `foreign_rank`.
- `AlbumsResolve` compares what is stored. A track whose header has no room for
  an album id has none, and one without an artist reference (0) shares it with
  nobody; records of an older model are like that, and the additions to its
  library too. If no track of the library is stored with an album, the name of
  the record cannot be compared with the track's, and if none is stored with an
  album artist, the artist of the record cannot: it is the addition's album
  artist, which is then written nowhere else.
- `SoundRequestsPass` of the binary database excepts libraries with an episode
  that its Podcasts list does not have: `sync_podcasts` then lists it, and
  `validate_semantics` did not expect that. It also excepts the addition of an
  episode whose record has no room for its media type. Below 212 bytes the type
  is lost and `validate_semantics` refuses the edit; below 179 `build_mhit`
  panics (`cdb_add.rs:1227`), which the model counts as a refusal. An empty
  library of version 18 or below gets there. Of the SQLite databases it excepts
  additions without an artist (`edit/add.rs:432`) and requests whose ids or
  members collide.
- `GroupsSound` speaks of profiles with podcast support; the others are not
  synchronised, so a removal leaves their show headers behind.

`AtomicInstall` knows a generation (`old`, `mixed`, `new`), whether the device
is closed, and whether the generation is settled. It allows a change only on a
closed device that is not settled, gives up only the old generation, and opens
only a settled device. The mapping reads the generation off the live targets,
`closed` off the transaction directory, and `settled` off the journals a loss
of power may leave: none of them asks for a rollback.

## 5. Runs

| Run | Manifest | Bounds | Shows |
|---|---|---|---|
| `power_loss` | new, append, replace, replace; one deletion | 3 losses of power | `TypeOK`, `Strengthened`, `Recoverable`, `OriginalKept`, `Recovered` |
| `failed_calls` | the same | 3 failures | `Recoverable`, `NoDebris`, `Recovered` |
| `interrupted` | new, append, replace; one deletion; torn appends | 2 losses and 2 failures | `IInv`, `JournalProof`, `Atomic`, `DeletionsStick`, `InstallsAtomically` |
| `lost_original` | one replacement | 1 and 1 | violates `OriginalsRemain` |
| `lost_proof` | one replacement | 1 and 1 | violates `ProofOutlivesBackups` |

| Run | Instance | Bounds | Shows |
|---|---|---|---|
| `edit_session` | five profiles, two tracks, a master, a smart and an ordinary playlist | one addition, one new id, two names, two memberships | `TypeOK`, `ReadyToStage`, `CreationsAreNew`, `ActsImmediately` |
| `staging` | three tracks in two albums; every way to share three slots among them, in one format or two; a device without artwork; three kinds of profile | two additions, four sets of removals, one change by another program | `TypeOK`, `OwnImages`, `NoUnreferencedSlots`, `Installable`, `OneGeneration`, `RefusedForCause` |
| `sqlite_edits` | three tracks, one album with a cover, an artist and an album that sort under another name | two edits, any removals, two added tracks at a time with two ids | `RefsIntact`, `CountsExact`, `RowsEarned`, `BrowseSorted`, `OwnWorkAccepted`, `SoundRequestsPass`, `AlbumFollowsPlainArtist` |
| `binary_edits` | seven databases: up to four tracks with an episode, the layouts of datasets 2, 3 and 5, one without tracks, one with short records, one of an early version; Classic and Nano, with and without podcast support | two edits, four sets of removals, two new ids | the ten properties of `BinaryEdit` |
| `foreign_rank` | as `sqlite_edits` | one edit, one addition | violates `AlbumFollowsArtist` |
| `stale_companion` | as `staging`, one removal and one addition | one edit | violates `RemovedFromCdb` |
| `dropped_fields` | a library without genres | two edits, one addition each | violates `IndexesSorted` |

*Bounds.* The manifests hold every kind of output, two of the kind that moves
originals, and a kind before and after each other one, so that loops skip and
resume. An interruption of an installation, one of the recovery and one of the
recovery after it need three; two different causes are mixed in `interrupted`.
`power_loss` and `failed_calls` keep the two causes apart because together they
reach the states of the first two findings below, in which recovery may refuse.
The theorems need no bound.

Two edits in a row are what the models of the databases need: the first leaves
rows, ranks, slots and ids that the second finds, in each order of removal and
addition; two additions make the second meet what the first has created, the
same id included. Three tracks give two that share an album and one that does
not; three slots let a removal leave a gap in the middle that sharing crosses.
Another program changes the device once: a second change that undoes the first
passes both fingerprints, and no lock excludes it (`plan.md:311` plans one), so
with `MaxWrites = 2` TLC finds a bundle that is not of one generation.
`MaxSlot`, `MaxAdditions`, `MaxEdits` and `MaxWrites` are the only bounds in
guards or definitions.

*Deadlock* is not checked: after the last edit a model of a database has nothing
left to do, and a staging that is refused stops. In the transaction, after a
successful installation, or a recovery that refuses, the system really stops.
`Recoverable` and `Recovered` say what a deadlock check would.

*Fairness.* `Recovered` assumes that a running process goes on (`Work`) and
that a user whom `Device::open` answers `RecoveryRequired` calls recovery
(`Retry`). Nobody is assumed to begin an installation, and failures are not
fair; their bounds only say that they end. The other models claim no liveness:
a staging is a straight line of calls that its caller may drop at any point.

*Torn appends.* In `interrupted` recovery may refuse: `append::validate`
compares the tail with the spool byte by byte and does not truncate what it
cannot identify. The device then stays closed with the original prefix intact.
That is fail-safe, and no run calls it an error, but it is why `Recoverable`
and `Recovered` are checked with `TornAppends = FALSE`.

### Where the code and its documents disagree

1. **`lost_original`**. An installation stops after it renamed an original into
   `backup/` and before it synced that directory. Recovery syncs the parents of
   the targets first (`commit.rs:726`), which makes the removal durable. A loss
   of power before the original is restored and synced leaves it under no name.
   `README.md:96` says that full originals remain on the device until commit.
2. **`lost_proof`**. An installation stops after it renamed the `Committed`
   journal into place and before it synced the directory. Recovery believes the
   journal (`commit.rs:557`) and deletes the backups; a loss of power brings
   back the `Validating` journal without them, and recovery then refuses for
   ever. `rename.rs:308` says that clean-up must never erase the only proof
   that no rollback is needed. For `RollingBack` the code repeats the sync.
3. **`stale_companion`**. `stage_sqlite` writes the iTunesCDB without the
   removed tracks, then `write_cdb_additions` (`edit/mod.rs:1944`) reads the
   device's iTunesCDB again and overwrites it. After an edit that removes and
   adds, the companion still has the removed tracks, and it is never compared
   with the tables. `edit/mod.rs:518` says that the records are removed.
4. **`dropped_fields`**. `build_mhit` writes only string fields that some track
   already has (`cdb_add.rs:1052`), the indexes are built from all requested
   ones. Add a track with a genre to a library without genres, and the genre
   index lists it under a genre it does not have; `cdb_add.rs:5` says it
   appears in the correct browse position.
5. **`foreign_rank`**. `reindex_browse_orders` ranks artists by their sort names
   and then looks the rank of an album's artist up by the artist's name
   (`edit/add.rs:1211`). One who sorts as something else is not found: when an
   artist before him goes, his own rank moves and his album keeps the old one. If
   his name is what another artist sorts as, the album gets the rank of that one.
   The program makes such artists itself: it stores the sort name of "The A Team"
   as "a team", which the next reindexing reads as "team". `edit/add.rs:1074` says
   that `artist_order` matches the artist's `name_order`.

Neither of the first two breaks `Atomic` or `JournalProof`: the device stays
closed. They are why two groups of theorems have a hypothesis (section 6).

On one point the documents disagree among themselves, and no run takes a side:
media is unlinked before validation (`commit.rs:442`), so a rollback from there
restores a library that refers to deleted files. `edit/mod.rs:1205` and
`plan.md:322` promise the opposite order; `commit.rs:372` and
`HARDWARE_TESTING.md` declare the deletion immediate by design. What is checked
is that a deletion lasts once the new library does (`DeletionsStick`).

## 6. Proofs

### The transaction

`InstallTransactionProofs` proves, for every number and kind of outputs, every
number of deletions and failures, torn appends or not:

- `Invariance`: `Spec => []IInv`
- `TypeCorrect`: `Spec => []TypeOK`
- `JournalTellsTruth`: `Spec => []JournalProof`
- `OpenDeviceIsWhole`: `Spec => []Atomic`

The assumptions are those of the constants, `VolumeAssumption` and
`BoundsAssumption`.

*The invariant.* `JournalProof` is not inductive: whether a journal may be
published depends on what was made durable before. `IInv` adds, for each group
of program points, which targets are durable (`NewThrough`, `OldAbove`,
`NewRemovedAbove`) and which journals may still be on the disk: while a target
is touched the journal that covers it is the only one (`InvReplacing`,
`InvRestoring`); once an output was attempted no journal that skips the
rollback is left (`Undecided`); the journal in memory is true before it is
written (`Ready`); the directory outlives the journal (`Enclosed`).

*The argument.* Few steps change a target. The lemmas `CalmStep` and its
relatives dispose of the rest: a step that leaves the targets alone or only
settles them (`SettlesKeeps`: syncing can only shrink what may come back)
preserves whatever the invariant says about them. What remains is one lemma per
part of the code, from `WriteJournalStep` to `RestoredStep`. A loss of power
turns a set of possible contents into one of them (`LosePowerEffect`), which is
why the invariant speaks about `disk` and `journalOnDisk` rather than `live`.
`Atomic` follows since without the directory there is no journal, and having no
journal proves that all targets are durable in one generation.

### The directory and the temporaries

`DirectoryProofs` proves, under the same two assumptions:

- `DirectoryInvariance`: `Spec => [](InvDirectory /\ InvTemporaries)`
- `OpenDeviceIsClean`: `Spec => []NoDebris`

`NoDebris` speaks of a device without the transaction directory, so the proof
is about who outlives whom on the disk. `InvDirectory` says that the directory
is durable from `create_sync` to the last barrier of the clean-up;
`DebrisLocated` that only the output in flight has a temporary, until recovery
has looked at every output; `DebrisEnclosed` that a disk without the directory,
or with a journal that ends the transaction, has none. The calls inside the
directory disturb no temporary (`InsideDisturbs`), so few remain:
`write_installation_temporary`, the publication, and the clean-up.

### The refinement

`DirectoryProofs` proves `AtomicInstallation`, `Resyncs => (Spec =>
InstallsAtomically)`, too: every call maps to a step of `AtomicInstall` or a
stutter. Calls that touch no target stutter unless they settle the journals
(`InsideSettles`) or open or close the device (`DirectoryRefines`); a call on a
target may change the generation only where it is unsettled, hence closed
(`UnsettledIsClosed`), and a decided generation is durable (`DecidedGeneration`,
from `JournalProof`), which is what a loss of power needs.

*The hypothesis.* `Resyncs` says that recovery makes the terminal journal it
read durable before it acts on it, which it does if the transaction has appends
(`release_recovery_space` syncs the directory) or if nothing but a loss of power
stopped the process before. It is not a convenience: without appends the
refinement is false. With the manifest `<<"new">>` and one failed call after
the rename of the `Committed` journal TLC finds recovery clean up under a
journal that is not on the disk, while the one that is still asks for a
rollback: finding 2 with another consequence.

### Recoverability

`RestorableProofs` proves, for any manifest and any number of interruptions:

- `RestorableInvariance`: `Steady => (Spec => []InvRestorable)`
- `StrengthenedInvariance`: `Spec => []Strengthened`, which has each part of the
  strengthening under the hypothesis that part needs
- `NeverADeadEnd`: `Steady /\ ~Tears => (Spec => []Recoverable)`
- `OriginalsAreKept`: `Steady /\ Resyncs => (Spec => []OriginalKept)`

*The invariant.* `Recoverable` says that `validate_recovery_state` accepts, and
what it accepts depends on the journal it reads. So the invariant speaks of
every journal that may be found (`FoundJournals`) and says that each is
`Backed`: outputs above its count were not begun (`Untouched`), the one at the
count can be had back from whichever of its names it is under (`Returnable`),
those below are installed and what undoes them is kept (`Undoable`). Backups
and targets are both undurable only between the rename of an original and its
two barriers (`InMotion`). `InvPrepared`, `InvInFlight`, `InvRollback` and
`InvCleanup` say where in the code the outputs are on the way from one of these
to the next; `InvBackups` that no backup exists without `backup/`.

*The argument.* A call of recovery or of an installation is `Still` (it touches
nothing a journal needs), an entry of the directory, or one call on one output.
Still calls keep every journal backed (`StillBacks`); calls on an output are
matched with the journal in memory, which is the only one found while they run
(`MovingBacks`, `InstallingBacks`, `ReturningBacks`, `DiscardingBacks`); and a
journal that is about to be published is backed before it is written
(`PrepareRecords` to `RollBackRecords`). The lemmas on arrivals say from which
calls each program point is reached. `LossNext` carries the invariant over a
loss of power, which turns what may be found into one of its choices.

*The hypotheses.* `Steady`: losses of power and failures are not mixed. Mixed,
the code does lose an original (run `lost_original`). Which of the two causes it
is changes what recovery finds, so `Found` is the disk for a loss of power and
the live names for a killed process; the proof is done once for both. `~Tears`:
a torn append is refused on purpose. For `OriginalsAreKept`, `Resyncs` again:
the property names the journals on the disk, and a killed process followed by
recovery without appends leaves there one that no longer counts.

### The session

`EditSessionProofs` proves, for every library, every set of ids, names and
memberships and every order of calls:

- `SessionTypes`: `Spec => []TypeOK`
- `OpenIsReady`: `Spec => []ReadyToStage`
- `CreationsStayNew`: `Spec => []CreationsAreNew`
- `QueueImplementsStore`: `Spec => ActsImmediately`, the refinement of
  `PlaylistStore`

The assumption is `SessionAssumptions`: the library's playlists have ids of
`Ids`, the tracks without media are tracks, `Unset` is neither a name nor a
membership.

*The invariant.* `SInv` strengthens the three invariants with what the
refinement needs of every queued edit (`EditSound`): a creation is complete and
has an id the library does not use, any other edit is of a playlist that may be
edited. Without the second half a rename merged into a queued update could be a
rename of a locked playlist, which `PlaylistStore` does not allow. That an open
session passed `MayOpen` is the other half: it decides each error of staging
that depends on the device.

*The argument.* Every playlist call either puts one edit into the queue
(`PutEdit`) or takes a creation back: `CreateStep`, `RenameStep`,
`MembersStep`, `DeleteStep`. `PutDeletion`, `PutOther` and `TakenBack` say what
that changes in the playlists the queue asks for, and one lemma per call
(`RenameImplements` and so on) matches it with the action of the store.
`delete_playlist` of what is already deleted is the one stutter.

### The staging

`StagingProofs` proves, for every set of devices, profiles, requests and ids:

- `StagingInvariance`: `Spec => []StagingInvariant`
- `StagingTyped`: `Spec => []TypeOK`
- `RefusalsHaveCause`: `Spec => []RefusedForCause`

and, if the device changes at most once (`MaxWrites <= 1`):

- `ImagesStayOwn`: `Spec => []OwnImages`
- `GenerationsNeverMix`: `Spec => []OneGeneration`
- `SlotsAreReferenced`: `Spec => []NoUnreferencedSlots`
- `ImageIdsStayUnique`: `Spec => []ImageIdsUnique`
- `StagedCanBeInstalled`: `Spec => []Installable`

*The assumptions*, `StagingAssumptions`. `SoundDevice`: on a device every track
has a record in the companion, one record of artwork if it says so and else
none, image ids are apart and below the next one, and the slots that records
name are in their files. `NoUnreferencedSlots` is not assumed: a device may have
gaps, and the removal closes them. `SoundProfile`: a profile that has formats
has those of its devices, since it is chosen by their model. `FreshPids`: a
draw from 2^64 does not collide. `Rivals` are devices as well: the other program
installs generations as sound as these.

*The hypothesis* is needed. `verify_unchanged` compares the end of the staging
with its beginning, and the passes in between read the live companion and the
live artwork. A device that changes and changes back is equal at both ends and
was another one in the middle; with `MaxWrites = 2` TLC shows such a bundle.
`Quiet` is what one change at most gives: a device that equals what was opened
has been that all along.

*The invariant.* `InvOpened` relates the four copies of the device (`live`,
`library`, `opened`, `original`) at every phase. `InvResolved` and `InvLinks`
say that the slots and image ids handed out continue the opened store: the n-th
new image of a format is meant for the slot n after its end, although nothing
is written until several passes later. `InvBundle` gives the outputs of every
phase as functions of what was opened (`BaseArtwork`, `FullArtwork`, `BaseOf`).
The properties then speak of these functions. `RefusedForCause` is part of the
invariant, because no pass may refuse what the one before has made.

*The argument.* The first half is about stores, without the staging:
`Selected` keeps order and takes every position once (`SelectedPlaces`), the
slots of a packed store are those in use (`FirstUses`, the least record of each
slot), and the repacked store is sound and shows every kept track what it
showed. `FramesFit` needs counting: that the frames of a format land where they
were meant to is the number of additions before each (`PlacesCount`). Facts
about every turn of a loop are proved from the least turn at which they fail,
since induction theorems cannot be instantiated. The second half has one lemma
per step, from `CaptureStep` to `VerifyStep`, and one per property
(`StagedImages` and so on).

### The SQLite databases

`SqliteProofs` proves, for every library, every set of tracks that may be asked
for, every playlist edit and any number of edits one after the other:

- `SqliteInvariance`: `Spec => []SqliteInvariant`
- `ReferencesStay`: `Spec => []RefsIntact`
- `CountsStayExact`: `Spec => []CountsExact`
- `RowsStayEarned`: `Spec => []RowsEarned`
- `ListsStaySorted`: `Spec => []BrowseSorted`
- `PlainRanksStayEqual`: `Spec => []AlbumFollowsPlainArtist`
- `RequestInvariance`: `Spec => [](SqliteInvariant /\ RequestInvariant)`
- `OwnWorkIsAccepted`: `Spec => []OwnWorkAccepted`
- `SoundRequestsAreStaged`: `Spec => []SoundRequestsPass`

*The assumptions.* `NamesAssumption`: a name has a sort key. `SqliteAssumption`:
the opened library is a `SoundLibrary`, and what is asked for has its type.
Soundness is what the properties say, and `Coherent`: a track is by the artist
of its album, which is how `insert_track` writes both, and the master list is
hidden, which is why no edit can delete it. The first half is needed: the
removal updates the artists of the removed tracks only, so an artist whose
cover is an album with none of the artist's own tracks would keep that cover
when the album goes. The browse orders of the opened library are assumed sorted
because an edit of playlists alone does not rewrite them. `ListsSound`: the
memberships of each container are numbered from 0 without gaps, as
`validate_relational_invariants` demands of every edit, and there is at most one
podcast list, hidden and other than the master list; with two, an episode would
go into the one with the smaller pid and `validate_semantics` would look for it
in both. The lists that an edit leaves are proved to be so again, which is what
lets edits follow each other. `SoundQueue`: one edit for a playlist, since the
session keeps them in a map, and the random id of a new playlist is neither
the random id of a track added with it nor that of the new podcast list.

*The invariant.* Each property needs the others. That an artist who lost no
track keeps a cover that exists follows from `Coherent` and from every album
having a track; that rows without tracks go, from counting whom the removal
touched; that a lookup which finds nothing makes no second spelling, from
`Earned`. `Consistent` is what every pass keeps of the copy; the orders are
excepted while tracks are added (`Indexed`), since an inserted row takes a rank
without moving the others, and `IndexTracks` has to restore them.

*The argument.* One lemma per pass, over any table: `RemovedIsConsistent`,
`ReindexedIsSound`, `AddedIsConsistent`, `EditedLists`. The removal is taken
aggregate by aggregate (`AlbumsLeft`, `ArtistsLeft`, `GenresLeft` say what is
left), the addition lookup by lookup (`ArtistIn`, `AlbumIn`, `GenreIn`, then
`RowsDerived`), and the reindexing by `RankOrders` and `PositionOrders`: a
rank counts smaller keys, so it orders as the keys do. `Facts` has what these
rest on. `db.size` is a sum over the items, and that it does not depend on
the order in which `MapThenSumSet` takes them would be an induction; it is
proved from a counterexample that is least in the subset order (`SumAdds`).
`SqliteInvariant` was model-checked on the instance of `sqlite_edits` first.

*The request.* `validate_semantics` computes the lists from the request and reads
them back from the tables, where three passes have written them by statements of
their own: the removal renumbers what stays, the addition takes the maximum plus
one, the playlist edit writes positions. `RequestInvariant` says after each turn
of each loop what the copy must be by then: `ListsAsked` and `TracksAsked` after
n additions, `PlaylistsAsked` after the edits whose ids are in `applied`.
`IsList(db, c, s)` ties rows to sequences: the rows of container c are numbered
0..n-1 and the row with the order i carries the element i + 1 of s. For each
statement one lemma says what it makes of a list (`RenumberedList`,
`JoinedList`, `ReplacedList`), and `ListedIs` that such a list is what `Listed`
reads. That removing rows and numbering the rest is filtering the sequence
(`RenumberedList`) rests on `Places`, which says where the elements that
`Selected` takes came from. `SemanticsHold` then compares the two sides list by
list; the one list that all additions join is the master list, since the
podcast list is of its own kind and the others keep their length.
For `SoundRequestsPass`, `RefusedForCause` and `EditRefusedForCause` name what a
refusal must have found in the request, and `RemovalIsValid`,
`AdditionsAreValid` and `PlaylistsAreValid` say that the checks at the end of
each pass find nothing.

### The binary databases

`BinaryProofs` proves, for every layout of the playlist datasets, every set of
tracks and lists, both containers and any number of edits one after the other:

- `BinaryInvariance`: `Spec => []BInv`
- `BinaryTyped`: `Spec => []TypeOK`
- `MastersStayComplete`: `Spec => []MasterComplete`
- `MembersStay`: `Spec => []MembersExist`
- `UniversesStayEqual`: `Spec => []UniversesAgree`
- `CompanionStaysWithTables`: `Spec => []CompanionFollows`
- `AlbumsStayResolved`: `Spec => []AlbumsResolve`
- `IndexInvariance`: `Spec => []IndexInv`
- `IndexesStayWhole`: `Spec => []IndexesWhole`
- `IndexesStaySorted`: `Spec => []IndexesSortedIfStored`

*The assumptions.* `NamesAssumption`: names have sort keys and letters.
`BinaryAssumption`: every opened database is a `SoundDatabase`, the random id of
a new Podcasts list (`Drawn`) is that of no other list, and an edit has one
change for a list. Soundness is what the first three invariants say of the
database, with two additions. `WellFormed` gives records their fields, the roles
of lists among them, and positive track ids, since 0 stands for the header of a
show. `RolesClear`: an id means the same kind of list in both universes, and the
first list of each is its master. The second half is what `cdb_add.rs` relies on
when it takes the first list for the master without looking, the first is what
keeps an edit of an ordinary list from reaching a list of another kind that
has its id. Nothing is assumed of the order of the datasets, how many there are,
or which are missing.

`LinksAssumption` is needed by `AlbumsStayResolved` alone: the opened database is
`Resolved`, which is what the property says of every later one. That holds of
libraries that store no album or no album artist, and of records of any length,
since `Resolved` compares only what is stored. The fields that some track has
can only become fewer as tracks go (`FewerLinked`), and an addition is stored
with fields that some track had before it (`AddedIsLinked`), so what was compared
when a track came is all that is compared later.

`IndexesAssumption` is needed by the last three theorems alone: the indexes of
the opened database's masters are whole, and in order if the library stores
every field (`EveryFieldStored`). Nothing is assumed of which indexes there are.
The condition on the order is that of the property itself: without it the
property is false, which is finding 4.

*The invariant.* `BInv` is `Sound`, that the installed database *and* the one
that is staged are sound between any two passes, with `Typed` and `Following`.
Each part needs the others. Removal renumbers a master by the positions of the
removed items, which gives the order of dataset 1 only if the master had it
before and every id names one track. Addition writes the first list, which is a
master only if roles are clear. `sync_podcasts` replaces the podcast lists of
both universes by lists of the same id, which may be new or taken from one of
them; that this is the id of no ordinary list is `Drawn`. An edit of playlists
leaves the universes equal only if they were, since it rewrites what it finds
(`EditedIds`). `Following` says what the staged tracks are after each pass, which
for an iTunesCDB depends on the file each addition starts from.

*The argument.* The first half is about databases, one lemma per pass:
`RemovedIsSound`, `AddedIsSound`, `EditedIsSound`, `SyncedIsSound`. The
conclusion of each is one operator, `Openable`, so that the second half, one
lemma per action, never looks inside a list. `RemovedIsSound` rests on
`RenumberedMaster`: subtracting from each position the number of removed items
before it is the place of the item among those that stay, which is a fact about
the counts of `Selected`. A dataset that
`Seeded` copies from the other is as sound as that one (`SeededIsSound`), and
`SyncedIsSound` relates each dataset of the result to the one it came from. That
the members of the podcast lists are tracks needs the grouped list
item by item, for which its flattening is described by what its elements come
from, not by where they stand. `LinkInv` carries `Resolved` through the passes
that change tracks or albums. The invariant was model-checked on the instance of
`binary_edits` before it was proved.

*The indexes.* `IndexInv` is `SoundIndexes` of both databases, proved beside
`BInv`, with one lemma for what each pass does to the heads of the lists. The
heart is removal and addition, which treat an index in opposite ways.

- Removal edits it (`rewrite_mhod52`, `rewrite_mhod53`). The new place of slot
  `x` is `Left(G, x)`, `x` less the gone numbers before it, and the same
  arithmetic serves the positions in the slots and the starts of the runs.
  `SlotsWithout`: slots that list every track once do so afterwards.
  `RunsWithout`: runs that divide the slots do so afterwards; a run that becomes
  empty is dropped and moves no other, because `Left` of where it starts is
  `Left` of where it ends (`LeadKept`).
  `OrderWithout`: `Left` is monotone, so what was in order stays in order.
- Addition rebuilds it (`rebuild_mhod52`, `rebuild_mhod53`). A stable sort is
  the one sequence in a strict order (`RanksAre`, `RankedIs`), so an index is
  determined by being whole and in order (`SortedIndexIs`), and the runs of
  `JumpTable` divide its slots (`JumpTableIs`). `HeadWith` says that an index
  built with the fields an addition requested is the one its stored fields give,
  if the library stores every field (`FieldsOfNew`).

Edits of playlists and `sync_podcasts` have to leave each universe the master
it had, a universe seeded from the other included (`EditedIndexes`,
`SyncedIndexes`). The sums over runs are handled by least counterexamples, which
need no induction over data.

### Only model-checked

`Recovered`, since liveness under fairness is beyond the prover.
`DeletionsStick`, whose proof would add the media to the inductive invariant.
Of `BinaryEdit`:

- `GroupsSound`. The grouped list is a flattened sequence whose numbers are a
  fold (`HeadOf`); what both compute for every input is an induction over data.
- `SoundRequestsPass`. `validate_semantics` reads the lists back as flattened
  sequences of datasets (`ReadLists`), in the order of the library; that order is
  the same induction.

## 7. Not modelled

- Journals of versions 2 and 3, which this version no longer writes.
- Verification that changes nothing: bundle and manifest checks before the
  transaction, the target set of a profile, inputs that are not installed,
  symlinks, duplicate paths, file geometry. They restrict the states in which
  the modelled code runs.
- Amounts of space: any write may fail (`Fails`), which includes a full volume,
  but the model does not say that the rollback itself always has room.
- Concurrent processes on the same volume, apart from the exclusion by the
  transaction directory; see the plan.
- Bytes: fingerprints are symbols, so a digest collision or a device that
  returns wrong data is outside the model, as is the fast mode for media, which
  only skips a read-back.
- Bytes of the databases: chunk lengths, signatures, compression, CBK digests,
  text encodings. Fixed vectors and round trips on copied devices test those.
- Columns and fields nothing else depends on: durations, dates, track and disc
  totals, genre ranks.
- In the SQLite databases, track artists and composers: they have tables of
  their own that are kept by the statements that keep `artist`. The artist of an
  addition in `SqliteTables` is its album artist, or else its artist, which is
  what `insert_track` looks up in `artist`; an album artist that is given and
  empty is not among the additions.
- Sort orders of the binary databases other than the modelled ones, and the
  fields only they use. Every record is assumed to have a title and a location
  (`TrackRows`), so `build_mhit` finds two fields to write and its return of an
  empty record (`cdb_add.rs:1155`) is never taken.
- The names of media files, and the random ids: the models take unused ones
  from a set, in order.
- The parent of a playlist: a folder passes for a standard playlist
  (`edit/playlist.rs:228`) and its deletion leaves the parents of its children
  dangling; no document promises otherwise, so no property is about it.
- Jump tables may have several runs of a letter, since `jump_letter` keeps the
  article that `sort_key` strips (`edit/sort.rs:30`); `IndexesWhole` accepts it.
- Resolution of a profile from evidence, paths and mounts, space: see
  `PROJECT.json`.
