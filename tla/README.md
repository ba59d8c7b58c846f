# A verification development for keepass-rs

TLA+ models of the `keepass` crate (`src/src`), checked by TLC on small
instances and proved, where a proof is in reach, by TLAPS for every instance.
Paths below are relative to the repository root `src/`.

## 1. The system

`keepass` reads and writes KeePass databases: KDB (read), KDBX3 (read) and KDBX4
(read and write). A file is a container (header, key derivation, encryption,
integrity, compression) around a document; the document becomes a `Database`
value in memory, which the API edits, merges with another and saves. There are
no threads and no background work. What makes the code hard is elsewhere:

- the database is a set of flat maps that refer to one another by id, in both
  directions, and every call has to leave the two directions in agreement;
- handles (`GroupMut`, `EntryMut`, `AttachmentMut`, `CustomIconMut`) work on
  these maps at a distance, an `EntryMut` may silently be on a *historical*
  version, and an `EntryTrack` keeps state outside the database until it is
  dropped, so that calls interleave with its lifetime;
- merging applies changes in the arbitrary order of a `HashSet`, over several
  passes that see each other's results, and returns early on an error;
- the file formats depend on order and position: binaries are found by their
  position in the pool, protected values by the order in which they consume one
  keystream, groups of KDB by their level; and a file may have been cut off,
  rearranged or half overwritten since it was saved.

### Inventory

| component | state | operations | what it relies on |
|---|---|---|---|
| in-memory database (`src/db/types`) | maps of groups, entries (with history), attachments, custom icons; `Meta`; `deleted_objects`; open trackers | add, edit, move, remove, tracked or not; icons; attachments; compaction; purge of histories | nothing below it |
| merge (`src/db/merge.rs`) | destination and source databases, the log | `merge_icons`, `merge_groups`, `merge_entries`, `merge_history` | times, tombstones, the calls of the in-memory database |
| opening and saving (`src/db/open.rs`, `save.rs`, `src/format/mod.rs`) | a reader or writer, the key | `open`, `parse`, `save`, `get_xml` | containers and XML |
| XML document (`src/format/xml_db`) | the pool of binaries, the inner cipher | `parse_xml`, `to_xml`, conversions per element | compaction, `add_*_with_id` |
| KDBX4 (`src/format/kdbx4`) | outer and inner header fields | parse and dump | HMAC blocks, variant dictionary |
| KDBX3 (`src/format/kdbx3.rs`) | header fields | parse | hashed blocks |
| KDB (`src/format/kdb.rs`) | branch of open groups, fields of the group or entry being read | `parse_groups`, `parse_entries` | `add_group`, `add_attachment` |
| HMAC block stream | position, block index | read, write | |
| variant dictionary | a map | parse, dump | |
| keys (`src/key`) | password, key file, challenge-response | `get_key_elements`, recognising key files | |
| ciphers, key derivation, compression, configuration | none | wrappers and conversions | libraries |
| one-time passwords (`src/db/otp.rs`) | none | parse, value at a time | |
| command line tools (`src/bin`) | a file | purge, rewrite, add or remove a YubiKey, print | opening and saving |

How they interact: containers call the XML reader, which builds the database
with the calls of `src/db/types`; saving compacts a copy of the database and
writes it; merging reads one database and calls the API of the other. There is
no callback other than the closures of `foreach_*_mut` and `edit*`, and no
message; a process that is killed while it writes a file is the only crash.

### What makes each component correct

- **In-memory database.** Groups form one tree spanned from the root, listed by
  child sets and parent pointers alike. Each entry is in exactly one group. Every
  name of an attachment, in live and old versions, has its binary, and an id
  never changes its meaning behind a version's back. Compaction changes ids and
  nothing else. Icons, last-visible hints and `Meta` name things that exist.
  History only grows, at its front, newest first. What a tracked removal takes
  away has a tombstone.
- **Merge.** The result is well formed; nothing changed after its deletion is
  lost, nothing deleted after its last change comes back; merging again changes
  nothing; an outcome does not depend on the order of a `HashSet`.
- **Save and open.** What is read back is what was written, up to compaction.
  Protected values are decrypted with the part of the keystream that encrypted
  them. A truncated or reordered stream is rejected.
- **KDB.** The tree has the levels of the file; each binary goes with its name.
- **Keys.** The same credentials give the same composite key on every path.

## 2. The modules

| module | what it is |
|---|---|
| `DatabaseTypes` | the values a database is made of, and the walks over them that calls share |
| `Containment` | abstract specification: one tree of groups, entries at its nodes |
| `Database` | the in-memory database: one action per mutating call; its properties |
| `MCDatabase` | instances for TLC, and the databases that a file may have been read into |
| `DatabaseTypesProofs` | lemmas about the values and the walks, induction over numbers |
| `DatabaseProofs` | types, tombstones, the groups that `Meta` names, the order of histories; the tree of groups, the placement of entries; `Database` implements `Containment`; attachments, custom icons and hints that something refers to exist, what removals reclaim, what compaction and saving keep |
| `Merge` | two copies of a database, tracked edits of either, and the passes of `Database::merge`; its properties |
| `MCMerge` | what the copies have in common, for TLC |
| `MergeProofs` | the parts of a merge (histories, sets of groups and entries, single edits and passes), the invariants of `Merge` and every property its run checks |
| `Crypto` | hashes, key derivation, ciphers and compression as terms |
| `Keys` | passwords, keyfiles, YubiKeys: the elements of a key and the errors |
| `HmacBlockStream` | the block stream of KDBX4: writing, and reading block by block |
| `Reader` | what the readers share: header, derived keys, decryption, inflation, the document |
| `Kdbx4`, `Kdbx3` | the containers: files as they are written, readers step by step |
| `Kdb` | the reader of the payload of a KDB file |
| `Opening` | `open`, `get_xml`, `get_version` on all formats; the KDB container |
| `Damage`, `MCDamage` | one call on a file to which anything may have happened |
| `OpeningProofs` | lemmas about files and terms: the cells of every file, what a hash, a mac, a cipher or a key says of who made it |
| `DamageProofs` | what is in memory at each step of a call on any file, and whose it is; what opens is what was written |
| `IntactProofs` | files that nothing has happened to: where their parts are, that their header is read, that a wrong key is called one, and that the right key opens them |
| `FileStore` | abstract specification: what a user may rely on when databases are in files |
| `Tools`, `MCTools` | the command line tools one after the other, killed at any step |
| `FilesProofs` | the prefix that is read of a block stream, the groups and entries of KDB, when the tools write |
| `Reopening` | abstract specification: what becomes of a database that is saved and opened |
| `Stored`, `MCStored` | `Database` with `Reopening` as a call of its own |
| `Xml`, `MCXml` | the document: the walks of writer and reader, the keystream |
| `VariantDictionary` | variant dictionaries byte by byte, and what is in them |
| `Conversions` | values as texts in the document |
| `OneTimePassword` | the settings in the URL, codes while the clock runs |
| `Values`, `MCValues` | the instance of the last three |
| `ValuesProofs` | for how long a one-time password is valid |

How they compose:

    Crypto  <- HmacBlockStream, Keys <- Reader <- Kdbx4, Kdbx3 <- Opening (+ Kdb)
    Opening <- Damage   (one call, any file)
    Opening <- Tools    (many calls, files that change)  implements FileStore
    DatabaseTypes <- Database  implements Containment;  Database + Reopening <- Stored
    Reopening <- Xml    (its round trip is Reopening)
    DatabaseTypes <- Merge

`Database` and `Merge` both extend `DatabaseTypes`, so that a move, a removal or
a well-formed database (`IsDatabase`) means the same in both.

### How `Database` corresponds to the code

`groups`, `entries`, `attachments`, `icons`, `deleted` are the maps of `struct
Database`; `meta` holds the four fields of `Meta` that name a group (any subset
is enough for the properties). An entry is the sequence of its versions: version
1 is the live one, version `i + 1` is `history.entries[i - 1]`. Of a record, the
fields that other parts refer to are kept (`parent`, `prev`, `icon`,
`attachments`, `ltve` for `last_top_visible_entry`), with `mtime` and `ltime` for
the modification and location times; every other field is the one value
`content`. `now` is the clock.

An action is one call, by the name of the method; a call that returns an error
without a change is no action, one that returns an error *after* a change is
(`set_icon_custom` has removed the old icon before it finds that the new one does
not exist). A call that panics ends the program; it is no action either, so a guard
leaves it out (the removal of an icon that lists a group which is gone is one, see
`icon_lists`). In the readers a panic is an outcome, `Panic`, beside the errors.
Parameters say which version the handle is on (`i`, 1 for the live one) and
whether the call is made through a tracker (`tracked`).

Trackers: `track_changes` pushes a snapshot on `trackers`, `DropTracker` adds the
top snapshot to the history of its entry, if that is still there. Rust's borrow
rules allow the use of the topmost tracker only; the database as a whole can be
reached from it only by `as_mut().database_mut()`.

`Liberties` names what a caller can do beyond the documented use, so that each
property is checked exactly under the calls that the code promises it for:

- `"historical handle"`: `move_to`, `remove` or `track_changes` on a handle that
  `foreach_entry_mut(.., true)` gave for a historical version;
- `"reach around"`: the database is used while a tracker is open;
- `"remove root"`: `GroupMut::remove` on the root.

Recursion: the group removal visits the least set that contains the group and is
closed under children; it is written so, and not with a `RECURSIVE` operator, so
that it can be proved about. The same holds for the walk to the root.

### How `Merge` corresponds to the code

A database is one record here, with the fields of `NewDatabase`; `dest` is `self`
of `Database::merge`, `source` is `other`. A behaviour has two halves.

*Edits.* `EditDest` and `EditSource` apply one tracked call to a copy: each
operator in `Edited` gives the set of databases that call can make of `d` at time
`t`. The copies do not see each other (identifiers are fresh in both), so it
loses nothing to put all edits of `dest` first; the clock starts again for the
source, so that all interleavings of times are there, equal times too. Only
tracked calls are made, since only they keep the times that merging relies on.
Times are always present (every call of the API sets them).

*Passes.* `MergeIcons`, `AddGroups`, `CondemnGroups`, `AddEntries`,
`RemoveEntries`, `MergeEntry`, `RemoveGroups`, `MergeGroup`, `PlaceGroup` follow
one another as in `merge_icons`, `merge_groups` and `merge_entries`, which
`merge_groups` calls in its middle. Where iterations over a `HashSet` do not see
each other, the whole pass is a step (`AddGroups` adds the least set of groups
that contains those to add and the parents they lack, which is what the stack
of the code reaches in any order). Where an iteration can end the merge with an
error, each element is a step and the order is free. `pc = "error"` leaves
`dest` as it is then: the function has no way back. `orig` remembers `dest`
before the merge, for the properties. The lists that `merge_history` takes from
the back are the recursive function `newest` over prefixes.

Deadlock is not checked in the runs of `MCMerge`: a behaviour ends with the merge.

### How the containers correspond to the code (`Crypto` to `Damage`)

A file is a sequence of *cells*: the version, a field of the header, a mac, the
head of a block, a piece of ciphertext. A cell is the unit that readers tell
apart; what is less than one is the cell `Torn`. Hashes, macs and ciphertexts are
terms that name what they were made from, so a mac verifies exactly if its
inputs are what they were, and a ciphertext opens exactly under its key and, for
a cipher that chains its blocks, behind the cell it was made behind: a damaged
cell garbles one or two cells and leaves the rest. A padding may be accepted by
accident, one time in 256; that is a choice of its own.

`pc` names the stage of `Database::open` (or `get_xml`, `get_version`), `pos` the
next cell, `header`, `masterKey`, `hmacKey`, `inner` the locals of
`decrypt_kdbx4` and `decrypt_kdbx3`, `out` the blocks taken from the stream and
`payload` what was made of them. A step is one header field, one block, one
entry of the inner header, or one of the checks between them in their order
(`Kdbx4Error`). `written` and `origin` serve the properties only.

A field that holds an integer may be `Short`: `LittleEndian::read_u32` and its kin
then panic, wherever the field is read, and the fields of the outer header are read
before its hash and mac are looked at. The same becomes of an inner stream id that a
save gives as `"short"`, of a database whose document makes the reader of it panic
(`Unsound`: a time in fewer than eight bytes of Base64), and of a keyfile with `"odd"`
data as the only element of the key of a KDB file. Where the last byte of a KDB payload
is more than its length, a build that checks overflow panics and another reports
`UnexpectedEof`: both are outcomes.

A document has a beginning, a body and an end; in the body garbage may pass for
text, so that it is the task of the macs and hashes to notice. `Damage` applies
one kind of damage to the file of one save: cut off, a part lost or repeated, two
parts exchanged, another value in a cell, or overwritten up to some cell by an
earlier save of the same database. `OtherKeys` tries some keys on whole files.

`Kdb` reads *any* sequence of fields, which is chosen while it is read. `group`
and `entry` are the locals that the loops of `parse_groups` and `parse_entries`
carry from field to field and, deliberately or not, from entry to entry.

### How `Tools` corresponds to the code

`Plan` lists what each `main` does in turn; every element is a step, `Create` is
`File::create` (which empties the file) and `Overwrite` is
`File::options().write(true)` (which does not: `kp-purge-history` writes over the
old file). A save goes cell by cell, and where it ends within a cell of the old
file that cell is torn. `Crash` is possible before every step. A failed save
leaves what it has written, in the order of `dump_kdbx4`: the header goes out
before the elements of the key and the key derivation are tried. YubiKeys come
and go between the calls that look for them. `may` and `sure` are the history
variables through which `Tools` implements `FileStore`.

### How `Reopening`, `Stored` and `Xml` correspond to the code

`Xml` writes a database as the set of documents that `db_to_xml` can make of it,
since hash maps have no order, each protected value with its place in the
keystream, and reads a document with the walk of `xml_to_db`, which keeps its own
place: a value whose places differ is `Garbled`. The reader's handles are
modelled with the version they are on, so that a history whose uuid is not its
entry's goes where the code puts it. `Reopened` says in a few lines what all this
comes to, and the run `xml` shows that it does; `Stored` then uses it as one step
between the calls of `Database`, where the sequences of calls before a save can
be long.

### How `Values` corresponds to the code

The three modules share a run and nothing else: `about` says which of them a
behaviour is about. `VariantDictionary` computes with bytes, lengths and
positions as `parse` does, and goes through `to_variant_dictionary` and
`try_from` for the parameters of the key derivation. `Conversions` saves and reads
a value over and over; the texts are letters where the code looks at letters and
forms ("Base64 of so many bytes", "a date") where it only asks for the form.
`OneTimePassword` lets a clock run second by second.

### Plan

1. **Core** (`DatabaseTypes`, `Containment`, `Database`, proofs): done.
2. **`Merge`**: done but for attachments in the copies, missing timestamps and a
   second merge from the same source.
3. **Saving and opening** (`Reopening`, `Stored`, `Xml`, `Tools`, `FileStore`): done.
4. **Readers** (`HmacBlockStream`, `Kdbx4`, `Kdbx3`, `Kdb`, `VariantDictionary`): done.
5. **Keys, conversions and one-time passwords**: done, the XML of keyfiles excepted.
6. **Proofs**: every property that the runs check of `Database`, `Stored` and
   `Merge` and that holds, that `Database` implements `Containment`, the tree and
   the entries of KDB, the prefix of the stream, what opens of damaged and of whole
   files, that a tool opens before it writes, and the validity of a one-time password
   are proved. Left: `FileStore`, `NoLatePanic`, and what becomes of values that are
   saved over and over.

## 3. The runs

The constants are model values; two or three of each kind are enough to tell
"this one", "another" and "a third one" apart. In `MCDatabase`, a
behaviour uses the objects of one of the `Scopes` only (`scope`, chosen at its
beginning), so that two instances share a run; `MaxVersions`
bounds the versions of an entry and `MaxTrackers` the open trackers,
`MaxAttachments` the pool, `MaxTime` the clock; the database may stop at any
time, but no run reaches a deadlock, since some call is always possible. In
`MCMerge`, `MaxEdits` bounds the edits of both copies together and `MaxTime` the
clock of each; the two contents besides `NoContent` are interchangeable and
declared symmetric (nothing chooses among them).

| run | question | bounds |
|---|---|---|
| `records` | types; parent pointers and child sets are one tree, an entry is in one group, and every call is a step of `Containment`; a removal, not tracked, leaves no stale name in `Meta`, a tracked one buries what it takes; history keeps everything and is newest first | in one scope 4 groups and 1 field of `Meta`, in the other 2 groups, 1 entry, 3 versions, 1 tracker, 2 moments |
| `attachments` | names, icons and last-visible hints resolve, new ids are unused, removal reclaims, compaction is exact, and so is saving and opening | in one scope 2 entries, 2 names, 2 ids, 2 binaries, 2 versions, from an empty pool and a shared binary; in the other 2 groups, 1 entry, 2 custom icons, from a file in which a group, an entry and its history share an icon |
| `merge` | the merged database is well formed after every pass; only what was deleted goes, it does go, and what changed later returns; the later change and the later move win; no content is lost; icons exist | 3 groups, 1 entry, 1 icon, 3 edits at 2 moments, from 3 databases |
| `opening` | what opens is what was written, with the right key; whole files open, wrong keys are reported; the stream yields a prefix; groups and entries of KDB are put together right; a KDBX4 file makes no call panic once its last block was accepted; every call ends | 17 saves in three formats, 14 keys, every damage of one kind at every cell |
| `tools` | a file written to its end opens, and no file opens to anything that was not saved to it; nothing is written before the database was read | two tools on two paths, a YubiKey, a kill at any cell, 4 initial disks |
| `xml` | a database comes back from its document; what is read from any document is sound | 2 groups, one with a built-in icon and one with a custom one, 2 entries, 2 versions of history, 4 sets of fields, 3 assignments of 2 binaries, all orders of the maps; 11 documents of other programs |
| `values` | dictionaries are read back as they were saved, and not at all without their end; a value that was read once never changes again; a code is valid as long as it says | dictionaries of up to 6 items, those of at most `CutItems` cut at every byte, some 200 buffers of other programs; 2 tags of up to 2 letters out of 4, `MaxSaves` saves; `RunsFor` seconds of the clock, periods up to 4 |

The bounds suffice for the hazards: a cycle needs two groups below the root and
an orphan three; a dangling or reused id needs a version that is not live and a
second entry; a stale icon needs a group or a version that is not the one the
call is made on; a conflict in a merge needs one edit on each side and a third
to set it up (a parent that is gone, a history, a move across a move). For a file,
each layer has at least two units (blocks, chained cells, attachments, header
fields) to lose, repeat or exchange, and one save ends a block at the end of the
document, one within it. Two tools are one that leaves a file behind and one that
finds it. Of the keystream, two protected values of different width on either
side of a point where the order could differ tell any change of order apart:
before and behind an entry's history, a subgroup and another entry. For the
dictionary the boundary lies at the last nine bytes, which every short item
reaches; a clock that runs for several periods of at most four seconds passes
each second of one.

The clock of `Database` may show any moment when a file is opened.
`HistoryNewestFirst` is checked with one tracker at a time, because two nested
trackers of one entry are dropped inside out and give the older snapshot the
newer place. Properties of `merge` that a deletion of groups would make false for
the reason that `merge_lost` shows are stated for merges in which the source
deleted none. `RoundTrip` is stated for KDBX3 documents with at most one binary,
for the reason that `kdbx3_binaries` shows.

Deadlock is not checked where a behaviour ends: with the merge (`MCMerge`), with
the call (`opening`), with the last tool, with the document (`MCXml`), and with
the last save or second (`values`).

Runs that show a disagreement (each checks one property that quotes a line of the
code, and TLC finds it violated):

| run | what happens |
|---|---|
| `freed_ids` | a binary removed while a tracker is open: the snapshot brings the freed id back |
| `icon_lists` | `GroupTrack::remove` removes a group that shows a custom icon, and the icon still lists it: removing the icon would dereference a group that is gone |
| `merge_lost` | the source deletes a group, later the destination adds an entry two levels below it: the merge removes the entry, without a tombstone |
| `panics` | the compression field of an ordinary KDBX4 file is made too short for its integer, and reading it panics, before anything has been checked |
| `kdbx3_binaries` | two binaries in a KDBX3 document: both get id 0, and only the second is kept. The name that refers to 0 shows it, the name that refers to 1 is dropped |

Of the same kind, and in the model, but without a run:

- `move_to`, `remove` and `track_changes` on a historical handle act on that
  version: a move relists the entry, but the live version keeps its parent;
- `GroupTrack::remove` leaves the group in `Meta`;
- `GroupMut::remove` removes the root;
- one tracked move in a copy and no other change ends the merge with
  `EntryModificationTimeNotUpdated`, or the error for groups;
- the source edits an entry twice, the destination not at all: the old live
  version is put on top of a history that has it already;
- a merge during which both sides moved two groups into each other ends in an
  error, with one of them at the root;
- a period of zero in the URL of a one-time password makes `value_at` panic
  (`ValueNow` leaves it out);
- a document with an entry's history under the uuid of an entry that is not there
  makes the reader panic (`"panic"` in `Xml`), and one that names a stale hint at a
  last visible entry is read as it is: `ReadIsSound` is about what was read without
  a panic, and not about hints.

**Fairness.** Only `Damage` states any: `WF_vars(Next)`, for `CallReturns`. One
call of `open` runs in one thread and waits for nothing, so it goes on as long as
it can; the property then says that its loops cannot go on for ever. It does not
say how the call ends: a panic is an end, of which `panics` and `NoLatePanic` speak. Elsewhere
nobody is bound to make the next call, and all properties are safety properties.

**Faults.** A process may be killed between any two writes (`Tools`), and a file
may be damaged in the ways of `Damage`. Writes reach the file in their order:
what a loss of power does to pages not yet written is more than the code says
anything about, but `Damage` has parts lost and exchanged as well.

## 4. The proofs

`TypeCorrect` (`DatabaseProofs`): `Spec => []TypeOK`, for all identifiers, all
liberties and all databases a file may contain. `TypeOK` is inductive as it
stands; one lemma per operator says what it keeps, one per family of actions
that each action keeps the type. The one lemma with arithmetic is `RankType`:
compaction numbers the kept ids from 0 within the bound of the pool.

`TreeCorrect` (`DatabaseProofs`): `Spec => []TreeShape` if nobody removes the
root. `TypeOK /\ TreeShape` is inductive. The argument: parent pointers and
child sets agree (`Agree`) and the root spans (`Spans`). `TargetOutside` carries
the check for a cycle, made on parents, over to the child sets, so the target of
a move is not below the group that moves; then any set closed under children that
contains the root contains the moved subtree as well. Removal takes out a set in
which every group but the topmost has its parent (`SubtreeParents`).

`PlacementCorrect`: `Spec => []EntryPlacement` unless a historical version is
moved; the assumption is needed, since such a move relists the entry but changes
the parent of the old version only.

`DatabaseIsATree` (`DatabaseProofs`): `Spec => ContainmentSpec` under both
assumptions, from the three invariants. What is to show is that the walks of the
code, each over one of its two representations, compute what the abstract tree
says over parents alone: the walk down the child sets finds the groups that have
the removed one on their way up (`BelowIsSubtree`), and every way up ends at the
root (`RootOnTop`). Then there is one lemma per call that changes the tree, and
the lemmas of the two invariants say that all other calls leave it alone.

`EverythingTakenIsBuried` and `MetaIsCleared` (`DatabaseProofs`) need no more than
types: the removal of a group and its tombstones walk the same set, and so do the
removal and the four fields of `Meta`. `OldVersionsStay` is about every call that
rewrites versions: all but the purge and the drop of a tracker keep the number of
versions and the times of the old ones.

`HistoryIsInOrder`: `HistoryNewestFirst`, if no historical version is tracked, moved
or removed, if the trackers of an entry never nest (`NoNesting`), and if histories
were in order when the file was opened (`VersionsInOrder`; nothing in a reader
checks that, so it is assumed). The property is not inductive, since a snapshot is
outside the database while its entry changes. `SnapshotsFit` says where it will
go: it is no newer than the live version, whatever has been done to that since,
and no older than the first version in history; that stays so because only one
tracker of the entry is open, so nothing is put in between.

`NoDanglingAttachment`, `NoIdReused` and `NoDanglingIcon` (`DatabaseProofs`):
`RefsResolve`, `FreshIdUnreferenced` and `IconsResolve`, each for `StoredSpec`, the
database that may be saved and opened at any time, unless it is used behind an
open tracker (the run `freed_ids` shows what happens then). The three cannot be
proved apart. Their invariant (`Inv`) says for live and historical versions, for
groups, and for the snapshots of open trackers alike that what they refer to is
there; that each icon lists the groups that show it, by which `RemoveIcon` finds
them; and that all open trackers are of one entry (`OneTracked`), so that the
removal of that entry through the one on top leaves no snapshot behind whose
binaries are gone. A removal takes out only ids that no other entry uses, and
compaction and saving keep those that are referred to.

The same module has the other properties of `StoredSpec`. `NoStaleHint`: if no hint
at a last visible entry was stale in the file, none ever is, since every removal
clears the hints of all groups, also of those the entry was in before a move.
`RemovalLeavesNoOrphan`: a removal frees exactly the ids that only the removed
entries refer to, in any of their versions (`TakesAlong`); not so on a historical
handle, where the code looks at the names of that version alone.
`CompactionChangesIdsOnly` and `SavingShowsTheSame`: the rank of an id among those
kept is a bijection onto 0 .. n - 1 (`RanksNumber`, counted with cardinalities), so
a name finds under its new id what it had under the old one. Both rest on
`NoDanglingAttachment`: compaction drops a name without a binary, so that it would
change what is shown if there were one.

**Merging.** Each property that the run `merge` checks is a theorem of
`MergeProofs`, for every number of groups, entries, versions, edits and moments.
The proofs are in two layers. The first says what the parts of a merge
do to a well-formed database (`Formed`): single edits (`EditOf`), the sets of
groups that a pass adds or removes, the entry or group that it visits.
The second first shows that both copies stay well formed and that all that is
still queued is there (`TreeInv`, which gives `MergeIsATree`); then that under it
each step is one of a handful that are said in terms of the properties
(`StepsAre`); and from these one invariant per question, each relative to `TreeInv`:

- `DeletionsInv` (`OnlyDeletedGo`, `DeletionsDoArrive`): without a deletion of
  groups no group is condemned, and entries are as they were before the merge
  until the pass that removes them;
- `EntriesInv` (`NewestDoesWin`, `VersionsAreKept`): each entry of both is either
  still to visit and unchanged, or settled. It needs `HistoriesTell`: if the live
  versions of the two sides have different times, one side has a history, so that
  no version is overwritten without a copy of it;
- `GroupsInv` (`LaterMoveDoesWin`): a group is where it was until it is visited
  (`SamePlace`), afterwards where the later of the two moves put it or queued for
  that (`GroupSettled`), and nothing else is queued (`MoveMeant`);
- `ReturnsInv` (`LaterChangesDoReturn`): until groups are condemned, the tombstones
  are those from before the merge, and `get_last_update` of a group is no earlier
  than any entry in it, so the group of an entry that must return is added before
  it. The maximum it takes exists because the source is finite;
- `IconsInv` (`MergedIconsDoExist`): while copies are edited, the icons of neither
  are buried in either, so that the destination then gets those it lacks.

`HistoriesMerge` says what `merge_history` returns for histories of any length. It
is a recursive function of two lengths; `NumbersInduction`, which says of a *set*
of numbers what induction says of a formula and is proved with the pigeonhole
principle of `FiniteSetTheorems`, gives that the function exists and what it does.
The assumptions are that icons have identifiers of their own (`IdsAssumption`) and
that what the copies have in common is well formed and finite and has no tombstone
of an icon that is there (`AncestorsAssumption`, which TLC evaluates for `MCMerge`).

`LevelsMakeTheTree` (`FilesProofs`): `KdbSpec => []ParentsByLevel` for files with any
groups, levels and fields. The invariant adds what the branch is
(`BranchRight`): the root only ever at its beginning, at place i a group of level
i - 1, and no group that was read after that one has a level below i. So the last
group on the branch, cut to the level of the new one, is the nearest one above it.

`EntriesAreTheirOwn`: `KdbSpec => []EntriesOwn`. `parse_entries` clears only the half
of a pair that it has used, so the other half stays for the next pair and the next
entry. The invariant (`Carries`) says for each of the two orders that the half of
the other kind never waits, that the one that waits is the last of the section, and
that the attachments are what the closed pairs describe (`Described`).
`PairDescribed` is the step: one more pair adds one name or replaces its content.

`DatabaseReadFirst`: `Spec => OpenedFirst` for `Tools`. Whatever is left of the plan
of a tool, an element that writes has one that reads before it unless a database
is there (`ReadFirst`).

`OnlyAPrefixIsRead`: `BlockSpec => []PrefixOfWritten` for
any file and any size and number of blocks, if no mac in it is forged
(`Unforged`, which `NothingForged` below proves for the files of `Damage`). The invariant
is that `index` counts the accepted blocks while reading goes on, so that a block
that verifies at `index` is the next one that was written.

**Opening.** `OpenedAsWritten` (`DamageProofs`): `Spec => []OpenedIsWritten` for
`Damage`: whatever has become of a file, what opens is what was saved as a whole,
and the key has the parts of the one it was saved with. It holds for every set of
saves (`IsSave`: any cipher, compression, inner cipher, key derivation, layout of
the header, attachments and size of blocks), of keys (`IsKey`) and of devices.
The two assumptions of `Damage` say what a configuration and a key can be, no more:
a key that a file is written with has elements, the older formats have no
attachments beside the document, nobody's password is what a device answers.

The argument, in the order of `OpeningProofs` and `DamageProofs`:

- what a term tells: two hashes, macs or ciphertexts that are equal were made of
  the same arguments, and two keys that give the same composite key have the same
  parts (`SameParts`). That takes case distinctions, since the elements of a key
  are a sequence without names; only the kinds of the terms tell a keyfile from a
  response;
- what a file is made of: every cell of every file in `Found` is one of the save,
  of the earlier save, or so damaged that nothing secret is in it (`Genuine`): no
  random number, mac or ciphertext that nobody made;
- what is in memory at each step (`OpeningInv`). It has three parts: what stays
  (`FileInv`), that a key for the stream was only ever derived from a whole header
  (`StreamKeyInv`), and one clause for each value of `pc` (`Phases`). In KDBX4 the mac
  over the header already tells the save (`Verified`), and from there on all is a
  prefix of what that save wrote: blocks, the payload but for its last cell, the
  inner header. In KDBX3 and KDB nothing covers the header, so until the start
  bytes or the hash over the payload nothing is known but this: a deciphered cell
  that is no garbage was enciphered with the same key, and so were all before it
  (`Told`). There each clause says that *some* save has the key that was derived.
  The last cell is excepted because padding may be accepted by accident
  (`Decipher`); what comes after then tells: the checksum of GZip, the hash of a
  block, the end of the document.

`OpeningInv` is inductive (`OpeningInvariant`), with one lemma per step. It also
gives `NothingForged`, `Spec => []Unforged`, the assumption of `OnlyAPrefixIsRead`.

`HeadersRead` and `WrongKeysReported` (`IntactProofs`) are about the opposite case, a file
that nothing has happened to. `HeadersRead` is an invariant: in KDBX4 and KDBX3, whatever
the order and the number of the fields, the reader is between two of the fields that
were written, what it retained of each field it passed is what was written, and so
neither an unknown nor a missing field stops it. `WrongKeysReported` is `Spec =>
[]WrongKeyReported`: with the whole header read and its hash right, the only way on from
there with a key of other parts is the error "IncorrectKey". That the mac does not
accept such a key is the lemma `VerifiedHolds` of the invariant above; that nothing else
is found wrong before the mac is compared takes the order of the checks
(`Kdbx4ErrorIs`) and what a saved header says.

`IntactFilesAreOpened` is `Spec => []IntactFilesOpen`: with a key of the same parts as the
one of the save (`RightKey`), nothing stops the reader, and what it returns is all
that was saved; of a KDB file with groups or entries, that or an error of its reader of
fields. The invariant `IntactPlaces` says where the reader is and what it has there: in
KDBX4 at the beginning of one of the blocks, of which every one it passed was accepted
(`IntactBlocks`, over the function from the number of a block to its place in the
stream), then with all of the payload and with all of the document; in KDBX3 with the
key of the save and the values of its header (`Intact3`), then with the payload; in KDB
the same without a header to read. There is one lemma per step, `Intact...`, that
excludes each of its errors. Two things take more than following the code: the
padding that Twofish leaves behind the payload (`WholeOf` allows it at every place, and
GZip, the inner header, the hashed blocks, the document and the cut of the KDB reader
each have to pass over it), and that the random seed of the header tells the save from
the earlier one (`SeedTells`), so that what `OpeningInv` says of some save is said of
this one.

`CodesLast` (`ValuesProofs`): `Spec => []CodeValid` for `Values`. The invariant ties
what is shown to the time of its making; the rest is the arithmetic of quotient and
remainder, and that the last of several periods in a URL is a number, as
`TOTP::from_str` has checked all of them (`UrlsAssumption`: the numbers of a pair are
unsigned).

The assumptions are those of the modules: the root is a group id, the sentinels
are not identifiers, what a file is read into is well formed
(`OpenedAssumption`), and saves and keys are what they can be (`SavesAssumption`,
`KeysAssumption`). TLC evaluates all of them for the instances of its runs.

Only model-checked: the implementation of `FileStore`, and `NoLatePanic`. Out of
the prover's reach, and left to TLC: `CallReturns`, since liveness under fairness
is; `RoundTrip` and `ReadIsSound`, since `Xml` writes its walks as `RECURSIVE` operators;
`DictionaryReturns` and `ValuesSettle`, since what the parser of dictionaries,
`SplitTags` and `JoinTags` do for inputs of any length takes inductions over data that
they pass on to the folds of the library.

## 5. What is not modelled

- **Data nothing depends on**: contents of entries and groups beyond one value
  (fields in `Xml`), colours, the names of the standard fields, wording, layout.
- **In a merge**: missing timestamps; the log; binaries of merged entries, whose
  ids the code copies as they are ("TODO: attachments"); a second merge.
- **Libraries**: what ciphers, hashes, key derivation, gzip and the TOTP code
  compute; how `quick-xml` treats names, entities and whitespace; the protocol of
  a YubiKey; the ranges of `chrono`, beyond which it panics.
- **Keyfiles in XML**: only their kinds and what comes out of them.
- **Wipes of memory** (`secstr`, `zeroize`): nothing in the state shows them.
- **Dialogues and printing** of the tools; `kp-get-version` is its call.
- **Time of day**: the clock of `Database` and `Merge` is a small number, and does
  not go back.

Identifiers are unique when they are new (`Uuid::new_v4`).
