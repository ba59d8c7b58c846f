------------------------------ MODULE Database ------------------------------
(***************************************************************************)
(* The in-memory database under every sequence of calls of its mutating    *)
(* API: the flat maps of groups, entries, binaries and custom icons, the   *)
(* metadata that names groups, the tombstones, and the EntryTrack values   *)
(* that are open.                                                          *)
(*                                                                         *)
(* One action is one call.  An open EntryTrack holds a snapshot of its     *)
(* entry outside the database and adds it to the history when it is        *)
(* dropped, so opening and dropping are two actions, and what the caller   *)
(* does in between interleaves with them.  Rust's borrow rules make open   *)
(* trackers a stack, of which only the top can be used.                    *)
(***************************************************************************)
EXTENDS DatabaseTypes

CONSTANTS
    OpenedDatabases,    \* databases a file may have been read into
    Liberties,          \* what callers do beyond the intended use
    MaxVersions,        \* bound: versions of an entry plus open trackers
    MaxTrackers,        \* bound: trackers open at once
    MaxTime             \* bound: ticks of the clock

VARIABLES
    groups, entries, attachments, icons,    \* Database's maps
    meta,                                   \* Meta's group uuids
    deleted,                                \* deleted_objects: id -> time
    trackers,                               \* open EntryTracks, the last one on top
    now                                     \* Times::now()

containers == <<groups, entries>>
vars == <<groups, entries, attachments, icons, meta, deleted, trackers, now>>

\* "historical handle": a call documented to act on the main entry is made
\* through a handle on a version of its history.
\* "reach around": while a tracker is open the rest of the database is used,
\* through as_mut().database_mut().
\* "remove root": GroupMut::remove is called on the root group.
LibertyNames == {"historical handle", "reach around", "remove root"}

ASSUME LibertiesAssumption == Liberties \subseteq LibertyNames
ASSUME BoundsAssumption == MaxVersions \in Nat /\ MaxTrackers \in Nat /\ MaxTime \in Nat

ASSUME OpenedAssumption == \A d \in OpenedDatabases : IsDatabase(d)

Init ==
    /\ \E d \in OpenedDatabases \cup {NewDatabase} :
          /\ groups = d.groups /\ entries = d.entries
          /\ attachments = d.attachments /\ icons = d.icons
          /\ meta = d.meta /\ deleted = d.deleted
    /\ trackers = <<>>
    /\ now \in 0 .. MaxTime

----------------------------------------------------------------------------
(* Who may be called.                                                      *)

Top == trackers[Len(trackers)]

Unborrowed == trackers = <<>> \/ "reach around" \in Liberties

\* A version that attachment_referrers or custom_icon_referrers returns
IsReferrer(v) == RefIds(v) \cap DOMAIN attachments # {} \/ v.icon \in DOMAIN icons

\* The top tracker's entry: the calls of EntryTrack
IsTracked(e) == trackers # <<>> /\ Top.entry = e /\ e \in DOMAIN entries

\* An EntryMut on version i of e is at hand: on the live version from the
\* database or from the tracker on top, on an older one through what it
\* refers to (foreach_entry_mut of a binary or an icon).
HasHandle(e, i) ==
    /\ e \in DOMAIN entries
    /\ i \in DOMAIN entries[e]
    /\ IF i = 1 THEN Unborrowed \/ IsTracked(e)
                ELSE Unborrowed /\ IsReferrer(entries[e][i])

\* A call on version i of e, made through the tracker if `tracked`
CanEdit(e, i, tracked) ==
    IF tracked THEN i = 1 /\ IsTracked(e) ELSE HasHandle(e, i)

\* A call meant for the main entry
CanCallOnMain(e, i, tracked) ==
    CanEdit(e, i, tracked) /\ (i = 1 \/ "historical handle" \in Liberties)

SetVersion(e, i, v) == entries' = [entries EXCEPT ![e][i] = v]

\* A tracked change stamps the entry
Stamped(v, tracked) == IF tracked THEN [v EXCEPT !.mtime = now] ELSE v

----------------------------------------------------------------------------
(* Groups.                                                                 *)

AddGroup(p, g) ==
    /\ Unborrowed
    /\ g \notin DOMAIN groups
    /\ groups' = AddGroupTo(groups, p, g, now)
    /\ UNCHANGED <<entries, attachments, icons, meta, deleted, trackers, now>>

AddEntry(p, e) ==
    /\ Unborrowed
    /\ e \notin DOMAIN entries
    /\ groups' = [groups EXCEPT ![p].entries = @ \cup {e}]
    /\ entries' = Put(entries, e, <<NewVersion(p, now)>>)
    /\ UNCHANGED <<attachments, icons, meta, deleted, trackers, now>>

\* Assignments to the public fields; GroupTrack::edit also stamps the group
EditGroup(g, c, tracked) ==
    /\ Unborrowed
    /\ groups' = [groups EXCEPT ![g].content = c, ![g].mtime = IF tracked THEN now ELSE @]
    /\ UNCHANGED <<entries, attachments, icons, meta, deleted, trackers, now>>

\* set_icon_none's care for the back-references, for each group of S
Unreference(S) ==
    [c \in DOMAIN icons |->
       [icons[c] EXCEPT !.groups = @ \ {g \in S : groups[g].icon = c}]]

SetGroupIcon(g, icon) ==
    /\ Unborrowed
    /\ icon \in {None} \cup BuiltIns
    /\ icons' = Unreference({g})
    /\ groups' = [groups EXCEPT ![g].icon = icon]
    /\ UNCHANGED <<entries, attachments, meta, deleted, trackers, now>>

\* The old icon is gone also when there is no icon c and the call fails.
SetGroupIconCustom_NoBackref(g, c) ==
    /\ Unborrowed
    /\ icons' = Unreference({g})
    /\ groups' = [groups EXCEPT ![g].icon = IF c \in DOMAIN icons THEN c ELSE None]
    /\ UNCHANGED <<entries, attachments, meta, deleted, trackers, now>>
SetGroupIconCustom(g, c) ==
    /\ Unborrowed
    /\ LET cleared == Unreference({g})
       IN icons' = [x \in DOMAIN icons |->
                      [cleared[x] EXCEPT !.groups = @ \cup (IF x = c THEN {g} ELSE {})]]
    /\ groups' = [groups EXCEPT ![g].icon = IF c \in DOMAIN icons THEN c ELSE None]
    /\ UNCHANGED <<entries, attachments, meta, deleted, trackers, now>>

\* A new uuid: one that nothing mentions yet
IsFreshIcon(c) ==
    /\ c \notin DOMAIN icons \cup DOMAIN deleted
    /\ c \notin IconMentions(groups, entries)
    /\ \A k \in DOMAIN trackers : trackers[k].historical.icon # c

SetGroupIconCustomNew(g, c) ==
    /\ Unborrowed
    /\ IsFreshIcon(c)
    /\ icons' = Put(Unreference({g}), c, [groups |-> {g}, mtime |-> now])
    /\ groups' = [groups EXCEPT ![g].icon = c]
    /\ UNCHANGED <<entries, attachments, meta, deleted, trackers, now>>

\* GroupTrack::move_to also records when
MoveGroup(g, q, tracked) ==
    /\ Unborrowed
    /\ CanMoveGroup(groups, g, q)
    /\ groups' = LET moved == MoveGroupTo(groups, g, q)
                 IN [moved EXCEPT ![g].ltime = IF tracked THEN now ELSE @]
    /\ UNCHANGED <<entries, attachments, icons, meta, deleted, trackers, now>>

\* What both removals of the groups S under g do: the entries go with their
\* binaries, unless an entry elsewhere uses them too
RemoveSubtree(g, S, E) ==
    /\ groups' = UnlistEntries(DropGroups(groups, g, S), entries, E)
    /\ entries' = Without(entries, E)
    /\ attachments' =
          Without(attachments, FreedBy(entries, UNION {RefIdsOf(entries, e) : e \in E}, E))

\* Meta's fields that name one of the groups S removed under g
ClearedMeta_TopOnly(g, S) == [f \in MetaFields |-> IF meta[f] = g THEN None ELSE meta[f]]
ClearedMeta(g, S) == [f \in MetaFields |-> IF meta[f] \in S THEN None ELSE meta[f]]

\* GroupMut::remove
RemoveGroup(g) ==
    /\ Unborrowed
    /\ g = Root => "remove root" \in Liberties
    /\ LET S == Subtree(groups, g)
       IN /\ RemoveSubtree(g, S, EntriesUnder(groups, S) \cap DOMAIN entries)
          /\ icons' = Unreference(S)
          /\ meta' = ClearedMeta(g, S)
    /\ UNCHANGED <<deleted, trackers, now>>

\* Tombstones for the objects X
Bury_KeepsOld(X) == [x \in DOMAIN deleted \cup X |-> IF x \in DOMAIN deleted THEN deleted[x] ELSE now]
Bury(X) == [x \in DOMAIN deleted \cup X |-> IF x \in X THEN now ELSE deleted[x]]

\* GroupTrack::remove
TrackedRemoveGroup(g) ==
    /\ Unborrowed
    /\ g # Root
    /\ LET S == Subtree(groups, g)
           E == EntriesUnder(groups, S) \cap DOMAIN entries
       IN /\ RemoveSubtree(g, S, E)
          /\ deleted' = Bury(S \cup E)
    /\ UNCHANGED <<icons, meta, trackers, now>>

----------------------------------------------------------------------------
(* Entries.                                                                *)

EditEntry(e, i, c, tracked) ==
    /\ CanEdit(e, i, tracked)
    /\ SetVersion(e, i, [Stamped(entries[e][i], tracked) EXCEPT !.content = c])
    /\ UNCHANGED <<groups, attachments, icons, meta, deleted, trackers, now>>

\* The list that loses the entry is that of the parent the version names.
MoveEntry(e, i, q, tracked) ==
    /\ CanCallOnMain(e, i, tracked)
    /\ entries[e][i].parent \in DOMAIN groups
    /\ LET v == entries[e][i]
       IN /\ groups' = RelistEntry(groups, e, v.parent, q)
          /\ SetVersion(e, i, [v EXCEPT !.parent = q, !.prev = v.parent,
                                        !.ltime = IF tracked THEN now ELSE @])
    /\ UNCHANGED <<attachments, icons, meta, deleted, trackers, now>>

\* The ids that a removal through version i of e looks at: those of the
\* version's own history, which a historical version does not have
IdsToDrop_LiveOnly(e, i) == RefIds(entries[e][i])
IdsToDrop(e, i) == IF i = 1 THEN RefIdsOf(entries, e) ELSE RefIds(entries[e][i])

RemoveEntry(e, i, tracked) ==
    /\ CanCallOnMain(e, i, tracked)
    /\ Live(entries, e).parent \in DOMAIN groups
    /\ attachments' = Without(attachments, FreedBy(entries, IdsToDrop(e, i), {e}))
    /\ groups' = UnlistEntries(groups, entries, {e})
    /\ entries' = Without(entries, {e})
    /\ IF tracked
         THEN /\ deleted' = Bury({e})
              /\ trackers' = SubSeq(trackers, 1, Len(trackers) - 1)
         ELSE UNCHANGED <<deleted, trackers>>
    /\ UNCHANGED <<icons, meta, now>>

SetEntryIcon(e, i, icon, tracked) ==
    /\ CanEdit(e, i, tracked)
    /\ icon \in {None} \cup BuiltIns
    /\ SetVersion(e, i, [Stamped(entries[e][i], tracked) EXCEPT !.icon = icon])
    /\ UNCHANGED <<groups, attachments, icons, meta, deleted, trackers, now>>

\* As for groups, a failing call has removed the old icon; it leaves no stamp.
SetEntryIconCustom(e, i, c, tracked) ==
    /\ CanEdit(e, i, tracked)
    /\ LET v == entries[e][i]
       IN SetVersion(e, i, IF c \in DOMAIN icons
                             THEN [Stamped(v, tracked) EXCEPT !.icon = c]
                             ELSE [v EXCEPT !.icon = None])
    /\ UNCHANGED <<groups, attachments, icons, meta, deleted, trackers, now>>

SetEntryIconCustomNew(e, i, c, tracked) ==
    /\ CanEdit(e, i, tracked)
    /\ IsFreshIcon(c)
    /\ icons' = Put(icons, c, [groups |-> {}, mtime |-> now])
    /\ SetVersion(e, i, [Stamped(entries[e][i], tracked) EXCEPT !.icon = c])
    /\ UNCHANGED <<groups, attachments, meta, deleted, trackers, now>>

----------------------------------------------------------------------------
(* Attachments.                                                            *)

\* The binary a name stood for before loses every name the version has for it.
AddAttachment(e, i, n, b, tracked) ==
    /\ CanEdit(e, i, tracked)
    /\ \E id \in AttachmentIds :
          /\ IsNextFree(attachments, id)
          /\ attachments' = Put(attachments, id, b)
          /\ LET v == Stamped(entries[e][i], tracked)
                 m == Put(v.attachments, n, id)
             IN SetVersion(e, i, [v EXCEPT !.attachments =
                    IF n \in DOMAIN v.attachments THEN ForgetId(m, v.attachments[n]) ELSE m])
    /\ UNCHANGED <<groups, icons, meta, deleted, trackers, now>>

\* The binary stays in the pool.
RemoveAttachmentByName_Frees(e, i, n) ==
    /\ CanEdit(e, i, FALSE)
    /\ n \in DOMAIN entries[e][i].attachments
    /\ attachments' = Without(attachments, {entries[e][i].attachments[n]})
    /\ SetVersion(e, i, [entries[e][i] EXCEPT !.attachments = Without(@, {n})])
    /\ UNCHANGED <<groups, icons, meta, deleted, trackers, now>>
RemoveAttachmentByName(e, i, n) ==
    /\ CanEdit(e, i, FALSE)
    /\ SetVersion(e, i, [entries[e][i] EXCEPT !.attachments = Without(@, {n})])
    /\ UNCHANGED <<groups, attachments, icons, meta, deleted, trackers, now>>

RemoveAttachmentById(e, i, id) ==
    /\ CanEdit(e, i, FALSE)
    /\ SetVersion(e, i, [entries[e][i] EXCEPT !.attachments = ForgetId(@, id)])
    /\ UNCHANGED <<groups, attachments, icons, meta, deleted, trackers, now>>

\* Every version that refers to the binary shows its new data.
EditAttachment(id, b) ==
    /\ Unborrowed
    /\ attachments' = [attachments EXCEPT ![id] = b]
    /\ UNCHANGED <<groups, entries, icons, meta, deleted, trackers, now>>

\* AttachmentMut::remove
RemoveAttachment(id) ==
    /\ Unborrowed
    /\ entries' = MapVersions(entries, LAMBDA v : [v EXCEPT !.attachments = ForgetId(@, id)])
    /\ attachments' = Without(attachments, {id})
    /\ UNCHANGED <<groups, icons, meta, deleted, trackers, now>>

CompactAttachments ==
    /\ Unborrowed
    /\ LET kept == KeptIds(entries, attachments)
       IN /\ entries' = CompactedEntries(entries, kept)
          /\ attachments' = CompactedPool(attachments, kept)
    /\ UNCHANGED <<groups, icons, meta, deleted, trackers, now>>

----------------------------------------------------------------------------
(* Custom icons, metadata, trackers, the clock.                            *)

\* CustomIconMut::remove finds entries by their icon, groups by the icon's own
\* list; a group on that list that no longer exists ends it in a panic.
RemoveIcon(c) ==
    /\ Unborrowed
    /\ icons[c].groups \subseteq DOMAIN groups
    /\ entries' = MapVersions(entries, LAMBDA v : [v EXCEPT !.icon = IF @ = c THEN None ELSE @])
    /\ groups' = [g \in DOMAIN groups |->
                    [groups[g] EXCEPT !.icon =
                       IF g \in icons[c].groups /\ @ = c THEN None ELSE @]]
    /\ icons' = Without(icons, {c})
    /\ UNCHANGED <<attachments, meta, deleted, trackers, now>>

\* A caller names an existing group, or none, in a public field of Meta.
SetMeta(f, g) ==
    /\ Unborrowed
    /\ meta' = [meta EXCEPT ![f] = g]
    /\ UNCHANGED <<groups, entries, attachments, icons, deleted, trackers, now>>

\* kp-purge-history forgets every history.
PurgeHistory_DropsLive ==
    /\ Unborrowed
    /\ entries' = [e \in DOMAIN entries |-> Tail(entries[e])]
    /\ UNCHANGED <<groups, attachments, icons, meta, deleted, trackers, now>>
PurgeHistory ==
    /\ Unborrowed
    /\ entries' = [e \in DOMAIN entries |-> <<Live(entries, e)>>]
    /\ UNCHANGED <<groups, attachments, icons, meta, deleted, trackers, now>>

\* EntryMut::track_changes copies the version its handle is on.
TrackChanges(e, i) ==
    /\ CanCallOnMain(e, i, FALSE)
    /\ Len(trackers) < MaxTrackers
    /\ Len(entries[e]) + Len(trackers) < MaxVersions
    /\ trackers' = Append(trackers, [entry |-> e, historical |-> entries[e][i]])
    /\ UNCHANGED <<groups, entries, attachments, icons, meta, deleted, now>>

\* Drop of the top EntryTrack; its entry may have been removed meanwhile.
DropTracker ==
    /\ trackers # <<>>
    /\ entries' = IF Top.entry \in DOMAIN entries
                    THEN [entries EXCEPT ![Top.entry] =
                            WithHistory(@, Top.historical)]
                    ELSE entries
    /\ trackers' = SubSeq(trackers, 1, Len(trackers) - 1)
    /\ UNCHANGED <<groups, attachments, icons, meta, deleted, now>>

Tick ==
    /\ now < MaxTime
    /\ now' = now + 1
    /\ UNCHANGED <<groups, entries, attachments, icons, meta, deleted, trackers>>

----------------------------------------------------------------------------
GroupNext ==
    \/ \E p \in DOMAIN groups, g \in GroupIds : AddGroup(p, g)
    \/ \E p \in DOMAIN groups, e \in EntryIds : AddEntry(p, e)
    \/ \E g \in DOMAIN groups, c \in Contents, tracked \in BOOLEAN : EditGroup(g, c, tracked)
    \/ \E g \in DOMAIN groups, icon \in {None} \cup BuiltIns : SetGroupIcon(g, icon)
    \/ \E g \in DOMAIN groups, c \in IconIds : SetGroupIconCustom(g, c)
    \/ \E g \in DOMAIN groups, c \in IconIds : SetGroupIconCustomNew(g, c)
    \/ \E g, q \in DOMAIN groups, tracked \in BOOLEAN : MoveGroup(g, q, tracked)
    \/ \E g \in DOMAIN groups : RemoveGroup(g) \/ TrackedRemoveGroup(g)

EntryNext ==
    \E e \in DOMAIN entries : \E i \in DOMAIN entries[e], tracked \in BOOLEAN :
        \/ \E c \in Contents : EditEntry(e, i, c, tracked)
        \/ \E q \in DOMAIN groups : MoveEntry(e, i, q, tracked)
        \/ RemoveEntry(e, i, tracked)
        \/ \E icon \in {None} \cup BuiltIns : SetEntryIcon(e, i, icon, tracked)
        \/ \E c \in IconIds : SetEntryIconCustom(e, i, c, tracked)
        \/ \E c \in IconIds : SetEntryIconCustomNew(e, i, c, tracked)
        \/ \E n \in Names, b \in Binaries : AddAttachment(e, i, n, b, tracked)

AttachmentNext ==
    \/ \E e \in DOMAIN entries : \E i \in DOMAIN entries[e] :
          \/ \E n \in Names : RemoveAttachmentByName(e, i, n)
          \/ \E id \in AttachmentIds : RemoveAttachmentById(e, i, id)
    \/ \E id \in DOMAIN attachments, b \in Binaries : EditAttachment(id, b)
    \/ \E id \in DOMAIN attachments : RemoveAttachment(id)
    \/ CompactAttachments

TrackerNext ==
    \/ \E e \in DOMAIN entries : \E i \in DOMAIN entries[e] : TrackChanges(e, i)
    \/ DropTracker
    \/ PurgeHistory

OtherNext ==
    \/ \E c \in DOMAIN icons : RemoveIcon(c)
    \/ \E f \in MetaFields, g \in DOMAIN groups \cup {None} : SetMeta(f, g)
    \/ Tick

Next == GroupNext \/ EntryNext \/ AttachmentNext \/ TrackerNext \/ OtherNext

Spec == Init /\ [][Next]_vars

----------------------------------------------------------------------------
(* Properties.                                                             *)

\* The maps, the tombstones and the trackers hold values of their types, and
\* every entry has a live version.
TypeOK ==
    /\ IsMap(groups, GroupIds, Groups)
    /\ IsMap(entries, EntryIds, Seq(Versions) \ {<<>>})
    /\ IsMap(attachments, AttachmentIds, Binaries)
    /\ IsMap(icons, IconIds, Icons)
    /\ meta \in [MetaFields -> GroupIds \cup {None}]
    /\ IsMap(deleted, GroupIds \cup EntryIds \cup IconIds, Times)
    /\ trackers \in Seq([entry : EntryIds, historical : Versions])
    /\ now \in Times

\* Parent pointers and child sets stay in agreement and span the whole map
\* from the root: no sequence of moves, additions and removals leaves a group
\* unreachable, on a cycle, or listed twice (GroupMut::move_to and ::remove).
TreeShape == IsTree(groups)

\* Every entry is listed by the one group it names as its parent
\* (EntryMut::move_to and ::remove).
EntryPlacement == IsPlaced(groups, entries)

\* The groups and entries behave as one tree with entries at its nodes,
\* whatever the walks over child sets and parent pointers do.
Tree == INSTANCE Containment
          WITH parentOf <- [g \in DOMAIN groups |-> groups[g].parent],
               homeOf <- [e \in DOMAIN entries |-> Live(entries, e).parent]

ContainmentSpec == Tree!Spec

\* Snapshots that will become history
Pending == {k \in DOMAIN trackers : trackers[k].entry \in DOMAIN entries}

\* Every attachment name, of a live version, of history, or of a snapshot that
\* is about to become history, has its binary in the pool (EntryMut::remove
\* and AttachmentMut::remove take binaries out of it).
RefsResolve ==
    /\ ReferencedIds(entries) \subseteq DOMAIN attachments
    /\ \A k \in Pending : RefIds(trackers[k].historical) \subseteq DOMAIN attachments

\* An id given to a new binary is one that no version points at: "freed ids
\* must not be reused while any version still points at them" (entry.rs).
FreshIdUnreferenced ==
    [][DOMAIN attachments \subseteq DOMAIN attachments' =>
          \A id \in DOMAIN attachments' \ DOMAIN attachments :
              /\ id \notin ReferencedIds(entries)
              /\ \A k \in Pending : id \notin RefIds(trackers[k].historical)]_vars

\* Every custom icon that a group, a version or a pending snapshot shows exists
\* (CustomIconMut::remove looks for groups only where the icon lists them).
IconsResolve ==
    /\ IconMentions(groups, entries) \subseteq DOMAIN icons \cup BuiltIns \cup {None}
    /\ \A k \in Pending :
          trackers[k].historical.icon \in DOMAIN icons \cup BuiltIns \cup {None}

\* "Remove this group's back-reference from its custom icon (if any) before the
\* group is erased from db.groups, so the back-ref set stays consistent"
\* (group.rs): no icon lists a group that is not there.
ListedGroupsExist == \A c \in DOMAIN icons : icons[c].groups \subseteq DOMAIN groups

\* "Freed ids must not be reused while any version still points at them", for
\* the versions in the database.
FreedIdsNotReused ==
    [][DOMAIN attachments \subseteq DOMAIN attachments' =>
          (DOMAIN attachments' \ DOMAIN attachments) \cap ReferencedIds(entries) = {}]_vars

\* Binaries that no version refers to
Orphans == DOMAIN attachments \ ReferencedIds(entries)

\* The removal of entries, alone or with their group, leaves no binary behind
\* that only they used ("including all its attachments", EntryMut::remove).
RemovalReclaims ==
    [][(DOMAIN entries \ DOMAIN entries') # {} => Orphans' \subseteq Orphans]_vars

\* What the names of an entry's versions stand for, version by version
Shown(es, pool) ==
    [e \in DOMAIN es |-> [i \in DOMAIN es[e] |->
        [n \in DOMAIN es[e][i].attachments |->
            LET id == es[e][i].attachments[n]
            IN IF id \in DOMAIN pool THEN pool[id] ELSE None]]]

\* Compaction changes ids but not one name's binary, in live versions and in
\* history, and leaves exactly the binaries in use, numbered from 0.
CompactionExact ==
    [][CompactAttachments =>
          /\ Shown(entries', attachments') = Shown(entries, attachments)
          /\ Orphans' = {}
          /\ DOMAIN attachments' = 0 .. Cardinality(DOMAIN attachments') - 1]_vars

\* History only grows at its front: what was in an entry's history stays
\* there, in order, until the history is purged or the entry removed
\* (History::add_entry, and the renumbering and clearing of references).
HistoryKept ==
    [][\A e \in DOMAIN entries \cap DOMAIN entries' :
          LET old == Len(entries[e]) new == Len(entries'[e])
          IN \/ new = 1
             \/ /\ new >= old
                /\ \A i \in 2 .. old :
                      entries'[e][new - old + i].mtime = entries[e][i].mtime]_vars

\* As long as the trackers of an entry do not nest, its versions go from the
\* newest to the oldest modification, which is how merge_history reads them.
HistoryNewestFirst ==
    \A e \in DOMAIN entries : \A i \in 2 .. Len(entries[e]) :
        entries[e][i].mtime <= entries[e][i - 1].mtime

\* A removal of a group that leaves no tombstone for it leaves no field of Meta
\* naming it either ("so they don't silently hold stale UUIDs", group.rs).
RemovalClearsMeta ==
    [][\A f \in MetaFields :
          (meta[f] \in DOMAIN groups /\ meta[f] \notin DOMAIN deleted')
              => meta'[f] \in DOMAIN groups' \cup {None}]_vars

TrackedRemoval ==
    \/ \E g \in DOMAIN groups : TrackedRemoveGroup(g)
    \/ \E e \in DOMAIN entries : \E i \in DOMAIN entries[e] : RemoveEntry(e, i, TRUE)

\* A tracked removal leaves a tombstone, of that moment, for every group and
\* entry that disappears, and so does any call that leaves one for some of them
\* (GroupTrack::remove and EntryTrack::remove).
TombstonesComplete ==
    [][\A x \in (DOMAIN groups \ DOMAIN groups') \cup (DOMAIN entries \ DOMAIN entries') :
          (TrackedRemoval \/ deleted' # deleted) => x \in DOMAIN deleted' /\ deleted'[x] = now]_vars

\* The hint at the last visible entry never outlives the entry
\* (EntryMut::remove clears it in every group).
HintsResolve ==
    \A g \in DOMAIN groups : groups[g].ltve \in DOMAIN entries \cup {None}
=============================================================================
