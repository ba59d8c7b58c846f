------------------------------- MODULE Merge -------------------------------
(***************************************************************************)
(* Two copies of a database are edited apart, with change tracking, and    *)
(* then one is merged into the other (Database::merge, src/src/db/merge.rs).*)
(*                                                                         *)
(* A database is one value here, a record as in NewDatabase.  The passes   *)
(* of merge are steps: a pass whose iterations do not see one another is   *)
(* one step, and where they do, or may end the merge with an error, every  *)
(* element is a step and the order is free, as that of a HashSet is.  An   *)
(* error leaves behind what was changed so far.                            *)
(***************************************************************************)
EXTENDS DatabaseTypes

CONSTANTS
    Ancestors,      \* the databases both copies come from
    MaxEdits,       \* bound: edits before the merge
    MaxTime         \* bound: the clock

VARIABLES
    dest, source,   \* the two databases
    now, edits,     \* the clock of the copy being edited, and the edits made
    orig,           \* dest as the merge found it
    pc,             \* the pass of the merge that is next
    todo,           \* what the pass still has to visit
    doomed,         \* to_delete: groups to remove after the entries
    moves           \* moves: groups and where they go in the end

vars == <<dest, source, now, edits, orig, pc, todo, doomed, moves>>

ASSUME MergeBoundsAssumption == MaxEdits \in Nat /\ MaxTime \in Nat
ASSUME IdsAssumption == IconIds \cap (GroupIds \cup EntryIds) = {}
ASSUME AncestorsAssumption ==
    \A d \in Ancestors :
        /\ IsDatabase(d) /\ DOMAIN d = DOMAIN NewDatabase
        /\ IsFiniteSet(DOMAIN d.groups) /\ IsFiniteSet(DOMAIN d.entries)
        /\ DOMAIN d.icons \cap DOMAIN d.deleted = {}

Init ==
    /\ dest \in Ancestors /\ source = dest /\ orig = dest
    /\ now = 1 /\ edits = 0
    /\ pc = "edit dest" /\ todo = {} /\ doomed = {} /\ moves = <<>>

----------------------------------------------------------------------------
(* The edits: what each tracked call makes of a database d at time t.      *)

\* Identifiers are fresh in both copies.
Known(d) == DOMAIN d.groups \cup DOMAIN d.entries \cup DOMAIN d.deleted

\* The live version of e becomes v and the one it was goes into the history
Recorded(d, e, v) ==
    [d.entries EXCEPT ![e] = WithHistory([@ EXCEPT ![1] = v], @[1])]

AddGroup(d, t) ==
    {[d EXCEPT !.groups = AddGroupTo(@, p, g, t)] :
        p \in DOMAIN d.groups, g \in GroupIds \ (Known(dest) \cup Known(source))}

WithEntry(d, p, e, t) ==
    [d EXCEPT !.groups[p].entries = @ \cup {e},
              !.entries = Put(@, e, <<NewVersion(p, t)>>)]

AddEntry(d, t) ==
    {WithEntry(d, p, e, t) :
        p \in DOMAIN d.groups, e \in EntryIds \ (Known(dest) \cup Known(source))}

EditGroup(d, t) ==
    {[d EXCEPT !.groups[x[1]].content = x[2], !.groups[x[1]].mtime = t] :
        x \in {y \in (DOMAIN d.groups) \X Contents : y[2] # d.groups[y[1]].content}}

\* Within GroupMut::edit_tracking a group that moves is stamped, with
\* track_changes().move_to it is not.
MovedAt(gs, g, q, t, stamped) ==
    [MoveGroupTo(gs, g, q) EXCEPT ![g].ltime = t, ![g].mtime = IF stamped THEN t ELSE @]

\* Moves go somewhere else.
MoveGroup(d, t) ==
    {[d EXCEPT !.groups = MovedAt(@, m[1], m[2], t, stamped)] :
        m \in {x \in (DOMAIN d.groups) \X (DOMAIN d.groups) :
                 CanMoveGroup(d.groups, x[1], x[2]) /\ x[2] # d.groups[x[1]].parent},
        stamped \in BOOLEAN}

\* Groups S and entries E are gone, with the binaries only E used
Removed(d, S, E) ==
    [d EXCEPT
       !.groups = LET kept == UnlistEntries(d.groups, d.entries, E)
                  IN [x \in DOMAIN kept \ S |-> [kept[x] EXCEPT !.groups = @ \ S]],
       !.entries = Without(@, E),
       !.attachments =
          Without(@, FreedBy(d.entries, UNION {RefIdsOf(d.entries, e) : e \in E}, E))]

\* Tombstones: those of X at the times f gives
Buried(d, f) ==
    [d EXCEPT !.deleted =
       [x \in DOMAIN @ \cup DOMAIN f |-> IF x \in DOMAIN f THEN f[x] ELSE @[x]]]

RemovedAt(d, S, E, t) == Buried(Removed(d, S, E), [x \in S \cup E |-> t])

RemoveGroup(d, t) ==
    {LET S == Subtree(d.groups, g)
     IN RemovedAt(d, S, EntriesUnder(d.groups, S), t) : g \in DOMAIN d.groups \ {Root}}

EditEntry(d, t) ==
    {[d EXCEPT !.entries =
         Recorded(d, x[1], [Live(@, x[1]) EXCEPT !.content = x[2], !.mtime = t])] :
        x \in {y \in (DOMAIN d.entries) \X Contents : y[2] # Live(d.entries, y[1]).content}}

\* The version v after its entry was put into q at time t
Moved(v, q, t) == [v EXCEPT !.parent = q, !.prev = v.parent, !.ltime = t]

MoveEntry(d, t) ==
    {[d EXCEPT !.groups = RelistEntry(@, x[1], Live(d.entries, x[1]).parent, x[2]),
               !.entries = Recorded(d, x[1], Moved(Live(@, x[1]), x[2], t))] :
        x \in {y \in (DOMAIN d.entries) \X DOMAIN d.groups :
                 y[2] # Live(d.entries, y[1]).parent}}

RemoveEntry(d, t) ==
    {RemovedAt(d, {}, {e}, t) : e \in DOMAIN d.entries}

\* The copy d with the custom icons ics, of which its group g now shows c
Shown(d, g, c, ics, t) ==
    [d EXCEPT !.groups[g].icon = c, !.groups[g].mtime = t,
              !.icons = [x \in DOMAIN ics |->
                 [ics[x] EXCEPT !.groups = IF x = c THEN @ \cup {g} ELSE @ \ {g}]]]

\* GroupMut::edit_tracking with set_icon_custom, on an icon that exists, and
\* set_icon_custom_new
ShowIcon(d, t) ==
    {Shown(d, x[1], x[2], d.icons, t) : x \in (DOMAIN d.groups) \X DOMAIN d.icons}
        \cup {Shown(d, x[1], x[2], Put(d.icons, x[2], [groups |-> {}, mtime |-> t]), t) :
                x \in (DOMAIN d.groups) \X
                          (IconIds \ (DOMAIN dest.icons \cup DOMAIN source.icons
                                         \cup DOMAIN dest.deleted \cup DOMAIN source.deleted))}

\* A group or a version without the icon c
Unshown(v, c) == [v EXCEPT !.icon = IF @ = c THEN None ELSE @]

\* CustomIconMut::remove: no tombstone, and no group is stamped
WithoutIcon(d, c) ==
    [d EXCEPT
        !.icons = Without(@, {c}),
        !.groups = [g \in DOMAIN @ |-> IF g \in d.icons[c].groups THEN Unshown(@[g], c) ELSE @[g]],
        !.entries = [e \in DOMAIN @ |-> [i \in DOMAIN @[e] |-> Unshown(@[e][i], c)]]]

RemoveIcon(d) ==
    {WithoutIcon(d, c) : c \in {x \in DOMAIN d.icons : d.icons[x].groups \subseteq DOMAIN d.groups}}

Edited(d, t) ==
    AddGroup(d, t) \cup AddEntry(d, t) \cup EditGroup(d, t) \cup MoveGroup(d, t)
        \cup RemoveGroup(d, t) \cup EditEntry(d, t) \cup MoveEntry(d, t) \cup RemoveEntry(d, t)
        \cup ShowIcon(d, t) \cup RemoveIcon(d)

\* An edit, after time 0, in the second of the copy's last one or later.  Copies do
\* not see each other, so all edits of dest can come before those of source.
EditDest ==
    /\ pc = "edit dest" /\ edits < MaxEdits
    /\ \E t \in now .. MaxTime : now' = t /\ dest' \in Edited(dest, t)
    /\ edits' = edits + 1
    /\ UNCHANGED <<source, orig, pc, todo, doomed, moves>>

EditSource ==
    /\ pc \in {"edit dest", "edit source"} /\ edits < MaxEdits
    /\ \E t \in (IF pc = "edit dest" THEN 1 ELSE now) .. MaxTime :
          now' = t /\ source' \in Edited(source, t)
    /\ edits' = edits + 1
    /\ pc' = "edit source"
    /\ UNCHANGED <<dest, orig, todo, doomed, moves>>

----------------------------------------------------------------------------
(* What a pass decides on.                                                 *)

Latest(T) == CHOOSE t \in T : \A u \in T : u <= t

\* get_last_update: the group, its entries and its subgroups, no further
LastUpdate_OwnOnly(d, g) == d.groups[g].mtime
LastUpdate(d, g) ==
    Latest({d.groups[g].mtime} \cup {Live(d.entries, e).mtime : e \in d.groups[g].entries}
               \cup {d.groups[x].mtime : x \in d.groups[g].groups})

\* x was deleted in d, and not changed elsewhere after that, at time t
DeletedSince(d, x, t) == x \in DOMAIN d.deleted /\ d.deleted[x] >= t

\* Icons of the source that are new or newer, and icons deleted there
MergedIcons_NewerOnly(d, s) ==
    [d EXCEPT !.icons = [c \in DOMAIN @ |->
       IF c \in DOMAIN s.icons /\ s.icons[c].mtime > @[c].mtime THEN s.icons[c] ELSE @[c]]]
MergedIcons(d, s) ==
    LET added == {c \in DOMAIN s.icons \ DOMAIN d.icons :
                     ~DeletedSince(d, c, s.icons[c].mtime)}
        gone  == {c \in DOMAIN d.icons \ DOMAIN s.icons :
                     DeletedSince(s, c, d.icons[c].mtime)}
        newer == {c \in DOMAIN d.icons \cap DOMAIN s.icons :
                     s.icons[c].mtime > d.icons[c].mtime}
    IN Buried([d EXCEPT !.icons = [c \in (DOMAIN d.icons \ gone) \cup added |->
                                     IF c \in added \cup newer THEN s.icons[c] ELSE @[c]]],
              [c \in gone |-> s.deleted[c]])

\* The groups to add, and the groups above them that have to be there first
WithParents_None(d, s, add) == add
WithParents(d, s, add) ==
    LET new == DOMAIN s.groups \ DOMAIN d.groups
    IN {g \in new : \A S \in SUBSET new :
           add \subseteq S /\ (\A x \in S : s.groups[x].parent \in new => s.groups[x].parent \in S)
               => g \in S}

AddedGroups(d, s) ==
    WithParents(d, s, {g \in DOMAIN s.groups \ DOMAIN d.groups :
                         ~DeletedSince(d, g, LastUpdate(s, g))})

\* An added group brings its own fields, and neither its entries nor where it
\* was before.
WithSubgroups(h, X) == [h EXCEPT !.groups = @ \cup X]

GroupsAdded(d, s) ==
    LET A == AddedGroups(d, s)
        new(g) == [s.groups[g] EXCEPT !.groups = {}, !.entries = {}, !.prev = None]
    IN [d EXCEPT !.groups = [g \in DOMAIN @ \cup A |->
           WithSubgroups(IF g \in A THEN new(g) ELSE @[g], {x \in A : s.groups[x].parent = g})]]

DoomedGroups(d, s) ==
    {g \in DOMAIN d.groups \ DOMAIN s.groups : DeletedSince(s, g, LastUpdate(d, g))}

\* Entries of the source that are new come with their history, and with the
\* ids their attachments have there.
AddedEntries(d, s) ==
    {e \in DOMAIN s.entries \ DOMAIN d.entries :
        /\ ~DeletedSince(d, e, Live(s.entries, e).mtime)
        /\ Live(s.entries, e).parent \in DOMAIN d.groups}

WithEntries(h, E) == [h EXCEPT !.entries = @ \cup E]

EntriesAdded(d, s) ==
    LET A == AddedEntries(d, s)
    IN [d EXCEPT
          !.entries = [e \in DOMAIN @ \cup A |-> IF e \in A THEN s.entries[e] ELSE @[e]],
          !.groups = [g \in DOMAIN @ |->
             WithEntries(@[g], {e \in A : Live(s.entries, e).parent = g})]]

DoomedEntries_Always(d, s) ==
    {e \in DOMAIN d.entries \ DOMAIN s.entries : e \in DOMAIN s.deleted}
DoomedEntries_StrictlyLater(d, s) ==
    {e \in DOMAIN d.entries \ DOMAIN s.entries :
        e \in DOMAIN s.deleted /\ s.deleted[e] > Live(d.entries, e).mtime}
DoomedEntries(d, s) ==
    {e \in DOMAIN d.entries \ DOMAIN s.entries : DeletedSince(s, e, Live(d.entries, e).mtime)}

----------------------------------------------------------------------------
(* Histories.                                                              *)

\* have_entries_diverged: more than in their times
Diverged(v, w) == [v EXCEPT !.mtime = 0, !.ltime = 0] # [w EXCEPT !.mtime = 0, !.ltime = 0]

\* have_groups_diverged
GroupsDiverged(g, h) ==
    <<g.icon, g.ltve, g.prev, g.content>> # <<h.icon, h.ltve, h.prev, h.content>>

\* sort_by_key, which keeps the order of equal keys
ByTime(h) ==
    LET before(i, j) ==
            h[i].mtime < h[j].mtime \/ (h[i].mtime = h[j].mtime /\ i < j)
        place(j) == 1 + Cardinality({i \in DOMAIN h : before(i, j)})
    IN [k \in DOMAIN h |-> h[CHOOSE j \in DOMAIN h : place(j) = k]]

\* merge_history: of the first i and j versions by time, the newest first
MergedHistory(hd, hs) ==
    LET ours   == ByTime(hd)
        theirs == ByTime(hs)
        newest[p \in (0 .. Len(ours)) \X (0 .. Len(theirs))] ==
            LET i == p[1]
                j == p[2]
            IN IF i = 0 /\ j = 0 THEN <<>>
               ELSE IF j = 0 \/ (i > 0 /\ ours[i].mtime > theirs[j].mtime)
                 THEN <<ours[i]>> \o newest[<<i - 1, j>>]
               ELSE IF i = 0 \/ theirs[j].mtime > ours[i].mtime
                 THEN <<theirs[j]>> \o newest[<<i, j - 1>>]
               ELSE (IF Diverged(ours[i], theirs[j]) THEN <<ours[i], theirs[j]>> ELSE <<ours[i]>>)
                       \o newest[<<i - 1, j - 1>>]
    IN newest[<<Len(ours), Len(theirs)>>]

\* The version v that the newer one replaces goes on top of the history h,
\* unless h is empty or begins with the same.
Replaced_Lost(v, h) == h
Replaced(v, h) == IF h # <<>> /\ Diverged(v, h[1]) THEN <<v>> \o h ELSE h

\* vs, which may just have been moved, with the newer content of ws, and the
\* history of both
MergedVersions_HistoryOnly(vs, ws) == <<vs[1]>> \o MergedHistory(Tail(vs), Tail(ws))
MergedVersions(vs, ws) ==
    LET v == vs[1]
        w == ws[1]
        history == MergedHistory(Tail(vs), Tail(ws))
    IN IF w.mtime > v.mtime
         THEN <<[v EXCEPT !.content = w.content, !.icon = w.icon, !.mtime = w.mtime]>>
                \o Replaced(v, history)
         ELSE <<v>> \o history

----------------------------------------------------------------------------
(* The passes.                                                             *)

MergeIcons ==
    /\ pc \in {"edit dest", "edit source"}
    /\ orig' = dest
    /\ dest' = MergedIcons(dest, source)
    /\ pc' = "add groups"
    /\ UNCHANGED <<source, now, edits, todo, doomed, moves>>

AddGroups ==
    /\ pc = "add groups"
    /\ dest' = GroupsAdded(dest, source)
    /\ pc' = "condemn groups"
    /\ UNCHANGED <<source, now, edits, orig, todo, doomed, moves>>

\* Groups deleted in the source get their tombstone now and go later.
CondemnGroups ==
    /\ pc = "condemn groups"
    /\ doomed' = DoomedGroups(dest, source)
    /\ dest' = Buried(dest, [g \in DoomedGroups(dest, source) |-> source.deleted[g]])
    /\ pc' = "add entries"
    /\ UNCHANGED <<source, now, edits, orig, todo, moves>>

AddEntries ==
    /\ pc = "add entries"
    /\ todo' = DOMAIN dest.entries \cap DOMAIN source.entries
    /\ dest' = EntriesAdded(dest, source)
    /\ pc' = "remove entries"
    /\ UNCHANGED <<source, now, edits, orig, doomed, moves>>

RemoveEntries ==
    /\ pc = "remove entries"
    /\ LET E == DoomedEntries(dest, source)
       IN dest' = Buried(Removed(dest, {}, E), [e \in E |-> source.deleted[e]])
    /\ pc' = "entries"
    /\ UNCHANGED <<source, now, edits, orig, todo, doomed, moves>>

\* The destination with e where the later move put it
EntryRelocated(e) ==
    LET v == Live(dest.entries, e)
        w == Live(source.entries, e)
    IN IF w.parent # v.parent /\ w.ltime > v.ltime /\ w.parent \in DOMAIN dest.groups
         THEN [dest EXCEPT !.groups = RelistEntry(@, e, v.parent, w.parent),
                           !.entries[e][1] = Moved(v, w.parent, w.ltime)]
         ELSE dest

\* An entry of both.  Equal times and different entries end the merge.
MergeEntry(e) ==
    /\ pc = "entries" /\ e \in todo
    /\ LET d == EntryRelocated(e)
           v == Live(d.entries, e)
           w == Live(source.entries, e)
       IN IF v.mtime = w.mtime
            THEN dest' = d /\ pc' = IF Diverged(v, w) THEN "error" ELSE pc
            ELSE /\ dest' = [d EXCEPT !.entries[e] = MergedVersions(@, source.entries[e])]
                 /\ pc' = pc
    /\ todo' = todo \ {e}
    /\ UNCHANGED <<source, now, edits, orig, doomed, moves>>

\* An icon that the groups X show no more
HiddenBy(ic, X) == [ic EXCEPT !.groups = @ \ X]

\* GroupMut::remove for each group of to_delete that is still there
RemoveGroups ==
    /\ pc = "entries" /\ todo = {}
    /\ LET S == UNION {Subtree(dest.groups, g) : g \in doomed}
           d == Removed(dest, S, EntriesUnder(dest.groups, S))
       IN /\ dest' = [d EXCEPT
                !.icons = [c \in DOMAIN @ |-> HiddenBy(@[c], {g \in S : dest.groups[g].icon = c})],
                !.meta = [f \in MetaFields |-> IF @[f] \in S THEN None ELSE @[f]]]
          /\ todo' = DOMAIN d.groups \cap DOMAIN source.groups
    /\ pc' = "groups"
    /\ UNCHANGED <<source, now, edits, orig, doomed, moves>>

\* The later move is that of the source.
MovedInSource(g) ==
    /\ source.groups[g].parent # dest.groups[g].parent
    /\ source.groups[g].ltime > dest.groups[g].ltime

\* A group of both.  One that moved waits at the root for the others; one that
\* cannot move keeps its content, too.
MergeGroup(g) ==
    /\ pc = "groups" /\ g \in todo
    /\ LET s == source.groups[g]
           moved == [MoveGroupTo(dest.groups, g, Root) EXCEPT ![g].ltime = s.ltime]
           gs == IF MovedInSource(g) THEN moved ELSE dest.groups
       IN IF MovedInSource(g) /\ s.parent \notin DOMAIN dest.groups
            THEN UNCHANGED <<dest, pc, moves>>
            ELSE /\ moves' = IF MovedInSource(g) THEN Append(moves, <<g, s.parent>>) ELSE moves
                 /\ pc' = IF gs[g].mtime = s.mtime /\ GroupsDiverged(gs[g], s)
                            THEN "error" ELSE pc
                 /\ dest' = [dest EXCEPT !.groups =
                      IF s.mtime <= gs[g].mtime THEN gs
                      ELSE [gs EXCEPT ![g].content = s.content, ![g].icon = s.icon,
                                      ![g].ltve = s.ltve, ![g].mtime = s.mtime]]
    /\ todo' = todo \ {g}
    /\ UNCHANGED <<source, now, edits, orig, doomed>>

\* The queued moves, first come first served.  One that fails ends the merge.
PlaceGroup_LeftAtRoot ==
    /\ pc = "groups" /\ todo = {} /\ moves # <<>>
    /\ moves' = Tail(moves)
    /\ UNCHANGED <<dest, source, now, edits, orig, pc, todo, doomed>>
PlaceGroup ==
    /\ pc = "groups" /\ todo = {} /\ moves # <<>>
    /\ LET g == moves[1][1]
           q == moves[1][2]
       IN IF CanMoveGroup(dest.groups, g, q)
            THEN dest' = [dest EXCEPT !.groups = MoveGroupTo(@, g, q)] /\ pc' = pc
            ELSE pc' = "error" /\ UNCHANGED dest
    /\ moves' = Tail(moves)
    /\ UNCHANGED <<source, now, edits, orig, todo, doomed>>

Succeed ==
    /\ pc = "groups" /\ todo = {} /\ moves = <<>>
    /\ pc' = "ok"
    /\ UNCHANGED <<dest, source, now, edits, orig, todo, doomed, moves>>

Next ==
    \/ EditDest \/ EditSource
    \/ MergeIcons \/ AddGroups \/ CondemnGroups \/ AddEntries \/ RemoveEntries
    \/ \E e \in EntryIds : MergeEntry(e)
    \/ RemoveGroups
    \/ \E g \in GroupIds : MergeGroup(g)
    \/ PlaceGroup \/ Succeed

Spec == Init /\ [][Next]_vars

----------------------------------------------------------------------------
(* Properties.                                                             *)

\* Whatever the two sides did, after every pass and also when an error ends
\* the merge, the groups are one tree and every entry is in one group.
MergeKeepsTree ==
    /\ IsTree(dest.groups)
    /\ IsPlaced(dest.groups, dest.entries)

\* Ids of the groups that dest had and the source deleted
DeletedGroups == DOMAIN orig.groups \cap DOMAIN source.deleted

\* Without a deletion of groups in the source, a merge removes no group, and
\* of the entries only those deleted there after their last change here ("if
\* the entry was deleted and then later modified in dest, do not delete it").
OnlyDeletedGoes ==
    pc \notin {"edit dest", "edit source"} /\ DeletedGroups = {} =>
        /\ DOMAIN orig.groups \subseteq DOMAIN dest.groups
        /\ \A e \in DOMAIN orig.entries \ DOMAIN dest.entries :
              DeletedSince(source, e, Live(orig.entries, e).mtime)

\* An entry changed here after every deletion in the source of it and of the
\* groups around it is there after the merge ("if the group was deleted and
\* then later modified in dest, do not delete it", merge.rs).
LaterChangesSurvive ==
    pc = "ok" =>
        \A e \in DOMAIN orig.entries :
            LET v == Live(orig.entries, e)
            IN \/ e \in DOMAIN dest.entries
               \/ \E x \in {e} \cup AncestorsOrSelf(orig.groups, v.parent) :
                     DeletedSince(source, x, v.mtime)

\* An entry changed in the source after every deletion here of it and of the
\* groups around it is back, and the groups with it (the tombstone checks of
\* merge_groups and merge_entries, and the stack of groups to add).
LaterChangesReturn ==
    pc = "ok" /\ DeletedGroups = {} =>
        \A e \in DOMAIN source.entries \ DOMAIN orig.entries :
            LET w == Live(source.entries, e)
            IN \/ e \in DOMAIN dest.entries
               \/ \E x \in {e} \cup AncestorsOrSelf(source.groups, w.parent) :
                     DeletedSince(orig, x, w.mtime)

\* What the source deleted, and nobody changed here since, is gone, and its
\* tombstone is here for the next merge.
DeletionsArrive ==
    pc = "ok" =>
        \A e \in DOMAIN orig.entries \ DOMAIN source.entries :
            DeletedSince(source, e, Live(orig.entries, e).mtime) =>
                e \notin DOMAIN dest.entries /\ e \in DOMAIN dest.deleted

Shared == DOMAIN orig.entries \cap DOMAIN source.entries \cap DOMAIN dest.entries

\* An entry of both ends up as the side that changed it last had it, in the
\* group where the side that moved it last had it.
NewestWins ==
    pc = "ok" =>
        \A e \in Shared :
            LET v == Live(orig.entries, e)
                w == Live(source.entries, e)
                u == Live(dest.entries, e)
            IN /\ u.content = (IF w.mtime > v.mtime THEN w ELSE v).content
               /\ w.ltime > v.ltime /\ w.parent \in DOMAIN dest.groups => u.parent = w.parent

\* No content that the entry had here, live or in history, is lost.
VersionsKept ==
    pc = "ok" =>
        \A e \in Shared :
            {v.content : v \in VersionsOf(orig.entries, e)}
                \subseteq {v.content : v \in VersionsOf(dest.entries, e)}

\* A group of both is, after all queued moves, where the later of the two
\* moves put it, also if the moves, done one by one, would have met a cycle.
LaterMoveWins ==
    pc = "ok" =>
        \A g \in DOMAIN orig.groups \cap DOMAIN source.groups \cap DOMAIN dest.groups :
            LET later == IF source.groups[g].ltime > orig.groups[g].ltime THEN source ELSE orig
            IN later.groups[g].parent \in DOMAIN dest.groups =>
                  dest.groups[g].parent = later.groups[g].parent

\* Every custom icon that a group or a version shows after the merge exists
\* (merge_icons comes first, so that what the other passes copy finds it).
MergedIconsExist ==
    IconMentions(dest.groups, dest.entries) \subseteq DOMAIN dest.icons \cup BuiltIns \cup {None}


=============================================================================
