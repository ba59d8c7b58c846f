--------------------------- MODULE DatabaseTypes ---------------------------
(***************************************************************************)
(* The values an in-memory KeePass database is made of, and the walks over *)
(* them that its operations share (src/src/db/types).  A database keeps    *)
(* groups, entries, binaries and custom icons in flat maps that refer to   *)
(* one another by identifier; nothing but the operations keeps the two     *)
(* sides of a reference in agreement.                                      *)
(*                                                                         *)
(* An entry is the sequence of its versions: version 1 is the live one,    *)
(* the others its history, newest first.                                   *)
(*                                                                         *)
(* Here and in the other modules, a definition A_Slip placed before a      *)
(* definition A states A with a plausible mistake in the code it models.   *)
(* It is used nowhere; the runs are to tell the two apart.                 *)
(***************************************************************************)
EXTENDS Integers, Sequences, FiniteSets

CONSTANTS
    GroupIds, EntryIds, IconIds,    \* identifiers (uuids)
    Root,                           \* Database::root
    Names,                          \* attachment names
    Binaries,                       \* attachment contents
    Contents,                       \* what an edit of a group or an entry changes
    MetaFields,                     \* fields of Meta that hold a group's uuid
    BuiltIns,                       \* icons of the built-in set
    None,                           \* no value
    NoContent,                      \* the contents of a new group or entry
    MaxAttachments                  \* bound: binaries in the pool

ASSUME RootAssumption == Root \in GroupIds
ASSUME NoContentAssumption == NoContent \in Contents
ASSUME MaxAttachmentsAssumption == MaxAttachments \in Nat
ASSUME SentinelAssumption ==
    /\ None \notin GroupIds \cup EntryIds \cup IconIds
    /\ BuiltIns \cap (IconIds \cup {None}) = {}

----------------------------------------------------------------------------
(* Partial maps: std::collections::HashMap.                                *)

EmptyMap == [x \in {} |-> x]

Put(f, k, v) == [x \in DOMAIN f \cup {k} |-> IF x = k THEN v ELSE f[x]]

Without(f, S) == [x \in DOMAIN f \ S |-> f[x]]

IsMap(f, D, R) == DOMAIN f \subseteq D /\ f \in [DOMAIN f -> R]

----------------------------------------------------------------------------
(* The records.                                                            *)

Times == Nat

AttachmentIds == 0 .. MaxAttachments - 1

IconValues == IconIds \cup BuiltIns \cup {None}

AttachmentMaps == UNION {[S -> AttachmentIds] : S \in SUBSET Names}

Groups ==
    [parent : GroupIds \cup {None}, groups : SUBSET GroupIds, entries : SUBSET EntryIds,
     icon : IconValues, ltve : EntryIds \cup {None}, prev : GroupIds \cup {None},
     content : Contents, mtime : Times, ltime : Times]

Versions ==
    [parent : GroupIds, prev : GroupIds \cup {None}, icon : IconValues,
     attachments : AttachmentMaps, content : Contents, mtime : Times, ltime : Times]

Icons == [groups : SUBSET GroupIds, mtime : Times]

NewGroup(p, t) ==
    [parent |-> p, groups |-> {}, entries |-> {}, icon |-> None, ltve |-> None,
     prev |-> None, content |-> NoContent, mtime |-> t, ltime |-> t]

NewVersion(p, t) ==
    [parent |-> p, prev |-> None, icon |-> None, attachments |-> EmptyMap,
     content |-> NoContent, mtime |-> t, ltime |-> t]

NewDatabase ==
    [groups |-> [g \in {Root} |-> NewGroup(None, 0)], entries |-> EmptyMap,
     attachments |-> EmptyMap, icons |-> EmptyMap,
     meta |-> [f \in MetaFields |-> None], deleted |-> EmptyMap]

----------------------------------------------------------------------------
(* Versions and what they refer to.                                        *)

Live(es, e) == es[e][1]

VersionsOf(es, e) == {es[e][i] : i \in DOMAIN es[e]}

RefIds(v) == {v.attachments[n] : n \in DOMAIN v.attachments}

RefIdsOf(es, e) == UNION {RefIds(v) : v \in VersionsOf(es, e)}

\* Database::referenced_attachment_ids
ReferencedIds(es) == UNION {RefIdsOf(es, e) : e \in DOMAIN es}

\* f applied to every version of every entry
MapVersions(es, f(_)) == [e \in DOMAIN es |-> [i \in DOMAIN es[e] |-> f(es[e][i])]]

\* History::add_entry, on the versions of an entry
WithHistory_AtEnd(vs, h) == Append(vs, h)
WithHistory_KeepsOne(vs, h) == <<Head(vs), h>>
WithHistory(vs, h) == <<Head(vs), h>> \o Tail(vs)

----------------------------------------------------------------------------
(* The group tree.  Removal walks down the child sets, the check for a     *)
(* cycle walks up the parent pointers.                                     *)

ChildClosed(gs, S) == \A x \in S : gs[x].groups \cap DOMAIN gs \subseteq S

ParentClosed(gs, S) == \A x \in S : gs[x].parent \in DOMAIN gs => gs[x].parent \in S

Subtree_ChildrenOnly(gs, g) == {g} \cup (gs[g].groups \cap DOMAIN gs)
Subtree(gs, g) ==
    {x \in DOMAIN gs : \A S \in SUBSET DOMAIN gs : g \in S /\ ChildClosed(gs, S) => x \in S}

AncestorsOrSelf(gs, g) ==
    {x \in DOMAIN gs : \A S \in SUBSET DOMAIN gs : g \in S /\ ParentClosed(gs, S) => x \in S}

EntriesUnder_Forgotten(gs, S) == {}
EntriesUnder(gs, S) == UNION {gs[x].entries : x \in S}

\* GroupMut::add_group_with_id
AddGroupTo(gs, p, g, t) ==
    Put([gs EXCEPT ![p].groups = @ \cup {g}], g, NewGroup(p, t))

\* GroupMut::move_to: the guards, then the relinking
CanMoveGroup_ParentOnly(gs, g, q) ==
    gs[g].parent # None /\ q \in DOMAIN gs /\ g \notin {q, gs[q].parent}
CanMoveGroup(gs, g, q) ==
    /\ gs[g].parent # None
    /\ q \in DOMAIN gs
    /\ g \notin AncestorsOrSelf(gs, q)

MoveGroupTo(gs, g, q) ==
    [x \in DOMAIN gs |->
       [gs[x] EXCEPT
          !.groups = (IF x = gs[g].parent THEN @ \ {g} ELSE @) \cup (IF x = q THEN {g} ELSE {}),
          !.parent = IF x = g THEN q ELSE @,
          !.prev   = IF x = g THEN gs[g].parent ELSE @]]

\* The groups S leave the map, with the link of their topmost group g
DropGroups(gs, g, S) ==
    [x \in DOMAIN gs \ S |->
       [gs[x] EXCEPT !.groups = IF x = gs[g].parent THEN @ \ {g} ELSE @]]

\* EntryMut::move_to
RelistEntry_StaysListed(gs, e, p, q) == [gs EXCEPT ![q].entries = @ \cup {e}]
RelistEntry(gs, e, p, q) ==
    [x \in DOMAIN gs |->
       [gs[x] EXCEPT
          !.entries = (IF x = p THEN @ \ {e} ELSE @) \cup (IF x = q THEN {e} ELSE {})]]

\* EntryMut::remove, for each entry of E: off its group's list, and off every hint
UnlistEntries_KeepsHints(gs, es, E) ==
    [x \in DOMAIN gs |-> [gs[x] EXCEPT !.entries = @ \ E]]
UnlistEntries(gs, es, E) ==
    [x \in DOMAIN gs |->
       [gs[x] EXCEPT
          !.entries = @ \ {e \in E : Live(es, e).parent = x},
          !.ltve    = IF @ \in E THEN None ELSE @]]

----------------------------------------------------------------------------
(* The pool of binaries.                                                   *)

\* AttachmentId::next_free counts up from 0 to the first unused id
FreeIds(pool) == AttachmentIds \ DOMAIN pool

IsNextFree(pool, id) == id \in FreeIds(pool) /\ \A j \in FreeIds(pool) : id <= j

\* Database::attachment_compaction_remap: an id kept becomes its rank
KeptIds(es, pool) == ReferencedIds(es) \cap DOMAIN pool

Rank(S, id) == Cardinality({j \in S : j < id})

\* Database::compact_attachments, remap_refs on one version's map
RemapRefs(m, kept) ==
    [n \in {x \in DOMAIN m : m[x] \in kept} |-> Rank(kept, m[n])]

CompactedEntries_LiveOnly(es, kept) ==
    [e \in DOMAIN es |-> [es[e] EXCEPT ![1].attachments = RemapRefs(@, kept)]]
CompactedEntries(es, kept) ==
    MapVersions(es, LAMBDA v : [v EXCEPT !.attachments = RemapRefs(@, kept)])

CompactedPool(pool, kept) ==
    [r \in {Rank(kept, id) : id \in kept} |->
        pool[CHOOSE id \in kept : Rank(kept, id) = r]]

\* EntryMut::remove, for each entry of E in turn: of the ids it refers to,
\* those no other entry does
FreedBy_IgnoresHistory(es, ids, E) ==
    ids \ UNION {RefIds(Live(es, e)) : e \in DOMAIN es \ E}
FreedBy(es, ids, E) == ids \ UNION {RefIdsOf(es, e) : e \in DOMAIN es \ E}

\* AttachmentMut::remove drops the names of id in a version
ForgetId(m, id) == Without(m, {n \in DOMAIN m : m[n] = id})

----------------------------------------------------------------------------
(* What a well-formed database is.                                         *)

\* Parent pointers and child sets describe one tree, spanned from the root.
IsTree(gs) ==
    /\ Root \in DOMAIN gs
    /\ gs[Root].parent = None
    /\ \A g \in DOMAIN gs \ {Root} : gs[g].parent \in DOMAIN gs
    /\ \A p \in DOMAIN gs : gs[p].groups = {g \in DOMAIN gs : gs[g].parent = p}
    /\ \A S \in SUBSET DOMAIN gs : Root \in S /\ ChildClosed(gs, S) => S = DOMAIN gs

\* An entry is listed by the group it names as its parent and by no other.
IsPlaced(gs, es) ==
    /\ \A e \in DOMAIN es : Live(es, e).parent \in DOMAIN gs
    /\ \A g \in DOMAIN gs : gs[g].entries = {e \in DOMAIN es : Live(es, e).parent = g}

IconMentions(gs, es) ==
    {gs[g].icon : g \in DOMAIN gs}
        \cup UNION {{v.icon : v \in VersionsOf(es, e)} : e \in DOMAIN es}

Backreferenced(gs, ics) ==
    \A g \in DOMAIN gs : gs[g].icon \in DOMAIN ics => g \in ics[gs[g].icon].groups

IsDatabase(d) ==
    /\ IsMap(d.groups, GroupIds, Groups)
    /\ IsMap(d.entries, EntryIds, Seq(Versions) \ {<<>>})
    /\ IsMap(d.attachments, AttachmentIds, Binaries)
    /\ IsMap(d.icons, IconIds, Icons)
    /\ d.meta \in [MetaFields -> GroupIds \cup {None}]
    /\ IsMap(d.deleted, GroupIds \cup EntryIds \cup IconIds, Times)
    /\ IsTree(d.groups)
    /\ IsPlaced(d.groups, d.entries)
    /\ ReferencedIds(d.entries) \subseteq DOMAIN d.attachments
    /\ IconMentions(d.groups, d.entries) \subseteq DOMAIN d.icons \cup BuiltIns \cup {None}
    /\ Backreferenced(d.groups, d.icons)
=============================================================================
