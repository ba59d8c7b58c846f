-------------------------------- MODULE Kdb --------------------------------
(***************************************************************************)
(* The reader of KDB payloads (src/src/format/kdb.rs): groups as a flat    *)
(* list of fields with a level each, then entries that name their group by *)
(* number.  The tree exists only in the levels, and the values of a group  *)
(* or an entry are spread over fields in any order up to an end mark, so   *)
(* the two loops carry state from field to field and from one group or     *)
(* entry to the next.                                                      *)
(*                                                                         *)
(* A file is any sequence of fields; it is chosen while it is read.        *)
(***************************************************************************)
EXTENDS Integers, Sequences

CONSTANTS
    Gids, RootGid,          \* group numbers, and the one that stands for the root
    Levels,                 \* levels that groups give
    FieldNames, Texts,      \* string fields of an entry and what is in them
    Binaries,               \* names and contents of binaries
    None,
    Files                   \* bound: the groups and entries that headers announce,
                            \* and the fields that follow at most

ASSUME LevelsAssumption == Levels \subseteq Nat /\ None \notin Levels
ASSUME GidsAssumption == RootGid \in Gids /\ None \notin Gids
ASSUME BinariesAssumption == None \notin Binaries
ASSUME FilesAssumption == Files \subseteq [groups : Nat, entries : Nat, fields : Nat]

VARIABLES
    kdbPc,      \* the loop that runs, or how reading ended
    kdbHeader,  \* num_groups and num_entries of the file's header
    kdbLeft,    \* fields that follow in the file
    branch,     \* groups on the way to the one read last
    gidMap,     \* gid_map: group number -> group
    groups,     \* the groups made; the root is 0
    levels,     \* the levels the file gave them
    group,      \* parsing_gid, parsing_level
    entry,      \* parsing_gid, parsing_fields, desc, data, entry_attachments
    entries,    \* the entries made
    section     \* for the properties: what the file gave since the last end mark

groupVars == <<branch, gidMap, groups, levels, group>>
entryVars == <<entry, entries, section>>
kdbVars == <<kdbPc, kdbHeader, kdbLeft, groupVars, entryVars>>

Root == 0

EmptyMap == [x \in {} |-> x]
Put(f, k, v) == [x \in DOMAIN f \cup {k} |-> IF x = k THEN v ELSE f[x]]

NoGroup == [gid |-> None, level |-> None]
NoEntry ==
    [gid |-> None, fields |-> EmptyMap, desc |-> None, data |-> None, attachments |-> EmptyMap]
NoSection == [fields |-> EmptyMap, binaries |-> <<>>]

KdbInit ==
    /\ kdbPc = "groups"
    /\ kdbHeader \in Files
    /\ kdbLeft = kdbHeader.fields
    /\ branch = <<Root>>
    /\ gidMap = Put(EmptyMap, RootGid, Root)
    /\ groups = <<>> /\ levels = <<>> /\ group = NoGroup
    /\ entry = NoEntry /\ entries = <<>> /\ section = NoSection

----------------------------------------------------------------------------
(* parse_groups, a field at a time.                                        *)

\* The loop goes round with the data behind the field.
NextField(loop) ==
    /\ kdbPc = loop /\ kdbLeft > 0
    /\ kdbLeft' = kdbLeft - 1
    /\ UNCHANGED <<kdbPc, kdbHeader>>

GroupsDue == Len(groups) < kdbHeader.groups
EntriesDue == Len(entries) < kdbHeader.entries

GroupField ==
    /\ GroupsDue
    /\ NextField("groups")
    /\ \/ \E g \in Gids : group' = [group EXCEPT !.gid = g]
       \/ \E l \in Levels : group' = [group EXCEPT !.level = l]
       \/ UNCHANGED group       \* name, times, image, flags, and type 0
    /\ UNCHANGED <<branch, gidMap, groups, levels, entryVars>>

Truncated_KeepsOne(b, l) == SubSeq(b, 1, IF l = 0 THEN 1 ELSE l)
Truncated(b, l) == SubSeq(b, 1, l)

ParentOn(b) == IF b = <<>> THEN Root ELSE b[Len(b)]

CanEndGroup == group.gid # None /\ group.level # None /\ group.level <= Len(branch)

EndGroup ==
    /\ GroupsDue /\ CanEndGroup
    /\ NextField("groups")
    /\ LET new == Len(groups) + 1
           above == Truncated(branch, group.level)
       IN /\ groups' = Append(groups, [parent |-> ParentOn(above)])
          /\ levels' = Append(levels, group.level)
          /\ branch' = Append(above, new)
          /\ gidMap' = Put(gidMap, group.gid, new)
    /\ group' = NoGroup
    /\ UNCHANGED entryVars

GroupsDone ==
    /\ kdbPc = "groups" /\ ~GroupsDue
    /\ kdbPc' = "entries"
    /\ UNCHANGED <<kdbHeader, kdbLeft, groupVars, entryVars>>

----------------------------------------------------------------------------
(* parse_entries.                                                          *)

\* BinaryDesc with data waiting, or BinaryData with a description waiting, adds
\* an attachment; it is the other of the two that is set to None.
WithDesc(e, n) ==
    IF e.data # None
      THEN [e EXCEPT !.attachments = Put(@, n, e.data), !.desc = None]
      ELSE [e EXCEPT !.desc = n]
WithData_ForgetsOld(e, b) ==
    IF e.desc # None /\ e.desc \notin DOMAIN e.attachments
      THEN [e EXCEPT !.attachments = Put(@, e.desc, b), !.data = b]
      ELSE [e EXCEPT !.data = b]
WithData(e, b) ==
    IF e.desc # None
      THEN [e EXCEPT !.attachments = Put(@, e.desc, b), !.data = None]
      ELSE [e EXCEPT !.data = b]

Saw(kind, x) ==
    section' = [section EXCEPT !.binaries = Append(@, [kind |-> kind, value |-> x])]

EntryField ==
    /\ EntriesDue
    /\ NextField("entries")
    /\ \/ \E g \in Gids : entry' = [entry EXCEPT !.gid = g] /\ UNCHANGED section
       \/ \E f \in FieldNames, t \in Texts :
             /\ entry' = [entry EXCEPT !.fields = Put(@, f, t)]
             /\ section' = [section EXCEPT !.fields = Put(@, f, t)]
       \/ \E n \in Binaries : entry' = WithDesc(entry, n) /\ Saw("desc", n)
       \/ \E b \in Binaries : entry' = WithData(entry, b) /\ Saw("data", b)
       \/ UNCHANGED <<entry, section>>      \* uuid, image, times, and type 0
    /\ UNCHANGED <<groupVars, entries>>

\* What stays of the state for the next entry: the two halves of a binary
Cleared(e) == [e EXCEPT !.gid = None, !.fields = EmptyMap, !.attachments = EmptyMap]

CanEndEntry == entry.gid \in DOMAIN gidMap

EndEntry ==
    /\ EntriesDue /\ CanEndEntry
    /\ NextField("entries")
    /\ entries' = Append(entries, [group |-> gidMap[entry.gid], fields |-> entry.fields,
                                   attachments |-> entry.attachments, section |-> section])
    /\ entry' = Cleared(entry)
    /\ section' = NoSection
    /\ UNCHANGED groupVars

EntriesDone ==
    /\ kdbPc = "entries" /\ ~EntriesDue
    /\ kdbPc' = "ok"
    /\ UNCHANGED <<kdbHeader, kdbLeft, groupVars, entryVars>>

----------------------------------------------------------------------------
(* The ways to fail: each leaves the function with the database dropped.   *)

\* The data ends, here or earlier than at most, or a field has an unknown type
\* or the wrong size
BadField ==
    /\ \/ kdbPc = "groups" /\ GroupsDue
       \/ kdbPc = "entries" /\ EntriesDue
    /\ kdbPc' = "error"
    /\ UNCHANGED <<kdbHeader, kdbLeft, groupVars, entryVars>>

\* An end mark before the group has a number and a level that continues the
\* branch, or before the entry has the number of a group
EarlyEnd ==
    /\ kdbLeft > 0
    /\ \/ kdbPc = "groups" /\ GroupsDue /\ ~CanEndGroup
       \/ kdbPc = "entries" /\ EntriesDue /\ ~CanEndEntry
    /\ kdbPc' = "error"
    /\ UNCHANGED <<kdbHeader, kdbLeft, groupVars, entryVars>>

KdbNext ==
    \/ GroupField \/ EndGroup \/ GroupsDone
    \/ EntryField \/ EndEntry \/ EntriesDone
    \/ BadField \/ EarlyEnd

KdbSpec == KdbInit /\ [][KdbNext]_kdbVars

----------------------------------------------------------------------------
(* Properties.                                                             *)

\* Groups before the k-th that are above it
Lower(k) == {j \in 1 .. k - 1 : levels[j] < levels[k]}

\* The parent of a group is the nearest group before it with a lower level,
\* the root if there is none, and then exactly one level lower: a branch cut
\* too short or too long puts a group into a cousin (the branch of
\* parse_groups).
ParentsByLevel ==
    \A k \in DOMAIN groups :
        LET p == groups[k].parent
        IN IF Lower(k) = {} THEN p = Root
           ELSE /\ p \in Lower(k)
                /\ \A j \in Lower(k) : j <= p
                /\ levels[p] = levels[k] - 1

\* Whether names and contents of binaries alternate in s, beginning with `first`,
\* and the attachments they then describe
Alternates(s, first) ==
    /\ Len(s) % 2 = 0
    /\ \A i \in DOMAIN s : (s[i].kind = first) <=> (i % 2 = 1)

Described(s) ==
    LET pair(n) == {i \in DOMAIN s : s[i].kind = "desc" /\ s[i].value = n}
        last(n) == CHOOSE i \in pair(n) : \A j \in pair(n) : j <= i
        other(i) == s[IF s[1].kind = "desc" THEN i + 1 ELSE i - 1]
    IN [n \in {s[i].value : i \in {j \in DOMAIN s : s[j].kind = "desc"}} |->
          other(last(n)).value]

\* The strings of an entry are the last ones its own section gives, and it has
\* no others: nothing of an earlier entry stays.  And in a file that always
\* gives the two halves of a binary in the same order, each entry ends up with
\* the binaries of its own section, although the loop carries one half of a pair
\* from entry to entry.
EntriesOwn ==
    /\ \A k \in DOMAIN entries : entries[k].fields = entries[k].section.fields
    /\ \A first \in {"desc", "data"} :
         (\A k \in DOMAIN entries : Alternates(entries[k].section.binaries, first)) =>
             \A k \in DOMAIN entries :
                 entries[k].attachments = Described(entries[k].section.binaries)
=============================================================================
