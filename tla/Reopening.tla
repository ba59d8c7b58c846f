------------------------------ MODULE Reopening ------------------------------
(***************************************************************************)
(* What becomes of a database that is saved to a KDBX4 file and opened     *)
(* again (src/src/format/xml_db): the abstract specification of Xml, and a *)
(* step of its own in Stored.                                              *)
(***************************************************************************)
EXTENDS DatabaseTypes

\* An icon that is not in the document is no icon.
StoredIcon(icon, ics) == IF icon \in DOMAIN ics \cup BuiltIns THEN icon ELSE None

\* Versions of history do not name their group, and come back with that of the
\* entry.
StoredVersions(vs, ics) ==
    [i \in DOMAIN vs |->
       [vs[i] EXCEPT !.parent = vs[1].parent, !.icon = StoredIcon(@, ics)]]

\* The icons do not list their groups: xml_to_db asks the groups.
ListedGroups(gs, ics, c) == {g \in DOMAIN gs : gs[g].icon = c}

\* to_xml saves a compacted copy, if need be.
Reopened(d) ==
    LET kept == KeptIds(d.entries, d.attachments)
        compacted == CompactedEntries(d.entries, kept)
    IN [d EXCEPT
          !.groups = [g \in DOMAIN d.groups |->
                        [d.groups[g] EXCEPT !.icon = StoredIcon(@, d.icons)]],
          !.entries = [e \in DOMAIN d.entries |-> StoredVersions(compacted[e], d.icons)],
          !.attachments = CompactedPool(d.attachments, kept),
          !.icons = [c \in DOMAIN d.icons |->
                       [d.icons[c] EXCEPT !.groups = ListedGroups(d.groups, d.icons, c)]]]
=============================================================================
