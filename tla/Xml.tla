--------------------------------- MODULE Xml ---------------------------------
(***************************************************************************)
(* The XML document inside a KDBX file (src/src/format/xml_db).  Protected *)
(* values are encrypted with one keystream that runs through the document: *)
(* the writer walks the database, the reader the document, and each has to *)
(* meet them in the same order, through groups, entries and history,       *)
(* although the maps of the database have no order of their own.           *)
(*                                                                         *)
(* The content of an entry is here the map of its fields, a text is the    *)
(* sequence of its characters, and a binary has a text too.  A version of  *)
(* history has no history itself.                                          *)
(***************************************************************************)
EXTENDS Reopening, SequencesExt, FiniteSetsExt

CONSTANTS Sources,          \* databases to save
          FoundDocuments    \* documents from other programs

VARIABLES
    pc,         \* "save", "open" or "done"
    source,     \* the database saved, None for a document that was found
    style,      \* the container of the document: "KDB4" or "KDB3"
    doc,        \* the document, and in a KDBX4 container the binaries beside it
    read        \* the database, or the failure, that the document was read into

vars == <<pc, source, style, doc, read>>

----------------------------------------------------------------------------
(* The inner stream cipher.                                                *)

Width(v) == IF v.protected THEN Len(v.text) ELSE 0

\* v at place `at` of the keystream
Protected(v, at) ==
    [protected |-> v.protected, text |-> v.text, at |-> IF v.protected THEN at ELSE 0]

Garbled == <<"garbled">>

Unprotected(x, at) ==
    [protected |-> x.protected,
     text |-> IF x.protected /\ x.at # at THEN Garbled ELSE x.text]

----------------------------------------------------------------------------
(* Writing: the set of ways to.  Each yields an element and the place of   *)
(* the keystream after it.                                                 *)

\* One after the other
InTurn(Write(_, _), xs, at) ==
    FoldLeft(LAMBDA W, x :
               UNION {{[elements |-> Append(w.elements, v.element), at |-> v.at]
                         : v \in Write(x, w.at)} : w \in W},
             {[elements |-> <<>>, at |-> at]}, xs)

\* The elements of a hash set or map come in any order
InAnyOrder(Write(_, _), S, at) == UNION {InTurn(Write, xs, at) : xs \in SetToSeqs(S)}

WriteFields(fields, at) ==
    InAnyOrder(LAMBDA k, u :
                 {[element |-> [key |-> k, value |-> Protected(fields[k], u)],
                   at |-> u + Width(fields[k])]},
               DOMAIN fields, at)

\* A custom icon and a built-in one have an element each; the library writes one
\* of them at most.
IconElements(icon) == IF icon = None THEN <<>> ELSE <<icon>>

\* Entry::db_to_xml, for one version
WriteVersion(e, v, at) ==
    {[element |-> [uuid |-> e, icons |-> IconElements(v.icon), prev |-> v.prev, mtime |-> v.mtime,
                   ltime |-> v.ltime, strings |-> w.elements, binaries |-> v.attachments],
      at |-> w.at] : w \in WriteFields(v.content, at)}

WriteHistory(e, vs, at) == InTurn(LAMBDA v, u : WriteVersion(e, v, u), Tail(vs), at)

EntryElement(live, history) ==
    [tag |-> "Entry", live |-> live.element, history |-> history.elements]

WriteEntry_HistoryFirst(e, vs, at) ==
    UNION {{[element |-> EntryElement(l, h), at |-> l.at] : l \in WriteVersion(e, vs[1], h.at)}
             : h \in WriteHistory(e, vs, at)}
WriteEntry(e, vs, at) ==
    UNION {{[element |-> EntryElement(l, h), at |-> h.at] : h \in WriteHistory(e, vs, l.at)}
             : l \in WriteVersion(e, vs[1], at)}

\* Group::db_to_xml
RECURSIVE WriteGroup(_, _, _)
WriteGroup(d, g, at) ==
    LET WriteEntries(u) ==
            InAnyOrder(LAMBDA e, w : WriteEntry(e, d.entries[e], w), d.groups[g].entries, u)
        Element(children) ==
            LET x == d.groups[g]
            IN [tag |-> "Group", uuid |-> g, icons |-> IconElements(x.icon), ltve |-> x.ltve,
                prev |-> x.prev, content |-> x.content, mtime |-> x.mtime, ltime |-> x.ltime,
                children |-> children]
    IN UNION {{[element |-> Element(cs.elements \o es.elements), at |-> es.at]
                 : es \in WriteEntries(cs.at)}
              : cs \in InAnyOrder(LAMBDA c, u : WriteGroup(d, c, u), d.groups[g].groups, at)}

\* to_xml saves a compacted copy
Saved(d) ==
    LET kept == KeptIds(d.entries, d.attachments)
    IN [d EXCEPT !.entries = CompactedEntries(@, kept),
                 !.attachments = CompactedPool(@, kept)]

PoolInOrder(d) == [i \in 1 .. Cardinality(DOMAIN d.attachments) |-> d.attachments[i - 1]]

\* KeePassFile::db_to_xml; the binaries go into the inner header
Document(d, root, binaries, beside) ==
    [root |-> root, icons |-> [c \in DOMAIN d.icons |-> d.icons[c].mtime], meta |-> d.meta,
     deleted |-> d.deleted, binaries |-> binaries, beside |-> beside]

Documents(d) ==
    {Document(d, w.element, <<>>, PoolInOrder(d)) : w \in WriteGroup(d, Root, 0)}

\* Another program's KDBX3 document has them in its Meta element, which comes
\* first; the library writes none.
Kdbx3Documents(d) ==
    UNION {{Document(d, w.element, bs.elements, <<>>) : w \in WriteGroup(d, Root, bs.at)}
             : bs \in InTurn(LAMBDA b, u : {[element |-> Protected(b, u), at |-> u + Width(b)]},
                             PoolInOrder(d), 0)}

----------------------------------------------------------------------------
(* Reading: s holds the database under construction, the place of the      *)
(* keystream, and "ok" until something fails.                              *)

InOrder(Read(_, _), s, xs) ==
    FoldLeft(LAMBDA t, x : IF t.status = "ok" THEN Read(t, x) ELSE t, s, xs)

\* cs_opt_string takes a text without anything to see for no value.
Blank == " "
IsBlank(v) == \A i \in DOMAIN v.text : ~v.protected /\ v.text[i] = Blank

FieldsRead(fields, strings, at) ==
    FoldLeft(LAMBDA c, f :
               IF IsBlank(f.value) THEN c
               ELSE [fields |-> Put(c.fields, f.key, Unprotected(f.value, c.at)),
                     at |-> c.at + Width(f.value)],
             [fields |-> fields, at |-> at], strings)

\* A binary that the file does not have loses its name.
BinariesRead_Unchecked(names, pool) == names
BinariesRead(names, pool) == [n \in {x \in DOMAIN names : names[x] \in DOMAIN pool} |-> names[n]]

\* The custom icon goes before the built-in one, if the document has it.
IconRead(elements, ics) ==
    LET there == SelectSeq(elements, LAMBDA c : StoredIcon(c, ics) # None)
    IN IF there = <<>> THEN None ELSE there[1]

\* Entry::xml_to_db_handle, whose handle is on version i of e
ReadVersion(s, x, e, i) ==
    IF e \notin DOMAIN s.db.entries \/ i \notin DOMAIN s.db.entries[e]
      THEN [s EXCEPT !.status = "panic"]
      ELSE LET c == FieldsRead(s.db.entries[e][i].content, x.strings, s.at)
           IN [s EXCEPT
                 !.at = c.at,
                 !.db.entries[e][i] =
                     [@ EXCEPT !.icon = IconRead(x.icons, s.db.icons), !.prev = x.prev,
                               !.content = c.fields, !.mtime = x.mtime, !.ltime = x.ltime,
                               !.attachments = BinariesRead(x.binaries, s.db.attachments) @@ @]]

\* A version of history is added to the entry it stands in, and filled in where
\* its own uuid says it is.
ReadHistory(s, x, e) ==
    LET more == [s EXCEPT !.db.entries[e] = Append(@, NewVersion(@[1].parent, 0))]
    IN ReadVersion(more, x, x.uuid, Len(more.db.entries[e]))

ReadEntry(s, x, p) ==
    LET e == x.live.uuid
        new == [s EXCEPT !.db.groups[p].entries = @ \cup {e},
                         !.db.entries = Put(@, e, <<NewVersion(p, 0)>>)]
    IN IF e \in DOMAIN s.db.entries
         THEN [s EXCEPT !.status = "DuplicateEntryId"]
         ELSE InOrder(LAMBDA t, h : ReadHistory(t, h, e), ReadVersion(new, x.live, e, 1), x.history)

\* Group::xml_to_db_handle
RECURSIVE ReadGroup(_, _)
ReadGroup(s, x) ==
    LET g == x.uuid
        group == [s EXCEPT !.db.groups[g] =
                    [@ EXCEPT !.icon = IconRead(x.icons, s.db.icons), !.ltve = x.ltve,
                              !.prev = x.prev, !.content = x.content, !.mtime = x.mtime,
                              !.ltime = x.ltime]]
        ReadSubgroup(t, y) ==
            IF y.uuid \in DOMAIN t.db.groups
              THEN [t EXCEPT !.status = "DuplicateGroupId"]
              ELSE ReadGroup([t EXCEPT !.db.groups = AddGroupTo(@, g, y.uuid, 0)], y)
    IN InOrder(LAMBDA t, y : IF y.tag = "Group" THEN ReadSubgroup(t, y) ELSE ReadEntry(t, y, g),
               group, x.children)

\* The binaries of Meta get their ids from next_free, asked of the database
\* before it has any.
MetaBinaries(d, s, xs) ==
    FoldLeft(LAMBDA c, x :
               LET id == CHOOSE i \in AttachmentIds : IsNextFree(d.attachments, i)
               IN [pool |-> Put(c.pool, id, Unprotected(x, c.at)), at |-> c.at + Width(x)],
             s, xs)

\* KeePassFile::xml_to_db; the walk is handed the binaries and icons that the
\* database gets when it ends.
Read(x) ==
    LET new == [NewDatabase EXCEPT !.meta = x.meta, !.deleted = x.deleted,
                  !.icons = [c \in DOMAIN x.icons |-> [groups |-> {}, mtime |-> x.icons[c]]]]
        header == [i \in 0 .. Len(x.beside) - 1 |-> x.beside[i + 1]]
        pool == MetaBinaries(new, [pool |-> header, at |-> 0], x.binaries)
        end == ReadGroup([db |-> [new EXCEPT !.attachments = pool.pool], at |-> pool.at,
                          status |-> "ok"], x.root)
    IN IF end.status = "ok"
         THEN [status |-> "ok",
               db |-> [end.db EXCEPT !.icons =
                        [c \in DOMAIN @ |->
                          [@[c] EXCEPT !.groups = ListedGroups(end.db.groups, end.db.icons, c)]]]]
         ELSE [status |-> end.status]

----------------------------------------------------------------------------
Init ==
    /\ style \in {"KDB4", "KDB3"} /\ read = None
    /\ \/ pc = "save" /\ source \in Sources /\ doc = None
       \/ pc = "open" /\ source = None /\ doc \in FoundDocuments

Save ==
    /\ pc = "save" /\ pc' = "open"
    /\ doc' \in (IF style = "KDB4" THEN Documents(Saved(source)) ELSE Kdbx3Documents(Saved(source)))
    /\ UNCHANGED <<source, style, read>>

Open ==
    /\ pc = "open" /\ pc' = "done"
    /\ read' = Read(doc)
    /\ UNCHANGED <<source, style, doc>>

Next == Save \/ Open

Spec == Init /\ [][Next]_vars

----------------------------------------------------------------------------
(* Properties.                                                             *)

\* A field without anything to see is not stored.
WithoutBlanks(d) ==
    [d EXCEPT !.entries =
        MapVersions(@, LAMBDA v :
            [v EXCEPT !.content = [k \in {x \in DOMAIN @ : ~IsBlank(@[x])} |-> @[k]]])]

\* A database comes back from its document as Reopening says, whatever order its
\* maps were written in: every group, entry, version and binary, and every
\* protected value from its own place in the keystream (xml_to_db, db_to_xml).
RoundTrip ==
    (pc = "done" /\ source # None
     /\ (style = "KDB4" \/ Cardinality(DOMAIN Saved(source).attachments) <= 1)) =>
        read = [status |-> "ok", db |-> WithoutBlanks(Reopened(source))]

\* Whatever another program has put into a document, the database that is read
\* from it is a tree whose references resolve (the duplicate ids that fail and
\* the references that are dropped in xml_to_db_handle).
ReadIsSound ==
    (pc = "done" /\ read.status = "ok") =>
        LET d == read.db
        IN /\ IsTree(d.groups) /\ IsPlaced(d.groups, d.entries)
           /\ ReferencedIds(d.entries) \subseteq DOMAIN d.attachments
           /\ IconMentions(d.groups, d.entries) \subseteq DOMAIN d.icons \cup BuiltIns \cup {None}
           /\ Backreferenced(d.groups, d.icons)

\* Attachment: "Both header attachments (KDBX4-style) and XML attachments
\* (KDBX3-style) will be converted to this format when parsing."  Every name of
\* a version shows the binary it was saved with.
BinariesConverted ==
    (pc = "done" /\ source # None) =>
        \A e \in DOMAIN source.entries : \A i \in DOMAIN source.entries[e] :
            LET was == source.entries[e][i].attachments
                is == read.db.entries[e][i].attachments
            IN \A n \in DOMAIN was :
                 /\ n \in DOMAIN is
                 /\ read.db.attachments[is[n]] = source.attachments[was[n]]
=============================================================================
