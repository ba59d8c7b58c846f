-------------------------------- MODULE MCXml --------------------------------
(***************************************************************************)
(* Small databases for Xml, and documents that are not quite what the      *)
(* library would have written.                                             *)
(***************************************************************************)
EXTENDS Xml

CONSTANTS r, a, e1, e2, n1, n2, c1, c2, key

NoFields == <<>>

Plain(s) == [protected |-> FALSE, text |-> s]
Secret(s) == [protected |-> TRUE, text |-> s]

MCBinaries == {Plain(<<"x">>), Secret(<<"y", "y">>)}

\* Two secrets of different lengths, a secret that is empty or blank, and a text
\* that is blank
FieldMaps ==
    {NoFields,
     [Title |-> Plain(<<"x">>), Password |-> Secret(<<"x">>)],
     [Password |-> Secret(<<"x", "y">>), PIN |-> Secret(<<"y">>)],
     [Title |-> Plain(<<Blank>>), Password |-> Secret(<<>>), PIN |-> Secret(<<Blank>>)]}

TwoSecrets == {f \in FieldMaps : "PIN" \in DOMAIN f}

Version(p, content, names) ==
    [NewVersion(p, 0) EXCEPT !.content = content, !.attachments = names, !.icon = c1]

\* e1 has up to two versions of history; its binaries leave out id 0, and its
\* live version does without the one of its history.
Database(v, hs, w, p, q, names) ==
    LET entriesOf(g) == (IF p = g THEN {e1} ELSE {}) \cup (IF q = g THEN {e2} ELSE {})
    IN [NewDatabase EXCEPT
          !.groups = [g \in {r, a} |->
              IF g = r THEN [NewGroup(None, 0) EXCEPT !.groups = {a}, !.entries = entriesOf(r),
                                                      !.icon = key]
                       ELSE [NewGroup(r, 0) EXCEPT !.entries = entriesOf(a), !.icon = c1]],
          !.entries = [e \in {e1, e2} |->
              IF e = e1 THEN <<Version(p, v, names[1])>>
                                \o [i \in DOMAIN hs |-> Version(r, hs[i], names[2])]
                        ELSE <<Version(q, w, names[3])>>],
          !.attachments = [i \in UNION {{names[j][n] : n \in DOMAIN names[j]} : j \in 1 .. 3} |->
                             IF i = 1 THEN Plain(<<"x">>) ELSE Secret(<<"y", "y">>)],
          !.icons = [c \in {c1} |-> [groups |-> {a}, mtime |-> 0]]]

Histories ==
    {<<>>} \cup {<<x>> : x \in FieldMaps}
        \cup {h \in {<<x, y>> : x, y \in FieldMaps \ {NoFields}} : h[1] # h[2]}

Named == {<<EmptyMap, EmptyMap, EmptyMap>>,
          <<EmptyMap, [n \in {n1} |-> 2], EmptyMap>>,
          <<[n \in {n1} |-> 1], [n \in {n1, n2} |-> 2], [n \in {n2} |-> 2]>>}

MCSources ==
    {Database(v, hs, w, place[1], place[2], names) :
        v \in FieldMaps, hs \in Histories, w \in TwoSecrets,
        place \in {<<r, a>>, <<r, r>>, <<a, a>>}, names \in Named}

\* A document with e2 in a group that comes before e1
Found ==
    LET d == Database([Password |-> Secret(<<"x">>)], <<[Password |-> Secret(<<"y">>)]>>,
                      NoFields, r, a, <<EmptyMap, EmptyMap, EmptyMap>>)
    IN CHOOSE x \in Documents(d) : TRUE

\* Twice the same entry or group, names for binaries and icons that the document
\* does not have, and a history that belongs to another entry or to none
MCFound ==
    LET group == Found.root.children[1]
        entry == Found.root.children[2]
        holding(xs) == [Found EXCEPT !.root.children = xs]
    IN {Found,
        holding(<<group, entry, entry>>),
        holding(<<group, [group EXCEPT !.children = <<>>]>>),
        holding(<<group, [entry EXCEPT !.live.binaries = [n \in {n1} |-> 0]]>>),
        holding(<<group, [entry EXCEPT !.history[1].binaries = [n \in {n1} |-> 1]]>>),
        holding(<<[group EXCEPT !.icons = <<c2>>], entry>>),
        holding(<<group, [entry EXCEPT !.live.icons = <<c2, key>>]>>),
        holding(<<[entry EXCEPT !.live.uuid = e2, !.history[1].uuid = e2],
                  [entry EXCEPT !.history[1].uuid = e2]>>),
        holding(<<[entry EXCEPT !.history[1].uuid = e2]>>)}
        \cup {[Found EXCEPT !.binaries = bs] :
                bs \in {<<Protected(Plain(<<"x">>), 0)>>,
                        <<Protected(Secret(<<"x">>), 0), Protected(Secret(<<"y">>), 1)>>}}
=============================================================================
