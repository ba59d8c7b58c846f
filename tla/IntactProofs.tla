---------------------------- MODULE IntactProofs ----------------------------
(***************************************************************************)
(* What becomes of files that nothing has happened to: a call reads what   *)
(* the save wrote, or says that the key is wrong.                          *)
(***************************************************************************)
EXTENDS DamageProofs

----------------------------------------------------------------------------
(* Where the parts of a file are.                                          *)

Layout(s) == IF s.format = "KDB3" THEN Kdbx3Layout ELSE s.layout
Known(s) == IF s.format = "KDB3" THEN Kdbx3Fields ELSE Kdbx4Fields
Needed(s) == IF s.format = "KDB3" THEN Kdbx3Fields ELSE Kdbx4Required

BeginLaid(s, F, L, l) ==
    /\ l \in Nat /\ IsSeq(F) /\ l + 2 <= Len(F)
    /\ F[1] = VersionCell(s) /\ F[l + 2] = <<"end">>
    /\ \A i \in 1 .. l : F[i + 1] = <<"field", L[i], FieldValue(s, L[i])>>

\* A KDBX4 file begins with its header,
LEMMA Kdbx4Begins ==
    ASSUME NEW s, IsSave(s), s.format = "KDB4", NEW F, F = FileOf(s),
           NEW l, l = Len(s.layout)
    PROVE  BeginLaid(s, F, s.layout, l)
<1> DEFINE H == OuterHeader(s)
           W == Stream(WrittenBlocks(s), SaveHmacKey(s))
           h == Len(H)
           n == Len(W)
<1>1. Kdbx4Laid(s, F, H, h, W, n)
  <2>1. H = OuterHeader(s) /\ W = Stream(WrittenBlocks(s), SaveHmacKey(s)) /\ h = Len(H) /\ n = Len(W)
    OBVIOUS
  <2> HIDE DEF H, W, h, n
  <2> QED  BY <2>1, Kdbx4FileIs
<1>2. HeaderLaid(s, H, l)
  <2>1. H = OuterHeader(s)
    OBVIOUS
  <2> HIDE DEF H
  <2> QED  BY <2>1, OuterHeaderIs
<1> HIDE DEF H, W, h, n
<1>3. /\ l \in Nat /\ h = l + 2 /\ H[1] = VersionCell(s) /\ H[l + 2] = <<"end">>
      /\ \A i \in 1 .. l : H[i + 1] = <<"field", s.layout[i], FieldValue(s, s.layout[i])>>
  BY <1>2 DEF HeaderLaid, h
<1>4. IsSeq(F) /\ n \in Nat /\ Len(F) = h + 2 + n /\ \A i \in 1 .. h : F[i] = H[i]
  BY <1>1 DEF Kdbx4Laid
<1>5. 1 \in 1 .. h /\ l + 2 \in 1 .. h /\ l + 2 <= Len(F) /\ \A i \in 1 .. l : i + 1 \in 1 .. h
  BY <1>3, <1>4
<1>6. F[1] = H[1] /\ F[l + 2] = H[l + 2] /\ \A i \in 1 .. l : F[i + 1] = H[i + 1]
  BY <1>4, <1>5
<1> QED  BY <1>3, <1>4, <1>5, <1>6 DEF BeginLaid

\* The encrypted part of a file is behind n cells.
Behind(s, F, n) ==
    /\ Len(F) = n + Len(Secret(s))
    /\ \A i \in 1 .. Len(Secret(s)) : F[n + i] = Secret(s)[i]

\* and so does a KDBX3 file, in which the ciphertext follows.
LEMMA Kdbx3Begins ==
    ASSUME NEW s, IsSave(s), s.format = "KDB3", NEW F, F = FileOf(s)
    PROVE  /\ BeginLaid(s, F, Kdbx3Layout, 10) /\ Behind(s, F, 12)
           /\ IsSeq(Kdbx3Layout) /\ Len(Kdbx3Layout) = 10
<1> DEFINE L == Kdbx3Layout
           g == [i \in DOMAIN Kdbx3Layout |-> <<"field", Kdbx3Layout[i], FieldValue(s, Kdbx3Layout[i])>>]
           v == <<VersionCell(s)>>
           e == <<<<"end">>>>
           E == Secret(s)
           r == Joined(v, g)
           t == Joined(r, e)
<1>1. IsSeq(L) /\ Len(L) = 10 /\ DOMAIN L = 1 .. 10
  <2> DEFINE S == Kdbx3Fields \cup {"comment"}
  <2>1. L \in Seq(S) /\ Len(L) = 10
    BY DEF Kdbx3Layout, Kdbx3Fields
  <2> HIDE DEF L, S
  <2> QED  BY <2>1 DEF IsSeq
<1>2. IsSeq(g) /\ Len(g) = 10 /\ \A i \in 1 .. 10 : g[i] = <<"field", L[i], FieldValue(s, L[i])>>
  <2>1. g = [i \in 1 .. 10 |-> g[i]] /\ \A i \in 1 .. 10 : g[i] = <<"field", L[i], FieldValue(s, L[i])>>
    BY <1>1
  <2> HIDE DEF g
  <2> QED  BY <2>1, FunctionIsSeq
<1>3. F = Joined(t, E)
  BY DEF FileOf, Kdbx3File, Secret, FileMaster, FilePayload, VersionCell, Joined
<1>4. IsSeq(v) /\ Len(v) = 1 /\ v[1] = VersionCell(s) /\ IsSeq(e) /\ Len(e) = 1 /\ e[1] = <<"end">>
  BY TuplesAreSeqs
<1>5. IsSeq(E)
  BY SecretIs
<1> HIDE DEF g, v, e, E, L
<1>6. JoinsTo(v, g, r, 1, 10)
  <2> HIDE DEF r
  <2>1. r = Joined(v, g)
    BY DEF r
  <2> QED  BY <1>2, <1>4, <2>1, JoinedAt
<1>7. IsSeq(r) /\ Len(r) = 11
  BY <1>6 DEF JoinsTo
<1>8. JoinsTo(r, e, t, 11, 1)
  <2>1. t = Joined(r, e)
    OBVIOUS
  <2> HIDE DEF r, t
  <2> QED  BY <1>4, <1>7, <2>1, JoinedAt
<1>9. IsSeq(t) /\ Len(t) = 12
  BY <1>8 DEF JoinsTo
<1> HIDE DEF r, t
<1> DEFINE n == Len(E)
<1>10. JoinsTo(t, E, F, 12, n)
  <2>1. n = Len(E)
    OBVIOUS
  <2> HIDE DEF n
  <2> QED  BY <1>3, <1>5, <1>9, <2>1, JoinedAt
<1>11. IsSeq(F) /\ Len(F) = 12 + n /\ n \in Nat
  BY <1>10 DEF JoinsTo
<1>12. Behind(s, F, 12)
  BY <1>10 DEF JoinsTo, Behind, E, n
<1> HIDE DEF n
<1>13. F[1] = VersionCell(s)
  <2>1. v[1] = r[1]
    BY <1>6 DEF JoinsTo
  <2>2. r[1] = t[1]
    BY <1>8 DEF JoinsTo
  <2>3. t[1] = F[1]
    BY <1>10 DEF JoinsTo
  <2> QED  BY <1>4, <2>1, <2>2, <2>3
<1>14. F[12] = <<"end">>
  <2>1. t[11 + 1] = e[1]
    BY <1>8 DEF JoinsTo
  <2>2. F[12] = t[12]
    BY <1>10 DEF JoinsTo
  <2> QED  BY <1>4, <2>1, <2>2
<1>15. ASSUME NEW i \in 1 .. 10 PROVE F[i + 1] = <<"field", L[i], FieldValue(s, L[i])>>
  <2>1. i + 1 \in 1 .. 11 /\ i + 1 \in 1 .. 12 /\ i + 1 = 1 + i
    OBVIOUS
  <2>2. r[1 + i] = g[i]
    BY <1>6 DEF JoinsTo
  <2>3. t[i + 1] = r[i + 1]
    BY <1>8, <2>1 DEF JoinsTo
  <2>4. F[i + 1] = t[i + 1]
    BY <1>10, <2>1 DEF JoinsTo
  <2> QED  BY <1>2, <2>1, <2>2, <2>3, <2>4
<1> QED  BY <1>1, <1>11, <1>12, <1>13, <1>14, <1>15 DEF BeginLaid, L

\* The ciphertext of a KDB file follows a header of 124 bytes.
LEMMA KdbBegins ==
    ASSUME NEW s, IsSave(s), s.format = "KDB", NEW F, F = FileOf(s)
    PROVE  /\ IsSeq(F) /\ Behind(s, F, 2) /\ F[1] = VersionCell(s) /\ F[2] = <<"kdb header", KdbHeader(s)>>
<1> DEFINE c == <<"kdb header", KdbHeader(s)>>
           v == <<VersionCell(s), c>>
           E == Secret(s)
<1>1. F = Joined(v, E)
  BY DEF FileOf, KdbFile, Secret, FileMaster, FilePayload, VersionCell, Joined
<1>2. IsSeq(v) /\ Len(v) = 2 /\ v[1] = VersionCell(s) /\ v[2] = c
  <2> HIDE DEF c
  <2> QED  BY TuplesAreSeqs
<1>3. IsSeq(E)
  BY SecretIs
<1> DEFINE n == Len(E)
<1> HIDE DEF v, c, E
<1>4. JoinsTo(v, E, F, 2, n)
  <2>1. n = Len(E)
    OBVIOUS
  <2> HIDE DEF n
  <2> QED  BY <1>1, <1>2, <1>3, <2>1, JoinedAt
<1>5. IsSeq(F) /\ Behind(s, F, 2)
  BY <1>4 DEF JoinsTo, Behind, E, n
<1>6. F[1] = v[1] /\ F[2] = v[2]
  BY <1>4 DEF JoinsTo
<1> QED  BY <1>2, <1>5, <1>6 DEF c

----------------------------------------------------------------------------
(* The outer header of a file that nothing has happened to.                *)

\* Which values the readers know.
LEMMA LegibleIs ==
    ASSUME NEW v
    PROVE  /\ Legible("cipher", v) <=> v[1] \in OuterCiphers
           /\ Legible("compression", v) <=> v[1] \in Compressions
           /\ Legible("inner cipher", v) <=> v[1] \in InnerCiphers
           /\ Legible("rounds", v) <=> v # Short
           /\ Legible("kdf", v) <=> v \notin {Damaged, Short}
           /\ Legible("public", v) <=> v \notin {Damaged, Short}
           /\ \A f : f \notin {"cipher", "compression", "inner cipher", "rounds", "kdf", "public"} =>
                    Legible(f, v)
BY Zenon DEF Legible

\* The reader knows the fields that were written and what is in them.
LEMMA FieldsKnown ==
    ASSUME NEW s, IsSave(s), s.format \in {"KDB3", "KDB4"}, Readable(s),
           NEW i \in 1 .. Len(Layout(s)), NEW f, f = Layout(s)[i]
    PROVE  /\ f \in Known(s) \cup {"comment"} /\ f \in Fields \cup {"comment"}
           /\ Legible(f, FieldValue(s, f))
<1>1. f \in Known(s) \cup {"comment"} /\ f \in Fields \cup {"comment"}
  <2>0. Kdbx3Fields \subseteq Fields /\ Kdbx4Fields \subseteq Fields
    BY KnownFields
  <2>1. CASE s.format = "KDB3"
    <3> DEFINE S == Kdbx3Fields \cup {"comment"}
    <3>1. Kdbx3Layout \in Seq(S)
      BY DEF Kdbx3Layout, Kdbx3Fields
    <3>2. f = Kdbx3Layout[i] /\ i \in 1 .. Len(Kdbx3Layout)
      BY <2>1 DEF Layout
    <3> HIDE DEF S
    <3>3. f \in S
      BY <3>1, <3>2
    <3> QED  BY <2>0, <2>1, <3>3 DEF S, Known
  <2>2. CASE s.format = "KDB4"
    <3>1. f = s.layout[i] /\ i \in 1 .. Len(s.layout) /\ IsSeq(s.layout)
      BY <2>2 DEF Layout, IsSave, IsSeq
    <3>2. f \in Range(s.layout)
      BY <3>1, RangeIs
    <3> QED  BY <2>0, <2>2, <3>2 DEF Readable, Known
  <2> QED  BY <2>1, <2>2
<1>2. CASE f \notin {"cipher", "compression", "inner cipher", "rounds", "kdf", "public"}
  BY <1>1, <1>2, LegibleIs, Zenon
<1>3. CASE f = "cipher"
  <2>1. FieldValue(s, f) = <<s.outer>> /\ s.outer \in OuterCiphers
    BY <1>3, FieldValues DEF IsSave
  <2>2. FieldValue(s, f)[1] \in OuterCiphers
    BY <2>1
  <2> QED  BY <1>1, <1>3, <2>2, LegibleIs
<1>4. CASE f = "compression"
  <2>1. FieldValue(s, f) = <<s.compression>> /\ s.compression \in Compressions
    BY <1>4, FieldValues DEF IsSave
  <2>2. FieldValue(s, f)[1] \in Compressions
    BY <2>1
  <2> QED  BY <1>1, <1>4, <2>2, LegibleIs
<1>5. CASE f = "inner cipher"
  <2>1. FieldValue(s, f) = <<s.inner>> /\ s.inner \in InnerCiphers
    BY <1>5, FieldValues, Zenon DEF Readable
  <2>2. FieldValue(s, f)[1] \in InnerCiphers
    BY <2>1
  <2> QED  BY <1>1, <1>5, <2>2, LegibleIs, Zenon
<1>6. CASE f = "kdf"
  <2>1. FieldValue(s, f) = <<"kdf", s.kdf, KdfSeed(s)>>
    BY <1>6, FieldValues
  <2> DEFINE x == KdfSeed(s)
  <2> HIDE DEF x
  <2>2. FieldValue(s, f) = <<"kdf", s.kdf, x>>
    BY <2>1 DEF x
  <2>3. FieldValue(s, f) # Damaged /\ FieldValue(s, f) # Short
    BY <2>2 DEF Damaged, Short
  <2> QED  BY <1>1, <1>6, <2>3, LegibleIs
<1>7. CASE f = "public"
  <2>1. FieldValue(s, f) = s.public[1]
    BY <1>7, FieldValues
  <2>2. s.format = "KDB4"
    <3> SUFFICES ASSUME s.format = "KDB3" PROVE FALSE
      OBVIOUS
    <3>1. "public" \notin Kdbx3Fields
      BY Zenon DEF Kdbx3Fields
    <3> QED  BY <1>1, <1>7, <3>1 DEF Known
  <2>3. "public" \in Range(s.layout)
    <3>1. f = s.layout[i] /\ i \in 1 .. Len(s.layout) /\ IsSeq(s.layout)
      BY <2>2 DEF Layout, IsSave, IsSeq
    <3> QED  BY <1>7, <3>1, RangeIs
  <2>4. AtMostOne(s.public) /\ s.public # Missing
        /\ s.public # Some(Damaged) /\ s.public # Some(Short)
    BY <2>3 DEF IsSave
  <2>5. s.public[1] # Damaged /\ s.public[1] # Short
    BY <2>4 DEF AtMostOne
  <2> QED  BY <1>1, <1>7, <2>1, <2>5, LegibleIs
<1>8. CASE f = "rounds"
  <2>1. FieldValue(s, f) = <<"rounds", s.kdf[2]>>
    BY <1>8, FieldValues
  <2>2. FieldValue(s, f) # Short
    BY <2>1 DEF Short
  <2> QED  BY <1>1, <1>8, <2>2, LegibleIs
<1> QED  BY <1>1, <1>2, <1>3, <1>4, <1>5, <1>6, <1>7, <1>8

\* The fields that a format requires were written.
LEMMA NeededThere ==
    ASSUME NEW s, IsSave(s), s.format \in {"KDB3", "KDB4"}, Readable(s), NEW f \in Needed(s)
    PROVE  f \in Fields /\ \E i \in 1 .. Len(Layout(s)) : Layout(s)[i] = f
<1>1. CASE s.format = "KDB3"
  <2> DEFINE L == Kdbx3Layout
             a == "cipher"
             b == "compression"
             c == "seed"
             d == "transform seed"
             e == "rounds"
             g == "iv"
             h == "stream key"
             j == "stream start"
             k == "inner cipher"
  <2>1. /\ L[2] = a /\ L[3] = b /\ L[4] = c /\ L[5] = d /\ L[6] = e /\ L[7] = g /\ L[8] = h
        /\ L[9] = j /\ L[10] = k
    BY DEF Kdbx3Layout
  <2>2. Len(L) = 10
    BY DEF Kdbx3Layout
  <2>3. f \in {a, b, c, d, e, g, h, j, k}
    BY <1>1, Zenon DEF Needed, Kdbx3Fields
  <2>4. f \in Fields
    BY <1>1, KnownFields DEF Needed
  <2>5. L = Layout(s)
    BY <1>1 DEF Layout
  <2> HIDE DEF L, a, b, c, d, e, g, h, j, k
  <2>6. \E i \in 1 .. 10 : L[i] = f
    BY <2>1, <2>3
  <2> QED  BY <2>2, <2>4, <2>5, <2>6
<1>2. CASE s.format = "KDB4"
  <2>1. f \in Range(s.layout) /\ IsSeq(s.layout)
    BY <1>2 DEF Readable, Needed, IsSave, IsSeq
  <2>2. \E i \in 1 .. Len(s.layout) : s.layout[i] = f
    BY <2>1, RangeIs
  <2>3. f \in Fields
    BY <1>2, KnownFields DEF Needed, Kdbx4Fields
  <2> QED  BY <1>2, <2>2, <2>3 DEF Layout
<1> QED  BY <1>1, <1>2

----------------------------------------------------------------------------
(* Reading it.                                                             *)

\* A call that has a file to open which is as it was written, and which the
\* reader knows.
Untouched ==
    /\ data = FileOf(origin) /\ op # "get_version" /\ Readable(origin)

\* The first n fields are read.
ReadTo(n) ==
    \A f \in Fields :
        header[f] = IF \E i \in 1 .. n : Layout(origin)[i] = f THEN Some(FieldValue(origin, f))
                    ELSE Missing

HeaderStage(l) == pos \in 2 .. l + 2 /\ ReadTo(pos - 2)
BodyStage(l) == pos = l + 3 /\ ReadTo(l)

\* The file and its parts.
LEMMA UntouchedIs ==
    ASSUME FileInv, Untouched, origin.format \in {"KDB3", "KDB4"}, NEW l, l = Len(Layout(origin))
    PROVE  IsSave(origin) /\ BeginLaid(origin, data, Layout(origin), l)
<1>1. IsSave(origin)
  BY SavesAre
<1>2. CASE origin.format = "KDB4"
  BY <1>1, <1>2, Kdbx4Begins DEF Untouched, Layout
<1>3. CASE origin.format = "KDB3"
  <2>1. BeginLaid(origin, data, Kdbx3Layout, 10) /\ Len(Kdbx3Layout) = 10
    BY <1>1, <1>3, Kdbx3Begins DEF Untouched
  <2> QED  BY <1>1, <1>3, <2>1 DEF Layout
<1> QED  BY <1>2, <1>3

\* The next cell is a field that the reader knows, or the end of the header.
LEMMA HeaderCell ==
    ASSUME FileInv, Untouched, origin.format \in {"KDB3", "KDB4"}, NEW l, l = Len(Layout(origin)),
           HeaderStage(l)
    PROVE  /\ l \in Nat /\ pos \in 2 .. l + 2 /\ ~ AtEnd(data)
           /\ IF pos = l + 2 THEN data[pos] = <<"end">>
              ELSE /\ FieldHere(Known(origin)) /\ data[pos] # <<"end">> /\ pos - 1 \in 1 .. l
                   /\ data[pos][2] = Layout(origin)[pos - 1]
                   /\ data[pos][3] = FieldValue(origin, Layout(origin)[pos - 1])
<1>1. IsSave(origin) /\ BeginLaid(origin, data, Layout(origin), l) /\ Len(data) \in Nat
  BY UntouchedIs, SavesAre
<1>2. l \in Nat /\ pos \in 2 .. l + 2 /\ ~ AtEnd(data)
  BY <1>1 DEF BeginLaid, HeaderStage, AtEnd
<1>3. CASE pos = l + 2
  BY <1>1, <1>2, <1>3 DEF BeginLaid
<1>4. CASE pos # l + 2
  <2>1. PICK i \in 1 .. l : i = pos - 1 /\ i + 1 = pos
    BY <1>2, <1>4
  <2> DEFINE f == Layout(origin)[i]
             v == FieldValue(origin, f)
  <2>2. data[pos] = <<"field", f, v>>
    BY <1>1, <2>1 DEF BeginLaid
  <2>3. f \in Known(origin) \cup {"comment"} /\ Legible(f, v)
    <3> DEFINE g == Layout(origin)[i]
    <3>1. g = Layout(origin)[i] /\ i \in 1 .. Len(Layout(origin)) /\ Readable(origin)
      BY DEF Untouched
    <3> HIDE DEF g
    <3>2. g \in Known(origin) \cup {"comment"} /\ Legible(g, FieldValue(origin, g))
      BY <1>1, <3>1, FieldsKnown
    <3> QED  BY <3>1, <3>2
  <2>4. f = Layout(origin)[pos - 1] /\ v = FieldValue(origin, Layout(origin)[pos - 1])
    BY <2>1
  <2> HIDE DEF f, v
  <2>5. data[pos][1] = "field" /\ data[pos][2] = f /\ data[pos][3] = v
    BY <2>2
  <2>6. data[pos] # <<"end">>
    BY <2>5
  <2>7. FieldHere(Known(origin))
    BY <1>2, <2>3, <2>5 DEF FieldHere
  <2> QED  BY <1>2, <1>4, <2>1, <2>4, <2>5, <2>6, <2>7
<1> QED  BY <1>2, <1>3, <1>4

\* One more of them is read.
LEMMA IntactField ==
    ASSUME FileInv, Untouched, origin.format \in {"KDB3", "KDB4"}, NEW l, l = Len(Layout(origin)),
           HeaderStage(l), HeaderRead(pos - 1, Known(origin)), UNCHANGED origin,
           HeaderField(origin.format, Known(origin))
    PROVE  HeaderStage(l)'
<1> DEFINE L == Layout(origin)
           c == "comment"
<1>1. /\ l \in Nat /\ pos \in 2 .. l + 2 /\ pos # l + 2 /\ pos - 1 \in 1 .. l
      /\ data[pos][2] = L[pos - 1] /\ data[pos][3] = FieldValue(origin, L[pos - 1])
  <2>1. data[pos][1] = "field"
    BY DEF HeaderField, FieldHere
  <2>2. data[pos] # <<"end">>
    BY <2>1
  <2> QED  BY <2>2, HeaderCell
<1>2. PICK n \in Nat : n = pos - 2 /\ n + 1 = pos - 1 /\ pos + 1 = n + 3
  BY <1>1
<1> DEFINE f == L[n + 1]
           v == FieldValue(origin, f)
<1>3. /\ pos' = pos + 1 /\ DOMAIN header = Fields /\ Layout(origin') = L /\ origin' = origin
      /\ header' = IF f = c THEN header ELSE [header EXCEPT ![f] = Some(v)]
  BY <1>1, <1>2 DEF HeaderField, Advanced, HeaderRead
<1>4. \A g \in Fields :
         header[g] = IF \E i \in 1 .. n : L[i] = g THEN Some(FieldValue(origin, g)) ELSE Missing
  BY <1>2 DEF HeaderStage, ReadTo
<1>5. c \notin Fields
  BY DEF Fields
<1>6. f = L[n + 1]
  OBVIOUS
<1>7. \A i \in 1 .. n + 1 : i \in 1 .. n \/ i = n + 1
  OBVIOUS
<1>8. \A i \in 1 .. n : i \in 1 .. n + 1
  OBVIOUS
<1>9. n + 1 \in 1 .. n + 1
  OBVIOUS
<1>a. v = FieldValue(origin, f)
  OBVIOUS
<1> HIDE DEF L, c, f, v
<1>10. ASSUME NEW g \in Fields
       PROVE  header'[g] = IF \E i \in 1 .. n + 1 : L[i] = g THEN Some(FieldValue(origin, g))
                           ELSE Missing
  <2>1. CASE g = f
    <3>1. header'[g] = Some(FieldValue(origin, g))
      BY <1>3, <1>5, <1>a, <2>1
    <3> QED  BY <1>6, <1>9, <2>1, <3>1
  <2>2. CASE g # f
    <3>1. header'[g] = header[g]
      BY <1>3, <2>2
    <3>2. (\E i \in 1 .. n + 1 : L[i] = g) <=> (\E i \in 1 .. n : L[i] = g)
      BY <1>6, <1>7, <1>8, <2>2
    <3> QED  BY <1>4, <3>1, <3>2
  <2> QED  BY <2>1, <2>2
<1>11. ReadTo(n + 1)'
  BY <1>3, <1>10 DEF ReadTo, L
<1>12. pos' \in 2 .. l + 2 /\ pos' - 2 = n + 1
  BY <1>1, <1>2, <1>3
<1> QED  BY <1>11, <1>12 DEF HeaderStage, ReadTo

\* The header does not fail, and
LEMMA IntactHeaderStays ==
    ASSUME FileInv, Untouched, origin.format \in {"KDB3", "KDB4"}, NEW l, l = Len(Layout(origin)),
           HeaderStage(l)
    PROVE  ~ HeaderFails(origin.format, Known(origin))
BY HeaderCell DEF HeaderFails

\* it ends with all that is required.
LEMMA IntactHeaderEnds ==
    ASSUME FileInv, Untouched, origin.format \in {"KDB3", "KDB4"}, NEW l, l = Len(Layout(origin)),
           HeaderStage(l), UNCHANGED origin, NEW to,
           HeaderEnds(origin.format, Needed(origin), to)
    PROVE  BodyStage(l)' /\ pc' = to
<1>1. l \in Nat /\ pos = l + 2
  BY HeaderCell DEF HeaderEnds
<1>2. ReadTo(l)
  BY <1>1 DEF HeaderStage
<1>3. \A f \in Needed(origin) : header[f] # Missing
  <2> SUFFICES ASSUME NEW f \in Needed(origin) PROVE header[f] # Missing
    OBVIOUS
  <2>1. f \in Fields /\ \E i \in 1 .. l : Layout(origin)[i] = f
    BY NeededThere, SavesAre DEF Untouched
  <2> DEFINE v == FieldValue(origin, f)
  <2>2. header[f] = Some(v)
    BY <1>2, <2>1 DEF ReadTo
  <2> HIDE DEF v
  <2> QED  BY <2>2 DEF Some, Missing
<1>4. pos' = pos + 1 /\ pc' = to /\ header' = header /\ origin' = origin
  BY <1>3 DEF HeaderEnds, Proceed, containerVars
<1>5. ReadTo(l)'
  BY <1>2, <1>4 DEF ReadTo
<1> QED  BY <1>1, <1>4, <1>5 DEF BodyStage

----------------------------------------------------------------------------
(* The key.                                                                *)

\* What is there at most once, as a set
LEMMA RangeOfOne ==
    ASSUME NEW x, AtMostOne(x)
    PROVE  (x = Missing /\ Range(x) = {}) \/ (x # Missing /\ Range(x) = {x[1]})
<1>1. ASSUME x = <<x[1]>> PROVE Range(x) = {x[1]}
  BY <1>1 DEF Range
<1>2. Range(Missing) = {}
  BY DEF Range, Missing
<1> QED  BY <1>1, <1>2 DEF AtMostOne, Some

\* Who has the same parts has the same elements, of whatever kind of keyfile or
\* device they are.
LEMMA ElementsFromParts ==
    ASSUME NEW k, IsKey(k), NEW l, IsKey(l), SameParts(k, l), NEW seed,
           NEW c, c = Challenged(k, seed), NEW d, d = Challenged(l, seed)
    PROVE  /\ KeyElements(c) = KeyElements(d) /\ KeyError(c) = KeyError(d)
           /\ k.challenge = Missing <=> l.challenge = Missing
<1>1. /\ c.password = k.password /\ c.keyfile = k.keyfile /\ c.challenge = k.challenge
      /\ k.challenge = Missing => c.response = Missing
      /\ k.challenge # Missing =>
           /\ c.response # Missing
           /\ c.response = <<HmacSha1(SecretOf(k.challenge[1]), seed)>>
  BY ChallengedIs
<1>2. /\ d.password = l.password /\ d.keyfile = l.keyfile /\ d.challenge = l.challenge
      /\ l.challenge = Missing => d.response = Missing
      /\ l.challenge # Missing =>
           /\ d.response # Missing
           /\ d.response = <<HmacSha1(SecretOf(l.challenge[1]), seed)>>
  BY ChallengedIs
<1>3. /\ AtMostOne(k.keyfile) /\ AtMostOne(l.keyfile)
      /\ AtMostOne(k.challenge) /\ AtMostOne(l.challenge)
  BY DEF IsKey
<1>4. c.password = d.password
  BY <1>1, <1>2 DEF SameParts
<1>5. \/ c.keyfile = Missing /\ d.keyfile = Missing
      \/ /\ c.keyfile # Missing /\ d.keyfile # Missing
         /\ KeyfileElement(c.keyfile[1]) = KeyfileElement(d.keyfile[1])
  <2>1. {KeyfileElement(f) : f \in Range(k.keyfile)} = {KeyfileElement(f) : f \in Range(l.keyfile)}
    BY DEF SameParts
  <2>2. (k.keyfile = Missing /\ Range(k.keyfile) = {})
        \/ (k.keyfile # Missing /\ Range(k.keyfile) = {k.keyfile[1]})
    BY <1>3, RangeOfOne
  <2>3. (l.keyfile = Missing /\ Range(l.keyfile) = {})
        \/ (l.keyfile # Missing /\ Range(l.keyfile) = {l.keyfile[1]})
    BY <1>3, RangeOfOne
  <2> QED  BY <1>1, <1>2, <2>1, <2>2, <2>3
<1>6. \/ k.challenge = Missing /\ l.challenge = Missing
      \/ /\ k.challenge # Missing /\ l.challenge # Missing
         /\ SecretOf(k.challenge[1]) = SecretOf(l.challenge[1])
  <2>1. {SecretOf(x) : x \in Range(k.challenge)} = {SecretOf(x) : x \in Range(l.challenge)}
    BY DEF SameParts
  <2>2. (k.challenge = Missing /\ Range(k.challenge) = {})
        \/ (k.challenge # Missing /\ Range(k.challenge) = {k.challenge[1]})
    BY <1>3, RangeOfOne
  <2>3. (l.challenge = Missing /\ Range(l.challenge) = {})
        \/ (l.challenge # Missing /\ Range(l.challenge) = {l.challenge[1]})
    BY <1>3, RangeOfOne
  <2> QED  BY <2>1, <2>2, <2>3
<1>7. c.response = d.response
  BY <1>1, <1>2, <1>6
<1>8. KeyElements(c) = KeyElements(d)
  <2>1. (IF c.keyfile = Missing THEN <<>> ELSE <<KeyfileElement(c.keyfile[1])>>) =
        (IF d.keyfile = Missing THEN <<>> ELSE <<KeyfileElement(d.keyfile[1])>>)
    BY <1>5
  <2> QED  BY <1>4, <1>7, <2>1 DEF KeyElements
<1>9. KeyError(c) = KeyError(d)
  BY <1>1, <1>2, <1>4, <1>5, <1>6, <1>7 DEF KeyError
<1> QED  BY <1>6, <1>8, <1>9

----------------------------------------------------------------------------
(* The checks of a KDBX4 file.                                             *)

\* What is behind the header of a KDBX4 file
Body4(l) ==
    /\ HeaderData = OuterHeader(origin) /\ Present(pos) /\ Present(pos + 1)
    /\ data[pos] = ShaCell(origin) /\ data[pos + 1] = HmacCell(origin)
    /\ header["seed"][1] = FieldValue(origin, "seed")
    /\ HeaderKdf = origin.kdf /\ HeaderKdfSeed = KdfSeed(origin) /\ KdfWorks(HeaderKdf)

\* is what the writer calculated of it (dump_kdbx4).
LEMMA Body4Is ==
    ASSUME FileInv, Untouched, origin.format = "KDB4", NEW l, l = Len(Layout(origin)), BodyStage(l)
    PROVE  Body4(l)
<1> DEFINE H == OuterHeader(origin)
           W == Stream(WrittenBlocks(origin), SaveHmacKey(origin))
           h == Len(H)
           n == Len(W)
<1>0. IsSave(origin) /\ l = Len(origin.layout) /\ IsSeq(data) /\ DOMAIN data = 1 .. Len(data)
  BY SavesAre DEF Layout
<1>1. Kdbx4Laid(origin, data, H, h, W, n)
  <2>1. H = OuterHeader(origin) /\ W = Stream(WrittenBlocks(origin), SaveHmacKey(origin))
        /\ h = Len(H) /\ n = Len(W) /\ data = FileOf(origin)
    BY DEF Untouched
  <2> HIDE DEF H, W, h, n
  <2> QED  BY <1>0, <2>1, Kdbx4FileIs
<1>2. HeaderLaid(origin, H, l)
  <2>1. H = OuterHeader(origin)
    OBVIOUS
  <2> HIDE DEF H
  <2> QED  BY <1>0, <2>1, OuterHeaderIs
<1>3. IsSeq(H) /\ l \in Nat /\ Len(H) = l + 2
  BY <1>2 DEF HeaderLaid
<1> HIDE DEF H, W, n
<1>4. /\ n \in Nat /\ Len(data) = l + 2 + 2 + n
      /\ \A i \in 1 .. l + 2 : data[i] = H[i]
      /\ data[l + 2 + 1] = ShaCell(origin) /\ data[l + 2 + 2] = HmacCell(origin)
  BY <1>1, <1>3 DEF Kdbx4Laid, h
<1>5. /\ pos = l + 2 + 1 /\ pos + 1 = l + 2 + 2 /\ pos - 1 = l + 2 /\ l + 2 \in 0 .. Len(data)
      /\ pos \in 1 .. Len(data) /\ pos + 1 \in 1 .. Len(data)
  BY <1>3, <1>4 DEF BodyStage
<1>6. HeaderData = H
  <2> DEFINE m == l + 2
             D == Part(data, 1, m)
  <2>1. IsSeq(D) /\ Len(D) = m /\ \A i \in 1 .. m : D[i] = data[i]
    <3>1. m \in 0 .. Len(data)
      BY <1>5
    <3> HIDE DEF m
    <3> QED  BY <1>0, <3>1, PartOfBeginning
  <2>2. Len(D) = Len(H) /\ \A i \in 1 .. Len(D) : D[i] = H[i]
    <3> HIDE DEF D
    <3> QED  BY <1>3, <1>4, <2>1
  <2>3. HeaderData = D
    BY <1>5 DEF HeaderData, Part
  <2> HIDE DEF D
  <2> QED  BY <1>3, <2>1, <2>2, <2>3, SeqsEqual
<1>7. ShaCell(origin) # Torn /\ HmacCell(origin) # Torn
  BY DEF ShaCell, HmacCell, Torn
<1>8. Present(pos) /\ Present(pos + 1)
  BY <1>0, <1>4, <1>5, <1>7 DEF Present
<1>9. \A f \in Kdbx4Required : header[f] = Some(FieldValue(origin, f))
  <2> SUFFICES ASSUME NEW f \in Kdbx4Required PROVE header[f] = Some(FieldValue(origin, f))
    OBVIOUS
  <2>1. f \in Needed(origin)
    BY DEF Needed
  <2>2. f \in Fields /\ \E i \in 1 .. l : Layout(origin)[i] = f
    BY <1>0, <2>1, NeededThere DEF Untouched
  <2> QED  BY <2>2 DEF BodyStage, ReadTo
<1>10. header["seed"][1] = FieldValue(origin, "seed")
  BY <1>9 DEF Kdbx4Required, Some
<1>11. HeaderKdf = origin.kdf /\ HeaderKdfSeed = KdfSeed(origin)
  <2> DEFINE x == KdfSeed(origin)
  <2>1. FieldValue(origin, "kdf") = <<"kdf", origin.kdf, x>>
    BY FieldValues
  <2>2. header["kdf"] = Some(FieldValue(origin, "kdf"))
    BY <1>9 DEF Kdbx4Required
  <2> HIDE DEF x
  <2>3. HeaderKdf = origin.kdf /\ HeaderKdfSeed = x
    BY <2>1, <2>2 DEF HeaderKdf, HeaderKdfSeed, Some
  <2> QED  BY <2>3 DEF x
<1>12. KdfWorks(origin.kdf)
  BY DEF Untouched, Readable
<1> QED  BY <1>4, <1>5, <1>6, <1>8, <1>10, <1>11, <1>12 DEF Body4, H

\* If the key answers and has elements, it is the right one or it is wrong.
LEMMA Kdbx4ErrorIs ==
    ASSUME FileInv, Untouched, origin.format = "KDB4", NEW l, l = Len(Layout(origin)), BodyStage(l),
           ~ ChallengeFails(dbKey, devices),
           KeyError(Challenged(dbKey, KdfSeed(origin))) = "none"
    PROVE  /\ Kdbx4Error \in {"IncorrectKey", "none"}
           /\ SameParts(dbKey, origin.key) => Kdbx4Error = "none"
<1>1. Body4(l)
  BY Body4Is
<1> DEFINE key == Challenged(dbKey, HeaderKdfSeed)
<1>2. ~ (~ Present(pos) \/ ~ Present(pos + 1)) /\ data[pos] = <<"sha256", Sha256(HeaderData)>>
      /\ KeyError(key) = "none" /\ KdfWorks(HeaderKdf)
  BY <1>1 DEF Body4, ShaCell
<1>3. Kdbx4Error = IF ChecksIncorrect(key) THEN "IncorrectKey" ELSE "none"
  BY <1>2, Zenon DEF Kdbx4Error
<1>4. ASSUME SameParts(dbKey, origin.key) PROVE ~ ChecksIncorrect(key)
  <2>1. IsKey(dbKey) /\ IsKey(origin.key)
    BY SavesAre DEF FileInv
  <2>2. key = Challenged(dbKey, KdfSeed(origin))
    BY <1>1 DEF Body4
  <2>3. KeyElements(key) = KeyElements(SaveKey(origin))
    <3> DEFINE d == Challenged(origin.key, KdfSeed(origin))
               x == KdfSeed(origin)
    <3>1. key = Challenged(dbKey, x) /\ d = Challenged(origin.key, x)
      BY <2>2
    <3> HIDE DEF key, d, x
    <3>2. KeyElements(key) = KeyElements(d)
      BY <1>4, <2>1, <3>1, ElementsFromParts
    <3> QED  BY <3>2 DEF d, SaveKey
  <2>4. HeaderHmacKey(key) = SaveHmacKey(origin)
    <3> HIDE DEF key
    <3> QED  BY <1>1, <2>3 DEF Body4, HeaderHmacKey, SaveHmacKey, HmacOf, CompositeKey
  <2>5. data[pos + 1] = <<"hmac", HeaderMac(SaveHmacKey(origin), HeaderData)>>
    BY <1>1 DEF Body4, HmacCell
  <2> QED  BY <2>4, <2>5 DEF ChecksIncorrect
<1> QED  BY <1>3, <1>4

----------------------------------------------------------------------------
(* Which steps there are where the reader is.                              *)

\* The arguments of a call do not change,
LEMMA CallStays ==
    ASSUME Next PROVE UNCHANGED <<data, op, dbKey, devices, origin, written>>
<1>0. origin' = origin
  BY DEF Next
<1>1. \/ BadVersion \/ GetVersion \/ Unsupported \/ Dispatch
      \/ Kdbx4Next \/ Kdbx3Next
      \/ GetXml \/ BadXml \/ ParseXml(OpenedKdf)
      \/ KdbRefused \/ KdbDecrypt \/ KdbPadding \/ KdbStart \/ KdbField \/ KdbEnds
  BY DEF Next, OpeningStep, ContainerStep
<1>2. CASE BadVersion \/ GetVersion \/ Unsupported \/ Dispatch
  BY <1>0, <1>2 DEF BadVersion, GetVersion, Unsupported, Dispatch
<1>3. CASE Kdbx4Next
  <2>1. CASE Kdbx4Field \/ Kdbx4HeaderFails \/ Kdbx4HeaderEnds
    BY <1>0, <2>1 DEF Kdbx4Field, Kdbx4HeaderFails, Kdbx4HeaderEnds, HeaderField, HeaderFails, HeaderEnds
  <2>2. CASE Kdbx4Refused \/ Kdbx4Verified
    BY <1>0, <2>2 DEF Kdbx4Refused, Kdbx4Verified
  <2>3. CASE Kdbx4Block
    BY <1>0, <2>3 DEF Kdbx4Block, ReadStream, EndOfStream, BrokenBlock, ReadBlock, LastBlock
  <2>4. CASE Kdbx4Decrypt \/ Kdbx4Inflate
    BY <1>0, <2>4 DEF Kdbx4Decrypt, Kdbx4Inflate
  <2>5. CASE InnerField \/ InnerFails \/ InnerEnds
    BY <1>0, <2>5 DEF InnerField, InnerFails, InnerEnds
  <2> QED  BY <1>3, <2>1, <2>2, <2>3, <2>4, <2>5 DEF Kdbx4Next
<1>4. CASE Kdbx3Next
  <2>1. CASE Kdbx3Field \/ Kdbx3HeaderFails \/ Kdbx3HeaderEnds
    BY <1>0, <2>1 DEF Kdbx3Field, Kdbx3HeaderFails, Kdbx3HeaderEnds, HeaderField, HeaderFails, HeaderEnds
  <2>2. CASE Kdbx3Refused \/ Kdbx3Derive \/ Kdbx3Decrypt \/ Kdbx3Start
    BY <1>0, <2>2 DEF Kdbx3Refused, Kdbx3Derive, Kdbx3Decrypt, Kdbx3Start
  <2>3. CASE Kdbx3Block \/ Kdbx3BlockFails \/ Kdbx3Inflate
    BY <1>0, <2>3 DEF Kdbx3Block, Kdbx3BlockFails, Kdbx3Inflate
  <2> QED  BY <1>4, <2>1, <2>2, <2>3 DEF Kdbx3Next
<1>5. CASE GetXml \/ BadXml \/ ParseXml(OpenedKdf)
  BY <1>0, <1>5 DEF GetXml, BadXml, ParseXml
<1>6. CASE KdbRefused \/ KdbDecrypt \/ KdbPadding \/ KdbStart \/ KdbField \/ KdbEnds
  BY <1>0, <1>6 DEF KdbRefused, KdbDecrypt, KdbPadding, KdbStart, KdbField, KdbEnds, readerVars, blockVars
<1> QED  BY <1>1, <1>2, <1>3, <1>4, <1>5, <1>6

\* each step belongs to a place,
LEMMA PlacesAre ==
    /\ BadVersion \/ GetVersion \/ Unsupported \/ Dispatch => pc = "version"
    /\ Kdbx4Field \/ Kdbx4HeaderFails \/ Kdbx4HeaderEnds => pc = "KDB4"
    /\ Kdbx3Field \/ Kdbx3HeaderFails \/ Kdbx3HeaderEnds => pc = "KDB3"
    /\ Kdbx4Refused \/ Kdbx4Verified => pc = "KDB4 body"
    /\ Kdbx4Block => pc = "blocks"
    /\ Kdbx4Decrypt => pc = "decrypt"
    /\ Kdbx4Inflate => pc = "inflate"
    /\ InnerField \/ InnerFails \/ InnerEnds => pc = "inner"
    /\ Kdbx3Refused \/ Kdbx3Derive => pc = "KDB3 body"
    /\ Kdbx3Decrypt => pc = "decrypt3"
    /\ Kdbx3Start => pc = "stream start"
    /\ Kdbx3Block \/ Kdbx3BlockFails \/ Kdbx3Inflate => pc = "hashed blocks"
    /\ GetXml \/ BadXml \/ ParseXml(OpenedKdf) => pc = "xml"
    /\ KdbRefused \/ KdbDecrypt => pc = "KDB"
    /\ KdbPadding => pc = "KDB padding"
    /\ KdbStart \/ KdbField \/ KdbEnds => pc = "KDB fields"
<1>1. /\ BadVersion \/ GetVersion \/ Unsupported \/ Dispatch => pc = "version"
      /\ Kdbx4Field \/ Kdbx4HeaderFails \/ Kdbx4HeaderEnds => pc = "KDB4"
      /\ Kdbx3Field \/ Kdbx3HeaderFails \/ Kdbx3HeaderEnds => pc = "KDB3"
  BY Zenon DEF BadVersion, GetVersion, Unsupported, Dispatch, Kdbx4Field, Kdbx4HeaderFails, Kdbx4HeaderEnds,
         Kdbx3Field, Kdbx3HeaderFails, Kdbx3HeaderEnds, HeaderField, HeaderFails, HeaderEnds
<1>2. /\ Kdbx4Refused \/ Kdbx4Verified => pc = "KDB4 body"
      /\ Kdbx4Block => pc = "blocks"
      /\ Kdbx4Decrypt => pc = "decrypt"
      /\ Kdbx4Inflate => pc = "inflate"
  BY Zenon DEF Kdbx4Refused, Kdbx4Verified, Kdbx4Block, ReadStream, EndOfStream, BrokenBlock, ReadBlock,
         LastBlock, Kdbx4Decrypt, Kdbx4Inflate
<1>3. /\ InnerField \/ InnerFails \/ InnerEnds => pc = "inner"
      /\ Kdbx3Refused \/ Kdbx3Derive => pc = "KDB3 body"
      /\ Kdbx3Decrypt => pc = "decrypt3"
      /\ Kdbx3Start => pc = "stream start"
      /\ Kdbx3Block \/ Kdbx3BlockFails \/ Kdbx3Inflate => pc = "hashed blocks"
  BY Zenon DEF InnerField, InnerFails, InnerEnds, Kdbx3Refused, Kdbx3Derive, Kdbx3Decrypt, Kdbx3Start,
         Kdbx3Block, Kdbx3BlockFails, Kdbx3Inflate
<1>4. /\ GetXml \/ BadXml \/ ParseXml(OpenedKdf) => pc = "xml"
      /\ KdbRefused \/ KdbDecrypt => pc = "KDB"
      /\ KdbPadding => pc = "KDB padding"
      /\ KdbStart \/ KdbField \/ KdbEnds => pc = "KDB fields"
  BY Zenon DEF GetXml, BadXml, ParseXml, KdbRefused, KdbDecrypt, KdbPadding, KdbStart, KdbField, KdbEnds
<1> QED  BY <1>1, <1>2, <1>3, <1>4, Zenon

\* so that these are the steps of a place,
LEMMA StepsAt ==
    ASSUME Next
    PROVE  /\ pc = "version" => BadVersion \/ GetVersion \/ Unsupported \/ Dispatch
           /\ pc = "KDB4" => Kdbx4Field \/ Kdbx4HeaderFails \/ Kdbx4HeaderEnds
           /\ pc = "KDB3" => Kdbx3Field \/ Kdbx3HeaderFails \/ Kdbx3HeaderEnds
           /\ pc = "KDB4 body" => Kdbx4Refused \/ Kdbx4Verified
           /\ pc = "blocks" => Kdbx4Block
           /\ pc = "decrypt" => Kdbx4Decrypt
           /\ pc = "inflate" => Kdbx4Inflate
           /\ pc = "inner" => InnerField \/ InnerFails \/ InnerEnds
           /\ pc = "KDB3 body" => Kdbx3Refused \/ Kdbx3Derive
           /\ pc = "decrypt3" => Kdbx3Decrypt
           /\ pc = "stream start" => Kdbx3Start
           /\ pc = "hashed blocks" => Kdbx3Block \/ Kdbx3BlockFails \/ Kdbx3Inflate
           /\ pc = "xml" => GetXml \/ BadXml \/ ParseXml(OpenedKdf)
           /\ pc = "KDB" => KdbRefused \/ KdbDecrypt
           /\ pc = "KDB padding" => KdbPadding
           /\ pc = "KDB fields" => KdbStart \/ KdbField \/ KdbEnds
           /\ pc # "done"
<1> DEFINE V == BadVersion \/ GetVersion \/ Unsupported \/ Dispatch
           A == Kdbx4Field \/ Kdbx4HeaderFails \/ Kdbx4HeaderEnds
           B == Kdbx3Field \/ Kdbx3HeaderFails \/ Kdbx3HeaderEnds
           C == Kdbx4Refused \/ Kdbx4Verified
           D == InnerField \/ InnerFails \/ InnerEnds
           E == Kdbx3Refused \/ Kdbx3Derive
           F == Kdbx3Block \/ Kdbx3BlockFails \/ Kdbx3Inflate
           G == GetXml \/ BadXml \/ ParseXml(OpenedKdf)
           H == KdbRefused \/ KdbDecrypt
           I == KdbStart \/ KdbField \/ KdbEnds
<1>1. \/ V \/ A \/ B \/ C \/ Kdbx4Block \/ Kdbx4Decrypt \/ Kdbx4Inflate \/ D
      \/ E \/ Kdbx3Decrypt \/ Kdbx3Start \/ F \/ G \/ H \/ KdbPadding \/ I
  BY Zenon DEF Next, OpeningStep, ContainerStep, Kdbx4Next, Kdbx3Next
<1>2. /\ (V => pc = "version") /\ (A => pc = "KDB4") /\ (B => pc = "KDB3") /\ (C => pc = "KDB4 body")
      /\ (Kdbx4Block => pc = "blocks") /\ (Kdbx4Decrypt => pc = "decrypt")
      /\ (Kdbx4Inflate => pc = "inflate") /\ (D => pc = "inner") /\ (E => pc = "KDB3 body")
      /\ (Kdbx3Decrypt => pc = "decrypt3") /\ (Kdbx3Start => pc = "stream start")
      /\ (F => pc = "hashed blocks") /\ (G => pc = "xml") /\ (H => pc = "KDB")
      /\ (KdbPadding => pc = "KDB padding") /\ (I => pc = "KDB fields")
  BY PlacesAre, Zenon
<1>3. /\ (pc = "version" => V) /\ (pc = "KDB4" => A) /\ (pc = "KDB3" => B) /\ (pc = "KDB4 body" => C)
  <2> HIDE DEF V, A, B, C, D, E, F, G, H, I
  <2> QED  BY <1>1, <1>2, Zenon
<1>4. /\ (pc = "blocks" => Kdbx4Block) /\ (pc = "decrypt" => Kdbx4Decrypt)
      /\ (pc = "inflate" => Kdbx4Inflate) /\ (pc = "inner" => D)
  <2> HIDE DEF V, A, B, C, D, E, F, G, H, I
  <2> QED  BY <1>1, <1>2, Zenon
<1>5. /\ (pc = "KDB3 body" => E) /\ (pc = "decrypt3" => Kdbx3Decrypt)
      /\ (pc = "stream start" => Kdbx3Start) /\ (pc = "hashed blocks" => F)
  <2> HIDE DEF V, A, B, C, D, E, F, G, H, I
  <2> QED  BY <1>1, <1>2, Zenon
<1>6. /\ (pc = "xml" => G) /\ (pc = "KDB" => H) /\ (pc = "KDB padding" => KdbPadding)
      /\ (pc = "KDB fields" => I) /\ pc # "done"
  <2> HIDE DEF V, A, B, C, D, E, F, G, H, I
  <2> QED  BY <1>1, <1>2, Zenon
<1> QED  BY <1>3, <1>4, <1>5, <1>6, Zenon

----------------------------------------------------------------------------
(* The header is read as it was written.                                   *)

IntactHeader ==
    Untouched =>
        /\ pc = "KDB4" => origin.format = "KDB4" /\ HeaderStage(Len(Layout(origin)))
        /\ pc = "KDB3" => origin.format = "KDB3" /\ HeaderStage(Len(Layout(origin)))
        /\ pc = "KDB4 body" => origin.format = "KDB4" /\ BodyStage(Len(Layout(origin)))
        /\ pc = "KDB3 body" => origin.format = "KDB3" /\ BodyStage(Len(Layout(origin)))

\* The file says of which format it is.
LEMMA FormatRead ==
    ASSUME FileInv, Untouched
    PROVE  IsVersion /\ data[1] = VersionCell(origin) /\ data[1][2] = origin.format
<1>1. IsSave(origin) /\ IsSeq(data)
  BY SavesAre
<1>2. origin.format \in {"KDB", "KDB3", "KDB4"}
  BY <1>1 DEF IsSave
<1>3. data[1] = VersionCell(origin) /\ data # <<>>
  <2>1. CASE origin.format = "KDB"
    <3>1. /\ IsSeq(data) /\ data[1] = VersionCell(origin) /\ data[2] = <<"kdb header", KdbHeader(origin)>>
          /\ Behind(origin, data, 2)
      BY <1>1, <2>1, KdbBegins DEF Untouched
    <3>2. Len(data) # 0
      <4> DEFINE n == Len(Secret(origin))
      <4>1. n \in Nat
        BY SecretIs, <1>1, SeqIs
      <4>2. Len(data) = 2 + n
        BY <3>1 DEF Behind
      <4> HIDE DEF n
      <4> QED  BY <4>1, <4>2
    <3>3. Len(<<>>) = 0
      OBVIOUS
    <3> QED  BY <3>1, <3>2, <3>3
  <2>2. CASE origin.format \in {"KDB3", "KDB4"}
    <3>1. BeginLaid(origin, data, Layout(origin), Len(Layout(origin)))
      BY <2>2, UntouchedIs
    <3>2. data[1] = VersionCell(origin) /\ Len(data) # 0
      <4> DEFINE l == Len(Layout(origin))
      <4>1. BeginLaid(origin, data, Layout(origin), l)
        BY <3>1
      <4> HIDE DEF l
      <4> QED  BY <4>1, SavesAre DEF BeginLaid
    <3>3. Len(<<>>) = 0
      OBVIOUS
    <3> QED  BY <3>2, <3>3
  <2> QED  BY <1>2, <2>1, <2>2
<1>4. VersionCell(origin) = <<"version", origin.format, origin.minor>>
  BY DEF VersionCell
<1>5. data[1][1] = "version" /\ data[1][2] = origin.format
  BY <1>3, <1>4
<1> QED  BY <1>2, <1>3, <1>5 DEF IsVersion, Formats

\* When its reader begins, nothing of the header is read.
LEMMA HeaderBegins ==
    ASSUME FileInv, VersionPhase, Untouched, Dispatch, UNCHANGED origin
    PROVE  /\ pc' = origin.format /\ pos' = 2
           /\ origin.format \in {"KDB3", "KDB4"} => HeaderStage(Len(Layout(origin)))'
<1>1. pc' = origin.format /\ pos' = 2 /\ header' = NoHeader /\ origin' = origin
  BY FormatRead DEF Dispatch, Proceed, VersionPhase, containerVars
<1>2. ASSUME origin.format \in {"KDB3", "KDB4"} PROVE HeaderStage(Len(Layout(origin)))'
  <2> DEFINE l == Len(Layout(origin))
  <2>1. l \in Nat
    <3>1. BeginLaid(origin, data, Layout(origin), l)
      BY <1>2, UntouchedIs
    <3> HIDE DEF l
    <3> QED  BY <3>1 DEF BeginLaid
  <2>2. \A f \in Fields : header'[f] = Missing
    BY <1>1 DEF NoHeader
  <2>3. ReadTo(0)'
    <3>1. \A i \in 1 .. 0 : FALSE
      OBVIOUS
    <3> QED  BY <2>2, <3>1 DEF ReadTo
  <2>4. (pos \in 2 .. l + 2)' /\ pos' - 2 = 0 /\ l' = l
    <3>1. l' = l
      BY <1>1
    <3> HIDE DEF l
    <3> QED  BY <1>1, <2>1, <3>1
  <2>5. ReadTo(pos - 2)'
    BY <2>3, <2>4 DEF ReadTo
  <2> QED  BY <2>4, <2>5 DEF HeaderStage
<1> QED  BY <1>1, <1>2

\* A step leaves a place, but for those that go round in a loop.
LEMMA Proceeds ==
    ASSUME Next
    PROVE  /\ pc = "version" => pc' \in {"done", data[1][2]}
           /\ pc = "KDB4" => Kdbx4Field \/ pc' = "KDB4 body" \/ pc' = "done"
           /\ pc = "KDB3" => Kdbx3Field \/ pc' = "KDB3 body" \/ pc' = "done"
           /\ pc = "KDB4 body" => pc' = "blocks" \/ pc' = "done"
           /\ pc = "KDB3 body" => pc' = "decrypt3" \/ pc' = "done"
           /\ pc \notin {"version", "KDB4", "KDB3"} => pc' \notin {"KDB4", "KDB3", "KDB4 body", "KDB3 body"}
<1>1. pc = "version" => pc' \in {"done", data[1][2]}
  BY StepsAt DEF BadVersion, GetVersion, Unsupported, Dispatch, Fail, Proceed
<1>2. pc = "KDB4" => Kdbx4Field \/ pc' = "KDB4 body" \/ pc' = "done"
  BY StepsAt, Zenon DEF Kdbx4HeaderFails, HeaderFails, Kdbx4HeaderEnds, HeaderEnds, Fail, Proceed
<1>3. pc = "KDB3" => Kdbx3Field \/ pc' = "KDB3 body" \/ pc' = "done"
  BY StepsAt, Zenon DEF Kdbx3HeaderFails, HeaderFails, Kdbx3HeaderEnds, HeaderEnds, Fail, Proceed
<1>4. pc = "KDB4 body" => pc' = "blocks" \/ pc' = "done"
  BY StepsAt, Zenon DEF Kdbx4Refused, Kdbx4Verified, Fail, Proceed
<1>5. pc = "KDB3 body" => pc' = "decrypt3" \/ pc' = "done"
  BY StepsAt, Zenon DEF Kdbx3Refused, Kdbx3Derive, Fail, Proceed
<1>6. Kdbx4Block => pc' \in {"blocks", "decrypt", "done"}
  BY Zenon DEF Kdbx4Block, ReadStream, EndOfStream, BrokenBlock, ReadBlock, LastBlock, Fail, Proceed
<1>7. /\ Kdbx4Decrypt => pc' \in {"inflate", "done"}
      /\ Kdbx4Inflate => pc' \in {"inner", "done"}
      /\ InnerField \/ InnerFails \/ InnerEnds => pc' \in {"inner", "xml", "done"}
  BY Zenon DEF Kdbx4Decrypt, Decipher, Kdbx4Inflate, Inflate, InnerField, InnerFails, InnerEnds, Fail, Proceed
<1>8. /\ Kdbx3Decrypt => pc' \in {"stream start", "done"}
      /\ Kdbx3Start => pc' \in {"hashed blocks", "done"}
      /\ Kdbx3Block \/ Kdbx3BlockFails \/ Kdbx3Inflate => pc' \in {"hashed blocks", "xml", "done"}
  BY Zenon DEF Kdbx3Decrypt, Decipher, Kdbx3Start, Kdbx3Block, Kdbx3BlockFails, Kdbx3Inflate, Inflate,
         Fail, Proceed
<1>9. /\ GetXml \/ BadXml \/ ParseXml(OpenedKdf) => pc' = "done"
      /\ KdbRefused \/ KdbDecrypt => pc' \in {"KDB padding", "done"}
      /\ KdbPadding => pc' \in {"KDB fields", "done"}
      /\ KdbStart \/ KdbField \/ KdbEnds => pc' \in {"KDB fields", "done"}
  BY Zenon DEF GetXml, BadXml, ParseXml, KdbRefused, KdbDecrypt, KdbPadding, KdbStart, KdbField, KdbEnds,
         readerVars, blockVars, Fail, Proceed
<1>10. \/ pc = "version" \/ pc = "KDB4" \/ pc = "KDB3" \/ pc = "KDB4 body" \/ pc = "KDB3 body"
       \/ Kdbx4Block \/ Kdbx4Decrypt \/ Kdbx4Inflate \/ InnerField \/ InnerFails \/ InnerEnds
       \/ Kdbx3Decrypt \/ Kdbx3Start \/ Kdbx3Block \/ Kdbx3BlockFails \/ Kdbx3Inflate
       \/ GetXml \/ BadXml \/ ParseXml(OpenedKdf)
       \/ KdbRefused \/ KdbDecrypt \/ KdbPadding \/ KdbStart \/ KdbField \/ KdbEnds
  BY PlacesAre, Zenon DEF Next, OpeningStep, ContainerStep, Kdbx4Next, Kdbx3Next
<1>11. pc \notin {"version", "KDB4", "KDB3"} =>
          pc' \in {"blocks", "decrypt", "inflate", "inner", "xml", "decrypt3", "stream start",
                   "hashed blocks", "KDB padding", "KDB fields", "done"}
  BY <1>4, <1>5, <1>6, <1>7, <1>8, <1>9, <1>10, Zenon
<1>12. pc \notin {"version", "KDB4", "KDB3"} => pc' \notin {"KDB4", "KDB3", "KDB4 body", "KDB3 body"}
  BY <1>11, Zenon
<1> QED  BY <1>1, <1>2, <1>3, <1>4, <1>5, <1>12

\* Every step keeps that.
LEMMA IntactHeaderStep ==
    ASSUME OpeningInv, OpeningInv', IntactHeader, Next PROVE IntactHeader'
<1> SUFFICES ASSUME Untouched'
             PROVE  /\ (pc = "KDB4" => origin.format = "KDB4" /\ HeaderStage(Len(Layout(origin))))'
                    /\ (pc = "KDB3" => origin.format = "KDB3" /\ HeaderStage(Len(Layout(origin))))'
                    /\ (pc = "KDB4 body" => origin.format = "KDB4" /\ BodyStage(Len(Layout(origin))))'
                    /\ (pc = "KDB3 body" => origin.format = "KDB3" /\ BodyStage(Len(Layout(origin))))'
  BY Zenon DEF IntactHeader
<1> DEFINE l == Len(Layout(origin))
<1>1. FileInv /\ UNCHANGED <<data, op, dbKey, devices, origin>> /\ l' = l /\ origin' = origin
  BY CallStays DEF OpeningInv
<1>2. Untouched
  BY <1>1 DEF Untouched
<1>3. l = Len(Layout(origin))
  OBVIOUS
<1> HIDE DEF l
<1> DEFINE Held(f) == origin.format = f /\ HeaderStage(l)
           Whole(f) == origin.format = f /\ BodyStage(l)
<1>4. /\ pc = "KDB4" => Held("KDB4")
      /\ pc = "KDB3" => Held("KDB3")
  BY <1>2, <1>3 DEF IntactHeader
<1>5. /\ pc' = "KDB4" => Held("KDB4")'
      /\ pc' = "KDB3" => Held("KDB3")'
      /\ pc' = "KDB4 body" => Whole("KDB4")'
      /\ pc' = "KDB3 body" => Whole("KDB3")'
  <2>1. CASE pc = "version"
    <3>1. VersionPhase
      BY <2>1 DEF OpeningInv, Phases
    <3>2. Dispatch \/ pc' = "done"
      BY <2>1, StepsAt DEF BadVersion, GetVersion, Unsupported, Fail
    <3>3. CASE Dispatch
      <4>1. pc' = origin.format /\ (origin.format \in {"KDB3", "KDB4"} => HeaderStage(l)')
        BY <1>1, <1>2, <1>3, <3>1, <3>3, HeaderBegins
      <4>2. origin.format \in {"KDB", "KDB3", "KDB4"}
        BY <1>1, SavesAre DEF IsSave
      <4> QED  BY <1>1, <4>1, <4>2, Zenon
    <3>4. CASE pc' = "done"
      BY <3>4, Zenon
    <3> QED  BY <3>2, <3>3, <3>4
  <2>2. CASE pc = "KDB4"
    <3>1. Held("KDB4") /\ HeaderRead(pos - 1, Kdbx4Fields) /\ Known(origin) = Kdbx4Fields
          /\ Needed(origin) = Kdbx4Required
      BY <1>4, <2>2 DEF OpeningInv, Phases, HeaderPhase, Known, Needed
    <3>2. CASE Kdbx4Field
      <4>1. HeaderStage(l)'
        BY <1>1, <1>2, <1>3, <3>1, <3>2, IntactField DEF Kdbx4Field
      <4>2. pc' = "KDB4"
        BY <2>2, <3>2 DEF Kdbx4Field, HeaderField
      <4> QED  BY <1>1, <3>1, <4>1, <4>2, Zenon
    <3>3. CASE Kdbx4HeaderFails
      BY <1>1, <1>2, <1>3, <3>1, <3>3, IntactHeaderStays DEF Kdbx4HeaderFails
    <3>4. CASE Kdbx4HeaderEnds
      <4> DEFINE to == "KDB4 body"
      <4>1. HeaderEnds("KDB4", Kdbx4Required, to)
        BY <3>4 DEF Kdbx4HeaderEnds
      <4>2. to = "KDB4 body"
        OBVIOUS
      <4> HIDE DEF to
      <4>3. BodyStage(l)' /\ pc' = to
        BY <1>1, <1>2, <1>3, <3>1, <4>1, IntactHeaderEnds
      <4> QED  BY <1>1, <3>1, <4>2, <4>3, Zenon
    <3> QED  BY <2>2, <3>2, <3>3, <3>4, StepsAt
  <2>3. CASE pc = "KDB3"
    <3>1. Held("KDB3") /\ HeaderRead(pos - 1, Kdbx3Fields) /\ Known(origin) = Kdbx3Fields
          /\ Needed(origin) = Kdbx3Fields
      BY <1>4, <2>3 DEF OpeningInv, Phases, HeaderPhase, Known, Needed
    <3>2. CASE Kdbx3Field
      <4>1. HeaderStage(l)'
        BY <1>1, <1>2, <1>3, <3>1, <3>2, IntactField DEF Kdbx3Field
      <4>2. pc' = "KDB3"
        BY <2>3, <3>2 DEF Kdbx3Field, HeaderField
      <4> QED  BY <1>1, <3>1, <4>1, <4>2, Zenon
    <3>3. CASE Kdbx3HeaderFails
      BY <1>1, <1>2, <1>3, <3>1, <3>3, IntactHeaderStays DEF Kdbx3HeaderFails
    <3>4. CASE Kdbx3HeaderEnds
      <4> DEFINE to == "KDB3 body"
      <4>1. HeaderEnds("KDB3", Kdbx3Fields, to)
        BY <3>4 DEF Kdbx3HeaderEnds
      <4>2. to = "KDB3 body"
        OBVIOUS
      <4> HIDE DEF to
      <4>3. BodyStage(l)' /\ pc' = to
        BY <1>1, <1>2, <1>3, <3>1, <4>1, IntactHeaderEnds
      <4> QED  BY <1>1, <3>1, <4>2, <4>3, Zenon
    <3> QED  BY <2>3, <3>2, <3>3, <3>4, StepsAt
  <2>4. CASE pc \notin {"version", "KDB4", "KDB3"}
    BY <2>4, Proceeds, Zenon
  <2> QED  BY <2>1, <2>2, <2>3, <2>4, Zenon
<1> QED  BY <1>1, <1>3, <1>5

----------------------------------------------------------------------------
(* Wrong keys.                                                             *)

\* The call has the wrong key, one that nothing else is wrong with.
WrongKey ==
    /\ Untouched /\ origin.format = "KDB4"
    /\ KeyError(Challenged(dbKey, KdfSeed(origin))) = "none"
    /\ ~ ChallengeFails(dbKey, devices) /\ ~ Opens(dbKey, origin, devices)

WrongKeyWaits ==
    WrongKey => \/ pc \in {"version", "KDB4", "KDB4 body"}
                \/ pc = "done" /\ result = Failure("IncorrectKey")

\* The header is read, then the key is found wrong.
LEMMA WrongKeyStep ==
    ASSUME OpeningInv, IntactHeader, IntactHeader', WrongKeyWaits, Next PROVE WrongKeyWaits'
<1> SUFFICES ASSUME WrongKey'
             PROVE  \/ pc' \in {"version", "KDB4", "KDB4 body"}
                    \/ pc' = "done" /\ result' = Failure("IncorrectKey")
  BY Zenon DEF WrongKeyWaits
<1> DEFINE l == Len(Layout(origin))
<1>1. FileInv /\ UNCHANGED <<data, op, dbKey, devices, origin>>
  BY CallStays DEF OpeningInv
<1>2. WrongKey /\ Untouched /\ origin.format = "KDB4"
  BY <1>1 DEF WrongKey, Untouched
<1>3. pc \in {"version", "KDB4", "KDB4 body"}
  BY <1>2, StepsAt DEF WrongKeyWaits
<1>4. l = Len(Layout(origin))
  OBVIOUS
<1>5. CASE pc = "version"
  <2>1. IsVersion /\ data[1][2] = "KDB4" /\ op # "get_version"
    BY <1>1, <1>2, FormatRead DEF Untouched
  <2>2. Dispatch
    BY <1>5, <2>1, StepsAt, Zenon DEF BadVersion, GetVersion, Unsupported
  <2>3. pc' = "KDB4"
    BY <2>1, <2>2 DEF Dispatch, Proceed
  <2> QED  BY <2>3, Zenon
<1>6. CASE pc = "KDB4"
  <2>1. HeaderStage(l)
    BY <1>2, <1>6 DEF IntactHeader
  <2> HIDE DEF l
  <2>2. Known(origin) = Kdbx4Fields /\ Needed(origin) = Kdbx4Required
    BY <1>2 DEF Known, Needed
  <2>3. CASE Kdbx4Field
    <3>1. pc' = "KDB4"
      BY <1>6, <2>3 DEF Kdbx4Field, HeaderField
    <3> QED  BY <3>1, Zenon
  <2>4. CASE Kdbx4HeaderFails
    BY <1>1, <1>2, <1>4, <2>1, <2>2, <2>4, IntactHeaderStays DEF Kdbx4HeaderFails
  <2>5. CASE Kdbx4HeaderEnds
    <3> DEFINE to == "KDB4 body"
    <3>1. HeaderEnds("KDB4", Kdbx4Required, to) /\ to \in {"version", "KDB4", "KDB4 body"}
      BY <2>5 DEF Kdbx4HeaderEnds
    <3> HIDE DEF to
    <3>2. pc' = to
      BY <1>1, <1>2, <1>4, <2>1, <2>2, <3>1, IntactHeaderEnds
    <3> QED  BY <3>1, <3>2
  <2> QED  BY <1>6, <2>3, <2>4, <2>5, StepsAt
<1>7. CASE pc = "KDB4 body"
  <2>1. BodyStage(l) /\ BodyPhase("KDB4", Kdbx4Fields, Kdbx4Required)
    BY <1>2, <1>7, Zenon DEF IntactHeader, OpeningInv, Phases
  <2> HIDE DEF l
  <2>2. Kdbx4Error \in {"IncorrectKey", "none"}
    BY <1>1, <1>2, <1>4, <2>1, Kdbx4ErrorIs DEF WrongKey
  <2>3. Kdbx4Error # "none"
    <3> SUFFICES ASSUME Kdbx4Error = "none" PROVE FALSE
      OBVIOUS
    <3>1. SameParts(dbKey, origin.key)
      <4> DEFINE key == Challenged(dbKey, HeaderKdfSeed)
      <4>1. key = Challenged(dbKey, HeaderKdfSeed)
        OBVIOUS
      <4> HIDE DEF key
      <4>2. \E u \in Makers(origin) : VerifiedBy(u, key)
        BY <1>1, <2>1, <4>1, VerifiedHolds
      <4> QED  BY <4>2 DEF VerifiedBy
    <3>2. Opens(dbKey, origin, devices)
      BY <1>2, <3>1 DEF Opens, WrongKey
    <3> QED  BY <1>2, <3>2 DEF WrongKey
  <2>4. ~ Kdbx4Verified
    BY <2>3 DEF Kdbx4Verified
  <2>5. Kdbx4Refused
    BY <1>7, <2>4, StepsAt
  <2>6. pc' = "done" /\ result' = Failure("IncorrectKey")
    BY <2>2, <2>3, <2>5 DEF Kdbx4Refused, Fail
  <2> QED  BY <2>6
<1> QED  BY <1>3, <1>5, <1>6, <1>7, Zenon

\* Nothing changes.
LEMMA IntactStutters ==
    ASSUME UNCHANGED vars
    PROVE  /\ IntactHeader => IntactHeader'
           /\ WrongKeyWaits => WrongKeyWaits'
<1>1. /\ pc' = pc /\ pos' = pos /\ header' = header /\ result' = result /\ data' = data
      /\ dbKey' = dbKey /\ origin' = origin /\ op' = op /\ devices' = devices
  BY DEF vars, readerVars, blockVars, containerVars
<1>2. IntactHeader => IntactHeader'
  BY <1>1 DEF IntactHeader, Untouched, HeaderStage, BodyStage, ReadTo
<1>3. WrongKeyWaits => WrongKeyWaits'
  BY <1>1 DEF WrongKeyWaits, WrongKey, Untouched
<1> QED  BY <1>2, <1>3

\* A file that nothing has happened to is read as it was written, up to where
\* the reader is in its header.
THEOREM HeadersRead == Spec => []IntactHeader
<1>1. Init => IntactHeader
  BY Zenon DEF Init, IntactHeader
<1>2. OpeningInv /\ OpeningInv' /\ IntactHeader /\ [Next]_vars => IntactHeader'
  BY IntactHeaderStep, IntactStutters
<1> QED  BY <1>1, <1>2, OpeningInvariant, PTL DEF Spec

\* A wrong key for an intact KDBX4 file is called that, whatever the layout of
\* its header, the key derivation and the parts of the key.
THEOREM WrongKeysReported == Spec => []WrongKeyReported
<1>1. Init => WrongKeyWaits
  BY Zenon DEF Init, WrongKeyWaits
<1>2. OpeningInv /\ IntactHeader /\ IntactHeader' /\ WrongKeyWaits /\ [Next]_vars => WrongKeyWaits'
  BY WrongKeyStep, IntactStutters
<1>3. WrongKeyWaits => WrongKeyReported
  BY Zenon DEF WrongKeyWaits, WrongKeyReported, WrongKey, Untouched
<1> QED  BY <1>1, <1>2, <1>3, OpeningInvariant, HeadersRead, PTL DEF Spec

----------------------------------------------------------------------------
(* The blocks of an intact KDBX4 file.                                     *)

\* A stream of blocks follows m cells of a file; at[j] is where the block with
\* the index j begins in it.
StreamIn(d, m, blocks, key, at) ==
    /\ m \in Nat /\ at[0] = 0
    /\ \A j \in 0 .. Len(blocks) : at[j] \in Nat
    /\ \A j \in 0 .. Len(blocks) - 1 :
         /\ at[j + 1] = at[j] + 1 + Len(blocks[j + 1])
         /\ m + at[j + 1] < Len(d)
         /\ d[m + at[j] + 1] = BlockHead(j, key, blocks[j + 1])
         /\ \A i \in 1 .. Len(blocks[j + 1]) : d[m + at[j] + 1 + i] = blocks[j + 1][i]
    /\ Len(d) = m + at[Len(blocks)] + 1
    /\ d[m + at[Len(blocks)] + 1] = BlockHead(Len(blocks), key, <<>>)

\* The i-th cell of a block
LEMMA BlockCell ==
    ASSUME NEW p \in Nat, NEW l \in Nat, NEW n \in Nat, NEW m \in Nat, p + 1 + l < n,
           NEW i \in 1 .. l
    PROVE  \E k \in 1 .. n : /\ k = p + 1 + i /\ k \in p + 2 .. p + 1 + l /\ k - p - 1 = i
                             /\ m + k = m + p + 1 + i
OBVIOUS

\* The end of a block
LEMMA BlockEnd ==
    ASSUME NEW m \in Nat, NEW p \in Nat, NEW l \in Nat, NEW q, NEW n \in Nat, NEW x,
           q = p + 1 + l, m + q < n, x = m + p + 1
    PROVE  x + l <= n /\ x + 1 + l = m + q + 1
OBVIOUS

\* So it does in a file in which a stream follows m cells.
LEMMA StreamMoved ==
    ASSUME NEW d, NEW m \in Nat, NEW W, NEW blocks, NEW key, NEW at, Laid(W, blocks, key, at),
           IsSeq(blocks), \A i \in 1 .. Len(blocks) : IsSeq(blocks[i]),
           NEW n, n = Len(W), Len(d) = m + n, \A i \in 1 .. n : d[m + i] = W[i]
    PROVE  StreamIn(d, m, blocks, key, at)
<1> DEFINE b == Len(blocks)
<1>0. b \in Nat /\ \A j \in 0 .. b : at[j] \in Nat
  BY SeqIs DEF Laid
<1>1. n = at[b] + 1 /\ n \in Nat
  BY <1>0 DEF Laid
<1>2. ASSUME NEW j \in 0 .. b - 1
      PROVE  /\ at[j + 1] = at[j] + 1 + Len(blocks[j + 1])
             /\ m + at[j + 1] < Len(d)
             /\ d[m + at[j] + 1] = BlockHead(j, key, blocks[j + 1])
             /\ \A i \in 1 .. Len(blocks[j + 1]) : d[m + at[j] + 1 + i] = blocks[j + 1][i]
  <2> DEFINE c == blocks[j + 1]
             p == at[j]
             q == at[j + 1]
             l == Len(c)
             h == BlockHead(j, key, c)
  <2>1. /\ q = p + 1 + l /\ q < n /\ W[p + 1] = h
        /\ \A i \in p + 2 .. q : W[i] = c[i - p - 1]
    BY DEF Laid
  <2>2. j \in 0 .. b /\ j + 1 \in 0 .. b /\ j + 1 \in 1 .. b
    BY <1>0
  <2>3. p \in Nat /\ q \in Nat /\ l \in Nat
    BY <1>0, <2>2, SeqIs
  <2> HIDE DEF c, p, q, l, h
  <2>4. d[m + (p + 1)] = W[p + 1] /\ m + (p + 1) = m + p + 1
    <3>1. p + 1 \in 1 .. n
      BY <1>1, <2>1, <2>3
    <3> QED  BY <2>3, <3>1
  <2>5. ASSUME NEW i \in 1 .. l PROVE d[m + p + 1 + i] = c[i]
    <3>1. p + 1 + l < n /\ n \in Nat
      BY <1>1, <2>1
    <3>2. PICK k \in 1 .. n : k \in p + 2 .. q /\ k - p - 1 = i /\ m + k = m + p + 1 + i
      <4>1. \E k \in 1 .. n : /\ k = p + 1 + i /\ k \in p + 2 .. p + 1 + l /\ k - p - 1 = i
                              /\ m + k = m + p + 1 + i
        BY <2>3, <3>1, BlockCell
      <4>2. q = p + 1 + l
        BY <2>1
      <4> QED  BY <4>1, <4>2
    <3>3. W[k] = c[i]
      <4>1. W[k] = c[k - p - 1]
        BY <2>1, <3>2
      <4> QED  BY <3>2, <4>1
    <3>4. d[m + k] = W[k]
      BY <3>2
    <3> QED  BY <3>2, <3>3, <3>4
  <2>6. q = p + 1 + l /\ m + q < Len(d) /\ d[m + p + 1] = h
    BY <1>1, <2>1, <2>3, <2>4
  <2> QED  BY <2>5, <2>6 DEF c, p, q, l, h
<1>3. d[m + at[b] + 1] = BlockHead(b, key, <<>>)
  <2> DEFINE p == at[b]
             h == BlockHead(b, key, <<>>)
  <2>1. W[p + 1] = h /\ p \in Nat /\ n = p + 1
    BY <1>0, <1>1 DEF Laid
  <2> HIDE DEF p, h
  <2>2. p + 1 \in 1 .. n /\ m + (p + 1) = m + p + 1
    BY <2>1
  <2>3. d[m + (p + 1)] = W[p + 1]
    BY <2>2
  <2>4. d[m + p + 1] = h
    BY <2>1, <2>2, <2>3
  <2> QED  BY <2>4 DEF p, h
<1>4. Len(d) = m + at[b] + 1
  BY <1>0, <1>1
<1>5. at[0] = 0
  BY DEF Laid
<1> QED  BY <1>0, <1>2, <1>3, <1>4, <1>5 DEF StreamIn

\* The stream of a KDBX4 file follows its header and the two checks of it.
LEMMA StreamOfFile ==
    ASSUME FileInv, Untouched, origin.format = "KDB4", NEW l, l = Len(Layout(origin))
    PROVE  /\ l \in Nat
           /\ \E at : StreamIn(data, l + 4, WrittenBlocks(origin), SaveHmacKey(origin), at)
<1> DEFINE H == OuterHeader(origin)
           B == WrittenBlocks(origin)
           key == SaveHmacKey(origin)
           W == Stream(B, key)
           h == Len(H)
           n == Len(W)
<1>0. IsSave(origin) /\ l = Len(origin.layout)
  BY SavesAre DEF Layout
<1>1. Kdbx4Laid(origin, data, H, h, W, n)
  <2>1. H = OuterHeader(origin) /\ W = Stream(WrittenBlocks(origin), SaveHmacKey(origin))
        /\ h = Len(H) /\ n = Len(W) /\ data = FileOf(origin)
    BY DEF Untouched
  <2> HIDE DEF H, W, h, n, B, key
  <2> QED  BY <1>0, <2>1, Kdbx4FileIs
<1>2. HeaderLaid(origin, H, l)
  <2>1. H = OuterHeader(origin)
    OBVIOUS
  <2> HIDE DEF H
  <2> QED  BY <1>0, <2>1, OuterHeaderIs
<1>3. l \in Nat /\ h = l + 2
  BY <1>2 DEF HeaderLaid
<1>4. IsSeq(B) /\ \A i \in 1 .. Len(B) : IsSeq(B[i])
  BY <1>0, BlocksAre DEF IsSeq
<1> HIDE DEF H, h, B, key
<1>5. PICK at : Laid(W, B, key, at)
  BY <1>4, StreamIsLaid
<1>6. n = Len(W)
  OBVIOUS
<1> HIDE DEF W, n
<1>7. Len(data) = (l + 4) + n /\ \A i \in 1 .. n : data[(l + 4) + i] = W[i]
  <2>1. Len(data) = h + 2 + n /\ n \in Nat /\ \A i \in 1 .. n : data[h + 2 + i] = W[i]
    BY <1>1 DEF Kdbx4Laid
  <2>2. \A i \in 1 .. n : h + 2 + i = (l + 4) + i
    BY <1>3, <2>1
  <2> QED  BY <1>3, <2>1, <2>2
<1>8. StreamIn(data, l + 4, B, key, at)
  <2>1. PICK m \in Nat : m = l + 4
    BY <1>3
  <2>2. Len(data) = m + n /\ \A i \in 1 .. n : data[m + i] = W[i]
    BY <1>7, <2>1
  <2>3. StreamIn(data, m, B, key, at)
    BY <1>4, <1>5, <1>6, <2>2, StreamMoved
  <2> QED  BY <2>1, <2>3
<1> QED  BY <1>3, <1>8 DEF B, key

\* What the reader finds where a block of it begins
BlockOf(c) ==
    /\ pos <= Len(data) /\ BlockAt(pos) /\ Verifies(pos, index) /\ CellsAt(pos) = c
    /\ data[pos][3] = Len(c)

\* is that block, with a mac that is right (read_hmac_block_stream).
LEMMA BlockInStream ==
    ASSUME IsSeq(data), NEW m, NEW B, IsSeq(B), \A i \in 1 .. Len(B) : IsSeq(B[i]), NEW at,
           StreamIn(data, m, B, hmacKey, at), NEW b, b = Len(B), index \in 0 .. b,
           pos = m + at[index] + 1, NEW c, c = BlockNo(B, index)
    PROVE  /\ BlockOf(c) /\ pos \in Nat \ {0}
           /\ index # b => index + 1 \in 0 .. b /\ pos + 1 + data[pos][3] = m + at[index + 1] + 1
<1>0. b \in Nat /\ m \in Nat /\ Len(data) \in Nat /\ DOMAIN data = 1 .. Len(data)
      /\ \A j \in 0 .. b : at[j] \in Nat
  BY SeqIs DEF StreamIn
<1> DEFINE l == Len(c)
           j == index
<1>1. pos \in Nat \ {0} /\ j \in Nat
  BY <1>0
<1>2. /\ IsSeq(c) /\ l \in Nat /\ pos + l <= Len(data)
      /\ data[pos] = BlockHead(j, hmacKey, c)
      /\ \A i \in 1 .. l : data[pos + i] = c[i]
      /\ j # b => j + 1 \in 0 .. b /\ pos + 1 + l = m + at[j + 1] + 1
  <2>1. CASE j = b
    <3>1. c = <<>>
      BY <2>1 DEF BlockNo
    <3>2. IsSeq(c) /\ l = 0
      BY <3>1, TuplesAreSeqs
    <3>3. data[pos] = BlockHead(j, hmacKey, c) /\ Len(data) = pos
      BY <2>1, <3>1 DEF StreamIn
    <3> HIDE DEF l, j
    <3> QED  BY <1>1, <2>1, <3>2, <3>3
  <2>2. CASE j # b
    <3>1. j \in 0 .. b - 1 /\ j + 1 \in 1 .. b /\ j + 1 \in 0 .. b /\ j < b
      BY <1>0, <2>2
    <3>2. c = B[j + 1]
      BY <3>1 DEF BlockNo
    <3>3. IsSeq(c) /\ l \in Nat
      BY <3>1, <3>2, SeqIs
    <3> DEFINE q == at[j + 1]
               p == at[j]
    <3>4. /\ q = p + 1 + l /\ m + q < Len(data)
          /\ data[m + p + 1] = BlockHead(j, hmacKey, c)
          /\ \A i \in 1 .. l : data[m + p + 1 + i] = c[i]
      BY <3>1, <3>2 DEF StreamIn
    <3>5. p \in Nat /\ q \in Nat /\ pos = m + p + 1
      BY <1>0, <3>1
    <3> HIDE DEF l, j, p, q
    <3>6. pos + l <= Len(data) /\ pos + 1 + l = m + q + 1
      <4>1. q = p + 1 + l /\ m + q < Len(data) /\ m \in Nat /\ Len(data) \in Nat
        BY <1>0, <3>4
      <4>2. l \in Nat /\ p \in Nat /\ pos = m + p + 1
        BY <3>3, <3>5
      <4> QED  BY <4>1, <4>2, BlockEnd
    <3>7. data[pos] = BlockHead(j, hmacKey, c) /\ \A i \in 1 .. l : data[pos + i] = c[i]
      BY <3>4, <3>5
    <3> QED  BY <2>2, <3>1, <3>3, <3>6, <3>7 DEF q
  <2> QED  BY <2>1, <2>2
<1>3. data[pos][1] = "block" /\ data[pos][2] = BlockMac(j, hmacKey, c) /\ data[pos][3] = l
  <2> DEFINE mac == BlockMac(j, hmacKey, c)
  <2>1. data[pos] = <<"block", mac, l>>
    BY <1>2 DEF BlockHead
  <2> HIDE DEF mac, l
  <2> QED  BY <2>1 DEF mac
<1> HIDE DEF l
<1>4. CellsAt(pos) = c
  <2> DEFINE r == Part(data, pos + 1, pos + l)
             k == pos + 1
             n == pos + l
  <2>1. k \in Nat \ {0} /\ n \in 0 .. Len(data) /\ n - k + 1 = l
    <3>1. pos \in Nat /\ l \in Nat /\ pos + l <= Len(data) /\ Len(data) \in Nat
      BY <1>0, <1>1, <1>2
    <3> QED  BY <3>1
  <2>2. /\ IsSeq(r) /\ Len(r) = IF k <= n THEN n - k + 1 ELSE 0
        /\ \A i \in 1 .. n - k + 1 : r[i] = data[k + i - 1]
    <3>1. r = Part(data, k, n)
      OBVIOUS
    <3> HIDE DEF k, n, r
    <3> QED  BY <2>1, <3>1, PartIs
  <2>3. Len(r) = l
    <3>1. k <= n \/ l = 0
      BY <1>1, <1>2
    <3> HIDE DEF k, n, r
    <3> QED  BY <1>2, <2>1, <2>2, <3>1
  <2>4. \A i \in 1 .. l : r[i] = c[i]
    <3> SUFFICES ASSUME NEW i \in 1 .. l PROVE r[i] = c[i]
      OBVIOUS
    <3>1. k + i - 1 = pos + i
      BY <1>1
    <3>2. r[i] = data[k + i - 1]
      <4> HIDE DEF r, k, n
      <4> QED  BY <2>1, <2>2
    <3> QED  BY <1>2, <3>1, <3>2
  <2>5. CellsAt(pos) = r
    BY <1>3 DEF CellsAt, Part
  <2> HIDE DEF r, k, n
  <2> QED  BY <1>2, <2>2, <2>3, <2>4, <2>5, SeqsEqual DEF l
<1>5. BlockAt(pos) /\ pos <= Len(data)
  BY <1>0, <1>1, <1>2, <1>3 DEF BlockAt
<1>6. Verifies(pos, index)
  BY <1>3, <1>4 DEF Verifies
<1> QED  BY <1>1, <1>2, <1>3, <1>4, <1>5, <1>6 DEF BlockOf, l

----------------------------------------------------------------------------
(* What a whole payload becomes.                                           *)

\* The payload of a save, with the padding that Twofish leaves or without it
WholeOf(s, q) == q = FilePayload(s) \/ q = Payload3(s)
WholeDocument(s, q) == q = InnerDocument(s) \/ q = PaddedDocument(s)

\* Padding that was added is cut off again, or left (AES256Cipher::decrypt,
\* TwofishCipher::decrypt).
LEMMA PaddingLeft ==
    ASSUME NEW cipher \in OuterCiphers, NEW q, IsSeq(q), NEW D, D = WithPadding(cipher, q)
    PROVE  Chains(cipher) =>
             /\ Padded(D) /\ D # <<>>
             /\ Unpadded(cipher, D) = q \/ Unpadded(cipher, D) = D
<1> SUFFICES ASSUME Chains(cipher)
             PROVE  /\ Padded(D) /\ D # <<>>
                    /\ Unpadded(cipher, D) = q \/ Unpadded(cipher, D) = D
  OBVIOUS
<1>1. D = Added(q, Padding)
  BY DEF WithPadding, Added
<1>2. PICK n \in Nat : n = Len(q)
  BY SeqIs
<1>3. IsSeq(D) /\ Len(D) = n + 1 /\ D[n + 1] = Padding /\ \A i \in 1 .. n : D[i] = q[i]
  BY <1>1, <1>2, AddedIs
<1>4. D # <<>>
  BY <1>3, TuplesAreSeqs
<1>5. Padded(D)
  BY <1>3, <1>4 DEF Padded
<1>6. Part(D, 1, n) = q
  <2>1. n \in 0 .. Len(D)
    BY <1>3
  <2>2. /\ IsSeq(Part(D, 1, n)) /\ Len(Part(D, 1, n)) = n
        /\ \A i \in 1 .. n : Part(D, 1, n)[i] = D[i]
    BY <1>3, <2>1, PartOfBeginning
  <2> QED  BY <1>2, <1>3, <2>2, SeqsEqual
<1>7. Unpadded(cipher, D) = Part(D, 1, n) \/ Unpadded(cipher, D) = D
  <2>1. Len(D) - 1 = n
    BY <1>3
  <2> QED  BY <2>1 DEF Unpadded, Part
<1> QED  BY <1>4, <1>5, <1>6, <1>7

\* All that was enciphered comes out of the cells it was enciphered to.
LEMMA SecretDeciphered ==
    ASSUME NEW s, IsSave(s), NEW D,
           D = Deciphered(s.outer, FileMaster(s), FieldValue(s, "iv"), Secret(s))
    PROVE  D = Payload3(s) /\ IsSeq(FilePayload(s)) /\ IsSeq(D)
<1> DEFINE E == Secret(s)
           P == Payload3(s)
           q == FilePayload(s)
           key == FileMaster(s)
           iv == FieldValue(s, "iv")
<1>1. P = WithPadding(s.outer, q) /\ E = Secret(s) /\ D = Deciphered(s.outer, key, iv, E)
      /\ E = Encrypted(s.outer, key, iv, q)
  BY DEF Payload3, Secret
<1>2. IsSeq(q) /\ IsSeq(P) /\ IsSeq(E) /\ Len(E) = Len(P)
  <2> HIDE DEF P
  <2> QED  BY <1>1, SecretIs
<1> HIDE DEF E, P, q, key, iv
<1>3. Len(E) \in Nat /\ Len(E) <= Len(E)
  BY <1>2, SeqIs
<1>4. IsSeq(D) /\ Len(D) = Len(E) /\ \A i \in 1 .. Len(E) : D[i] = P[i]
  BY <1>1, <1>2, <1>3, BeginningDeciphered
<1>5. D = P
  BY <1>2, <1>4, SeqsEqual
<1> QED  BY <1>2, <1>4, <1>5 DEF P, q

\* A whole payload is deciphered without an error, with its padding or without
\* it (decrypt of the outer ciphers).
LEMMA WholeDeciphered ==
    ASSUME NEW s, IsSave(s), NEW cells, cells = Secret(s), NEW to, Decipher(cells, to),
           header["cipher"][1][1] = s.outer, header["iv"][1] = FieldValue(s, "iv"),
           masterKey = FileMaster(s)
    PROVE  pc' = to /\ WholeOf(s, payload')
<1> DEFINE D == Deciphered(s.outer, FileMaster(s), FieldValue(s, "iv"), Secret(s))
           q == FilePayload(s)
<1>1. D = Deciphered(s.outer, FileMaster(s), FieldValue(s, "iv"), Secret(s))
      /\ D = Deciphered(header["cipher"][1][1], masterKey, header["iv"][1], cells)
  OBVIOUS
<1> HIDE DEF D
<1>2. D = Payload3(s) /\ IsSeq(q) /\ IsSeq(D)
  BY <1>1, SecretDeciphered
<1>3. s.outer \in OuterCiphers /\ D = WithPadding(s.outer, q)
  BY <1>2 DEF IsSave, Payload3
<1> HIDE DEF q
<1>4. Chains(s.outer) =>
         /\ Padded(D) /\ D # <<>>
         /\ Unpadded(s.outer, D) = q \/ Unpadded(s.outer, D) = D
  BY <1>2, <1>3, PaddingLeft
<1>5. CASE Chains(s.outer)
  <2>1. payload' = Unpadded(s.outer, D) /\ pc' = to
    BY <1>1, <1>4, <1>5 DEF Decipher, Proceed
  <2> QED  BY <1>2, <1>4, <1>5, <2>1 DEF WholeOf, q
<1>6. CASE ~ Chains(s.outer)
  <2>1. payload' = D /\ pc' = to
    BY <1>1, <1>6 DEF Decipher, Proceed
  <2> QED  BY <1>2, <2>1 DEF WholeOf
<1> QED  BY <1>5, <1>6

\* What is added to two cells
LEMMA TwoStay ==
    ASSUME NEW v, IsSeq(v), Len(v) = 2, NEW e, NEW q, q = Added(v, e)
    PROVE  Len(q) >= 2 /\ q[1] = v[1] /\ q[2] = v[2]
<1>1. Len(Added(v, e)) = Len(v) + 1 /\ \A i \in 1 .. Len(v) : Added(v, e)[i] = v[i]
  BY AddedIs
<1>2. 1 \in 1 .. Len(v) /\ 2 \in 1 .. Len(v) /\ Len(v) + 1 = 3
  OBVIOUS
<1>3. Len(q) = 3 /\ q[1] = v[1] /\ q[2] = v[2]
  BY <1>1, <1>2, Zenon
<1> QED  BY <1>3

\* What GZip made is found again, whatever follows it (decompress).
LEMMA GzipInflates ==
    ASSUME NEW I, NEW cipher, NEW q, NEW v, v = <<<<"gzip", 1, I>>, <<"gzip", 2, I>>>>,
           q = v \/ q = WithPadding(cipher, v)
    PROVE  Inflates("GZip", q) /\ Inflated("GZip", q) = I
<1> DEFINE c1 == <<"gzip", 1, I>>
           c2 == <<"gzip", 2, I>>
<1>1. v = <<c1, c2>>
  OBVIOUS
<1>2. c1[1] = "gzip" /\ c1[2] = 1 /\ c1[3] = I /\ c2 = <<"gzip", 2, I>>
  OBVIOUS
<1> HIDE DEF c1, c2
<1>3. v[1] = c1 /\ v[2] = c2
  BY <1>1
<1>4. IsSeq(v) /\ Len(v) = 2
  BY <1>1, TuplesAreSeqs
<1>5. q = v \/ q = Added(v, Padding)
  BY DEF WithPadding, Added
<1>6. Len(q) >= 2 /\ q[1] = c1 /\ q[2] = c2
  <2>1. CASE q = v
    BY <1>3, <1>4, <2>1
  <2>2. CASE q = Added(v, Padding)
    <3>1. Len(q) >= 2 /\ q[1] = v[1] /\ q[2] = v[2]
      BY <1>4, <2>2, TwoStay
    <3> QED  BY <1>3, <3>1
  <2> QED  BY <1>5, <2>1, <2>2
<1>7. Inflated("GZip", q) = I
  BY <1>2, <1>6 DEF Inflated
<1> QED  BY <1>2, <1>6, <1>7 DEF Inflates

\* The document of a KDBX4 file comes out of the whole payload.
LEMMA WholeInflates4 ==
    ASSUME NEW s, IsSave(s), s.format = "KDB4", NEW q, WholeOf(s, q)
    PROVE  Inflates(s.compression, q) /\ WholeDocument(s, Inflated(s.compression, q))
<1>1. s.compression \in {"None", "GZip"}
  BY DEF IsSave, Compressions
<1> DEFINE I == InnerDocument(s)
<1>2. FilePayload(s) = Compressed(s.compression, I) /\ Payload3(s) = WithPadding(s.outer, FilePayload(s))
      /\ PaddedDocument(s) = WithPadding(s.outer, I)
  BY DEF FilePayload, InnerDocument, Payload3, PaddedDocument
<1>3. CASE s.compression = "None"
  <2>1. FilePayload(s) = I
    BY <1>2, <1>3 DEF Compressed
  <2>2. q = I \/ q = PaddedDocument(s)
    BY <1>2, <2>1 DEF WholeOf
  <2> QED  BY <1>3, <2>2 DEF Inflates, Inflated, WholeDocument
<1>4. CASE s.compression = "GZip"
  <2> DEFINE v == FilePayload(s)
  <2>1. v = <<<<"gzip", 1, I>>, <<"gzip", 2, I>>>>
    BY <1>2, <1>4 DEF Compressed
  <2>2. q = v \/ q = WithPadding(s.outer, v)
    BY <1>2 DEF WholeOf
  <2> HIDE DEF v, I
  <2>3. Inflates("GZip", q) /\ Inflated("GZip", q) = I
    BY <2>1, <2>2, GzipInflates
  <2> QED  BY <1>4, <2>3 DEF WholeDocument, I
<1> QED  BY <1>1, <1>3, <1>4

----------------------------------------------------------------------------
(* The inner header and the document of an intact KDBX4 file.              *)

\* What the reader of the inner header takes for a field
LEMMA InnerHereIs ==
    ASSUME ~ AtEnd(payload), NEW e, e = payload[pos], e[1] = "inner",
           e[2] \in {IdName, KeyName, "binary"},
           e[2] = IdName => e[3][1] \in InnerCiphers,
           e[2] = "binary" => e[3] # <<>>
    PROVE  InnerHere
<1>1. e[2] = IdName => Legible("inner cipher", e[3])
  BY LegibleIs, Zenon
<1> QED  BY <1>1, Zenon DEF InnerHere, IdName, KeyName

\* The cells of the inner header are fields, up to its end.
LEMMA IntactInner ==
    ASSUME NEW s, IsSave(s), s.format = "KDB4", Readable(s), NEW a, a = Len(s.attachments),
           InnerLaid(s, payload, a), pos \in 1 .. a + 3
    PROVE  /\ pos # a + 3 => InnerHere
           /\ pos = a + 3 => InnerEndHere
           /\ InnerEndHere => pos = a + 3
<1>0. a \in Nat /\ Len(payload) \in {a + 6, a + 7}
  BY DEF InnerLaid
<1>1. ~ AtEnd(payload)
  BY <1>0 DEF AtEnd
<1>2. IsSeq(s.attachments)
  BY DEF IsSave, IsSeq
<1>3. ASSUME pos = 1 PROVE InnerHere /\ payload[pos][2] = IdName
  <2> DEFINE e == payload[pos]
             x == <<s.inner>>
  <2>1. e = <<"inner", IdName, x>>
    BY <1>3 DEF InnerLaid
  <2>2. x[1] \in InnerCiphers
    BY DEF Readable
  <2>3. e = payload[pos]
    OBVIOUS
  <2> HIDE DEF e, x
  <2>4. e[1] = "inner" /\ e[2] = IdName /\ e[3] = x
    BY <2>1
  <2>5. e[2] # "binary"
    BY <2>4, InnerNames
  <2> QED  BY <1>1, <2>2, <2>3, <2>4, <2>5, InnerHereIs
<1>4. ASSUME pos = 2 PROVE InnerHere /\ payload[pos][2] = KeyName
  <2> DEFINE e == payload[pos]
             x == StreamKey(s)
  <2>1. e = <<"inner", KeyName, x>>
    BY <1>4 DEF InnerLaid
  <2>3. e = payload[pos]
    OBVIOUS
  <2> HIDE DEF e, x
  <2>4. e[1] = "inner" /\ e[2] = KeyName
    BY <2>1
  <2>5. e[2] # "binary" /\ e[2] # IdName
    BY <2>4, InnerNames
  <2> QED  BY <1>1, <2>3, <2>4, <2>5, InnerHereIs
<1>5. ASSUME NEW i \in 1 .. a, pos = 2 + i PROVE InnerHere /\ payload[pos][2] = "binary"
  <2> DEFINE e == payload[pos]
             x == s.attachments[i]
  <2>1. e = <<"inner", "binary", x>>
    BY <1>5 DEF InnerLaid
  <2>2. x # <<>>
    BY <1>2, SeqIs DEF Readable
  <2>3. e = payload[pos]
    OBVIOUS
  <2> HIDE DEF e, x
  <2>4. e[1] = "inner" /\ e[2] = "binary" /\ e[3] = x
    BY <2>1
  <2>5. e[2] # IdName
    BY <2>4, InnerNames
  <2> QED  BY <1>1, <2>2, <2>3, <2>4, <2>5, InnerHereIs
<1>6. ASSUME pos = a + 3 PROVE InnerEndHere
  <2> DEFINE e == payload[pos]
  <2>1. e = <<"inner", "end", <<>>>>
    BY <1>6 DEF InnerLaid
  <2>2. e[1] = "inner" /\ e[2] = "end"
    BY <2>1
  <2> QED  BY <1>1, <2>2 DEF InnerEndHere
<1>7. ASSUME pos # a + 3 PROVE InnerHere /\ payload[pos][2] \in {IdName, KeyName, "binary"}
  <2>1. pos = 1 \/ pos = 2 \/ (pos - 2 \in 1 .. a /\ pos = 2 + (pos - 2))
    BY <1>0, <1>7
  <2> QED  BY <1>3, <1>4, <1>5, <2>1
<1>8. InnerEndHere => pos = a + 3
  BY <1>7, InnerNames DEF InnerEndHere
<1> QED  BY <1>6, <1>7, <1>8

\* Behind the inner header is the document.
LEMMA IntactDocument ==
    ASSUME NEW s, NEW a, InnerLaid(s, payload, a), pos = a + 4, Readable(s)
    PROVE  IsDocument(Rest) /\ Rest[2] # Garbage /\ ~ UnsoundBody(Rest)
<1>1. PICK l \in Nat : l = Len(payload) /\ l \in {a + 6, a + 7} /\ a \in Nat
  BY DEF InnerLaid
<1>2. PICK m \in Nat : m = a + 4
  BY <1>1
<1> DEFINE r == Rest
<1>3. r = Part(payload, m, l) /\ IsSeq(payload)
  BY <1>1, <1>2 DEF Rest, Part, InnerLaid
<1>4. m \in Nat \ {0} /\ l \in 0 .. Len(payload) /\ m <= l /\ l - m + 1 >= 3
  BY <1>1, <1>2
<1>5. Len(r) = l - m + 1 /\ \A i \in 1 .. l - m + 1 : r[i] = payload[m + i - 1]
  <2> HIDE DEF r
  <2> QED  BY <1>3, <1>4, PartIs
<1> HIDE DEF r
<1>6. r[1] = payload[a + 4] /\ r[2] = payload[a + 5] /\ r[3] = payload[a + 6]
  <2>1. /\ 1 \in 1 .. l - m + 1 /\ m + 1 - 1 = a + 4
        /\ 2 \in 1 .. l - m + 1 /\ m + 2 - 1 = a + 5
        /\ 3 \in 1 .. l - m + 1 /\ m + 3 - 1 = a + 6
    BY <1>1, <1>2, <1>4
  <2> QED  BY <1>5, <2>1
<1>7. r[1] = <<"xml", "open">> /\ r[2] = BodyCell(s) /\ r[3] = <<"xml", "close">>
  BY <1>6 DEF InnerLaid
<1>8. r[2][1] = "xml" /\ r[2][2] = "body" /\ r[2] # Garbage /\ r[2][3][1] \notin Unsound
  <2> DEFINE d == <<s.db, s.inner, StreamKey(s)>>
  <2>1. r[2] = <<"xml", "body", d>>
    BY <1>7 DEF BodyCell
  <2>2. d[1] \notin Unsound
    BY DEF Readable
  <2> HIDE DEF d
  <2> QED  BY <2>1, <2>2 DEF Garbage
<1>9. Len(r) >= 3
  BY <1>4, <1>5
<1> QED  BY <1>7, <1>8, <1>9 DEF IsDocument, UnsoundBody, r

\* The seed in the header is the one of the save.
SeedRead == header["seed"] = Some(FieldValue(origin, "seed"))

\* The save that made the header is the one that it has the seed of.
LEMMA SeedTells ==
    ASSUME FileInv, SeedRead, NEW u \in Makers(origin), Verified(u)
    PROVE  u = origin
<1>1. "seed" \in Fields /\ "seed" \in Range(u.layout)
  BY DEF Verified, Kdbx4Required, Fields
<1>2. header["seed"] = Some(FieldValue(u, "seed"))
  BY <1>1 DEF Verified, HeaderIs
<1>3. FieldValue(u, "seed") = FieldValue(origin, "seed")
  BY <1>2 DEF SeedRead, Some
<1>4. FieldValue(u, "seed") = <<"seed", u.n>> /\ FieldValue(origin, "seed") = <<"seed", origin.n>>
  BY FieldValues
<1>5. u.n = origin.n
  BY <1>3, <1>4
<1> QED  BY <1>5, SavesAre, MakersAre DEF Makers

\* The fields of its header that the reader uses.
LEMMA HeaderGives ==
    ASSUME NEW u, Verified(u)
    PROVE  /\ header["cipher"][1][1] = u.outer /\ header["iv"][1] = FieldValue(u, "iv")
           /\ header["compression"][1][1] = u.compression /\ masterKey = FileMaster(u)
<1>1. /\ "cipher" \in Fields /\ "iv" \in Fields /\ "compression" \in Fields
      /\ "cipher" \in Range(u.layout) /\ "iv" \in Range(u.layout) /\ "compression" \in Range(u.layout)
  BY DEF Verified, Kdbx4Required, Fields
<1>2. /\ header["cipher"] = Some(FieldValue(u, "cipher")) /\ header["iv"] = Some(FieldValue(u, "iv"))
      /\ header["compression"] = Some(FieldValue(u, "compression"))
  BY <1>1 DEF Verified, HeaderIs
<1>3. FieldValue(u, "cipher") = <<u.outer>> /\ FieldValue(u, "compression") = <<u.compression>>
  BY FieldValues
<1>4. FieldValue(u, "cipher")[1] = u.outer /\ FieldValue(u, "compression")[1] = u.compression
  BY <1>3
<1> QED  BY <1>2, <1>4 DEF Some, Verified, FileMaster

----------------------------------------------------------------------------
(* The right key, on an intact KDBX4 file.                                 *)

\* The call has the key of the save.
RightKey == Untouched /\ op = "open" /\ Opens(dbKey, origin, devices)

Intact4 == origin.format = "KDB4" /\ SeedRead

\* The reader is where a block of the stream begins.
IntactBlocks ==
    \E at : /\ StreamIn(data, Len(Layout(origin)) + 4, WrittenBlocks(origin),
                        SaveHmacKey(origin), at)
            /\ index \in 0 .. Len(WrittenBlocks(origin))
            /\ pos = Len(Layout(origin)) + 4 + at[index] + 1

\* What the header of a save says stays read.
LEMMA Intact4Kept ==
    ASSUME Intact4, header' = header, origin' = origin PROVE Intact4'
BY DEF Intact4, SeedRead

\* The mac over the header is right, and the stream begins (decrypt_kdbx4).
LEMMA IntactBody4 ==
    ASSUME FileInv, RightKey, origin.format = "KDB4", BodyStage(Len(Layout(origin))),
           BodyPhase("KDB4", Kdbx4Fields, Kdbx4Required),
           Kdbx4Refused \/ Kdbx4Verified, UNCHANGED <<data, origin>>
    PROVE  pc' = "blocks" /\ Intact4' /\ IntactBlocks'
<1> DEFINE l == Len(Layout(origin))
<1>0. l = Len(Layout(origin))
  OBVIOUS
<1>1. FileInv /\ Untouched /\ origin.format = "KDB4" /\ BodyStage(l)
      /\ BodyPhase("KDB4", Kdbx4Fields, Kdbx4Required)
  BY DEF RightKey
<1>2. data' = data /\ origin' = origin
  OBVIOUS
<1> HIDE DEF l
<1>3. ~ ChallengeFails(dbKey, devices) /\ SameParts(dbKey, origin.key)
  BY DEF RightKey, Opens
<1>4. KeyError(Challenged(dbKey, KdfSeed(origin))) = "none"
  <2>1. IsKey(dbKey) /\ IsKey(origin.key) /\ IsSave(origin)
    BY <1>1, SavesAre DEF FileInv
  <2>2. KeyError(SaveKey(origin)) = "none"
    BY <1>1, <2>1 DEF IsSave
  <2> DEFINE seed == KdfSeed(origin)
             key == origin.key
             c == Challenged(dbKey, seed)
             d == Challenged(key, seed)
  <2>3. c = Challenged(dbKey, seed) /\ d = Challenged(key, seed) /\ KeyError(d) = "none"
    BY <2>2 DEF SaveKey
  <2>4. IsKey(key) /\ SameParts(dbKey, key)
    BY <1>3, <2>1
  <2> HIDE DEF seed, c, d, key
  <2>5. KeyError(c) = KeyError(d)
    BY <2>1, <2>3, <2>4, ElementsFromParts
  <2> QED  BY <2>3, <2>5 DEF c, seed
<1>5. Kdbx4Error = "none"
  BY <1>0, <1>1, <1>3, <1>4, Kdbx4ErrorIs
<1>6. Kdbx4Verified
  BY <1>5 DEF Kdbx4Refused
<1>7. /\ pc' = "blocks" /\ pos' = pos + 2 /\ header' = header /\ index' = index
  BY <1>6 DEF Kdbx4Verified, Proceed
<1>8. SeedRead
  <2>1. "seed" \in Kdbx4Required /\ "seed" \in Fields
    BY DEF Kdbx4Required, Fields
  <2>2. header["seed"] = Some(header["seed"][1])
    BY <1>1, <2>1 DEF BodyPhase, HeaderPhase, HeaderRead
  <2>3. header["seed"][1] = FieldValue(origin, "seed")
    BY <1>0, <1>1, Body4Is DEF Body4
  <2> QED  BY <2>2, <2>3 DEF SeedRead
<1>9. Intact4'
  BY <1>1, <1>2, <1>7, <1>8 DEF Intact4, SeedRead
<1>10. IntactBlocks'
  <2>1. l \in Nat /\ \E at : StreamIn(data, l + 4, WrittenBlocks(origin), SaveHmacKey(origin), at)
    BY <1>0, <1>1, StreamOfFile
  <2>2. PICK at : StreamIn(data, l + 4, WrittenBlocks(origin), SaveHmacKey(origin), at)
    BY <2>1
  <2>3. index = 0 /\ pos = l + 3
    BY <1>1 DEF BodyStage, BodyPhase, HeaderPhase, Fresh
  <2>4. at[0] = 0
    BY <2>2 DEF StreamIn
  <2>5. 0 \in 0 .. Len(WrittenBlocks(origin))
    <3>1. IsSeq(WrittenBlocks(origin))
      BY <1>1, SavesAre, BlocksAre
    <3>2. PICK b \in Nat : b = Len(WrittenBlocks(origin))
      BY <3>1, SeqIs
    <3>3. 0 \in 0 .. b
      OBVIOUS
    <3> QED  BY <3>2, <3>3
  <2>6. pos' = l + 4 + at[index'] + 1 /\ index' = 0
    <3>1. l \in Nat /\ pos' = pos + 2 /\ pos = l + 3 /\ index' = 0
      BY <1>7, <2>1, <2>3
    <3>2. pos' = l + 4 + 0 + 1
      BY <3>1
    <3> QED  BY <2>4, <3>1, <3>2
  <2> QED  BY <1>0, <1>2, <2>2, <2>5, <2>6 DEF IntactBlocks, Layout
<1> QED  BY <1>7, <1>9, <1>10

\* Block after block is accepted, up to the last (read_hmac_block_stream).
LEMMA IntactBlock ==
    ASSUME OpeningInv, RightKey, Intact4, IntactBlocks, Next, pc = "blocks"
    PROVE  /\ Intact4'
           /\ \/ pc' = "blocks" /\ IntactBlocks'
              \/ pc' = "decrypt" /\ Len(out') = Len(WrittenBlocks(origin'))
<1>1. FileInv /\ BlocksPhase /\ origin.format = "KDB4"
  BY DEF OpeningInv, Phases, Intact4
<1>2. UNCHANGED <<data, origin>> /\ Kdbx4Block
  BY CallStays, StepsAt
<1>3. Intact4'
  BY <1>2, Intact4Kept DEF Kdbx4Block, containerVars
<1>4. hmacKey = SaveHmacKey(origin) /\ index = Len(out)
  BY <1>1, SeedTells DEF BlocksPhase, Intact4, Verified
<1> DEFINE l == Len(Layout(origin))
           B == WrittenBlocks(origin)
<1>5. IsSeq(B) /\ \A i \in 1 .. Len(B) : IsSeq(B[i]) /\ B[i] # <<>>
  BY <1>1, SavesAre, BlocksAre DEF IsSeq
<1>6. PICK at : /\ StreamIn(data, l + 4, B, hmacKey, at) /\ index \in 0 .. Len(B)
                /\ pos = l + 4 + at[index] + 1
  BY <1>4 DEF IntactBlocks
<1>7. IntactBlocks' <=> \E y : /\ StreamIn(data, l + 4, B, SaveHmacKey(origin), y)
                                     /\ index' \in 0 .. Len(B) /\ pos' = l + 4 + y[index'] + 1
  BY <1>2 DEF IntactBlocks, Layout
<1>8. B = WrittenBlocks(origin)
  OBVIOUS
<1> HIDE DEF B
<1> DEFINE m == l + 4
           b == Len(B)
           c == BlockNo(B, index)
<1>9. /\ BlockOf(c) /\ pos \in Nat \ {0} /\ IsSeq(data)
      /\ index # b => index + 1 \in 0 .. b /\ pos + 1 + data[pos][3] = m + at[index + 1] + 1
  <2>1. IsSeq(data) /\ b = Len(B) /\ c = BlockNo(B, index)
    BY <1>1, SavesAre
  <2>2. StreamIn(data, m, B, hmacKey, at) /\ index \in 0 .. b /\ pos = m + at[index] + 1
    BY <1>6
  <2> HIDE DEF m, b, c
  <2> QED  BY <1>5, <2>1, <2>2, BlockInStream
<1>10. b \in Nat
  BY <1>5, SeqIs
<1>11. Len(c) = 0 <=> index = b
  <2>1. CASE index = b
    BY <2>1, TuplesAreSeqs DEF BlockNo
  <2>2. CASE index # b
    <3>1. index + 1 \in 1 .. Len(B) /\ index < Len(B)
      BY <1>6, <1>10, <2>2
    <3>2. c = B[index + 1]
      BY <3>1 DEF BlockNo
    <3>3. IsSeq(c) /\ c # <<>>
      BY <1>5, <3>1, <3>2
    <3> HIDE DEF c
    <3>4. Len(c) # 0
      BY <3>3, NotEmpty
    <3> QED  BY <2>2, <3>4
  <2> QED  BY <2>1, <2>2
<1> HIDE DEF c, b
<1>12. pos <= Len(data) /\ BlockAt(pos) /\ Verifies(pos, index) /\ data[pos][3] = Len(c)
  BY <1>9 DEF BlockOf
<1>13. ~ EndOfStream
  <2>1. Len(data) \in Nat
    BY <1>9, SeqIs
  <2> QED  BY <1>9, <1>12, <2>1 DEF EndOfStream
<1>14. ~ BrokenBlock
  BY <1>12 DEF BrokenBlock
<1>15. CASE ReadBlock
  <2>1. data[pos][3] > 0 /\ pos' = pos + 1 + data[pos][3] /\ index' = index + 1 /\ pc' = "blocks"
    BY <1>15 DEF ReadBlock, NextIndex
  <2>2. index # b
    BY <1>11, <1>12, <2>1
  <2>3. index' \in 0 .. b /\ pos' = m + at[index'] + 1
    BY <1>9, <2>1, <2>2
  <2>4. IntactBlocks'
    BY <1>4, <1>6, <1>7, <2>3 DEF b
  <2> QED  BY <1>3, <2>1, <2>4
<1>16. CASE LastBlock
  <2>1. data[pos][3] = 0 /\ pc' = "decrypt" /\ out' = out
    BY <1>16 DEF LastBlock, Proceed
  <2>2. Len(out') = b
    BY <1>4, <1>11, <1>12, <2>1
  <2> QED  BY <1>2, <1>3, <1>8, <2>1, <2>2 DEF b
<1> QED  BY <1>2, <1>13, <1>14, <1>15, <1>16 DEF Kdbx4Block, ReadStream

\* The blocks, one after the other, are what was enciphered.
LEMMA SecretFromBlocks ==
    ASSUME NEW s, IsSave(s), s.format = "KDB4"
    PROVE  FlattenSeq(WrittenBlocks(s)) = Secret(s)
<1> DEFINE B == WrittenBlocks(s)
           E == Secret(s)
<1>1. PICK end : Tiles(B, E, end) /\ end[Len(B)] = Len(E)
  BY BlocksAre
<1>2. IsSeq(B) /\ IsSeq(E)
  BY BlocksAre, SecretIs
<1> HIDE DEF B, E
<1>3. Len(B) \in Nat /\ Len(E) \in Nat
  BY <1>2, SeqIs
<1>4. CASE Len(B) = 0
  <2>1. FlattenSeq(B) = B
    BY <1>2, <1>4, FlattenIs
  <2>2. Len(E) = 0
    BY <1>1, <1>4 DEF Tiles
  <2>3. B = E
    BY <1>2, <1>4, <2>2, SeqsEqual
  <2> QED  BY <2>1, <2>3 DEF B, E
<1>5. CASE Len(B) # 0
  <2>1. FlattenSeq(B) = Part(E, 1, Len(E))
    BY <1>1, <1>2, <1>5, TilesFlatten
  <2>2. Part(E, 1, Len(E)) = E
    <3>1. Len(E) \in 0 .. Len(E)
      BY <1>3
    <3> QED  BY <1>2, <3>1, PartOfBeginning
  <2> QED  BY <2>1, <2>2 DEF B, E
<1> QED  BY <1>4, <1>5

\* They are deciphered as a whole,
LEMMA IntactDecrypt ==
    ASSUME OpeningInv, RightKey, Intact4, Len(out) = Len(WrittenBlocks(origin)), Next,
           pc = "decrypt"
    PROVE  Intact4' /\ pc' = "inflate" /\ WholeOf(origin', payload')
<1>1. FileInv /\ Decrypt4Phase /\ origin.format = "KDB4" /\ IsSave(origin)
  BY SavesAre DEF OpeningInv, Phases, Intact4
<1>2. origin' = origin /\ Kdbx4Decrypt
  BY CallStays, StepsAt
<1>3. Intact4'
  BY <1>2, Intact4Kept DEF Kdbx4Decrypt
<1>4. Verified(origin) /\ IsSeq(out) /\ PrefixOfWritten
  BY <1>1, SeedTells DEF Decrypt4Phase, Intact4
<1> DEFINE B == WrittenBlocks(origin)
<1>5. out = B
  <2>1. written = B /\ IsSeq(B) /\ Len(out) = Len(B)
    BY <1>1, <1>4, BlocksAre DEF Verified
  <2> HIDE DEF B
  <2>2. \A i \in 1 .. Len(out) : out[i] = B[i]
    BY <1>4, <2>1, SeqIs DEF PrefixOfWritten
  <2> QED  BY <1>4, <2>1, <2>2, SeqsEqual
<1>6. FlattenSeq(out) = Secret(origin)
  BY <1>1, <1>5, SecretFromBlocks
<1>7. pc' = "inflate" /\ WholeOf(origin, payload')
  <2> DEFINE cells == FlattenSeq(out)
             to == "inflate"
  <2>1. cells = Secret(origin) /\ Decipher(cells, to)
    BY <1>2, <1>6 DEF Kdbx4Decrypt
  <2>2. /\ header["cipher"][1][1] = origin.outer /\ header["iv"][1] = FieldValue(origin, "iv")
        /\ masterKey = FileMaster(origin)
    BY <1>4, HeaderGives
  <2> HIDE DEF cells, to
  <2>3. pc' = to /\ WholeOf(origin, payload')
    BY <1>1, <2>1, <2>2, WholeDeciphered
  <2> QED  BY <2>3 DEF to
<1> QED  BY <1>2, <1>3, <1>7

\* and the document is decompressed.
LEMMA IntactInflate ==
    ASSUME OpeningInv, RightKey, Intact4, WholeOf(origin, payload), Next, pc = "inflate"
    PROVE  Intact4' /\ pc' = "inner" /\ WholeDocument(origin', payload')
<1>1. FileInv /\ Inflate4Phase /\ origin.format = "KDB4" /\ IsSave(origin)
  BY SavesAre DEF OpeningInv, Phases, Intact4
<1>2. origin' = origin /\ Kdbx4Inflate
  BY CallStays, StepsAt
<1>3. Intact4'
  BY <1>2, Intact4Kept DEF Kdbx4Inflate
<1>4. Verified(origin)
  BY <1>1, SeedTells DEF Inflate4Phase, Intact4
<1>5. header["compression"][1][1] = origin.compression
  BY <1>4, HeaderGives
<1>6. Inflates(origin.compression, payload) /\ WholeDocument(origin, Inflated(origin.compression, payload))
  BY <1>1, WholeInflates4
<1>7. pc' = "inner" /\ payload' = Inflated(origin.compression, payload)
  BY <1>2, <1>5, <1>6 DEF Kdbx4Inflate, Inflate, Proceed
<1> QED  BY <1>2, <1>3, <1>6, <1>7

\* What is there is not missing.
LEMMA ThereIs == \A v : Some(v) # Missing /\ Some(v)[1] = v
BY DEF Some, Missing

\* The inner header is read field by field, up to its end (parse_inner_header).
LEMMA IntactInnerStep ==
    ASSUME OpeningInv, RightKey, Intact4, WholeDocument(origin, payload), Next, pc = "inner"
    PROVE  Intact4' /\ pc' \in {"inner", "xml"} /\ WholeDocument(origin', payload')
<1>1. /\ FileInv /\ InnerPhase /\ origin.format = "KDB4" /\ IsSave(origin) /\ Readable(origin)
  BY SavesAre DEF OpeningInv, Phases, Intact4, RightKey, Untouched
<1>2. origin' = origin /\ (InnerField \/ InnerFails \/ InnerEnds)
  BY CallStays, StepsAt
<1>3. header' = header /\ payload' = payload
  BY <1>2 DEF InnerField, InnerFails, InnerEnds, containerVars
<1>4. Intact4' /\ WholeDocument(origin', payload')
  BY <1>2, <1>3, Intact4Kept
<1>5. InnerRead(origin, pos - 1) /\ pos \in Nat \ {0}
  BY <1>1, SeedTells DEF InnerPhase, Intact4
<1> DEFINE a == Len(origin.attachments)
<1>6. InnerLaid(origin, payload, a) /\ a \in Nat
  <2>1. payload = InnerDocument(origin) \/ payload = PaddedDocument(origin)
    BY DEF WholeDocument
  <2>2. InnerLaid(origin, payload, a)
    BY <1>1, <2>1, InnerDocumentIs
  <2> QED  BY <2>2 DEF InnerLaid
<1>7. a = Len(origin.attachments)
  OBVIOUS
<1> HIDE DEF a
<1>8. pos \in 1 .. a + 3
  BY <1>5, <1>6, <1>7 DEF InnerRead
<1>9. /\ pos # a + 3 => InnerHere
      /\ pos = a + 3 => InnerEndHere
      /\ InnerEndHere => pos = a + 3
  BY <1>1, <1>6, <1>7, <1>8, IntactInner
<1>10. CASE InnerField
  BY <1>4, <1>10 DEF InnerField
<1>11. CASE InnerFails
  BY <1>9, <1>11 DEF InnerFails
<1>12. CASE InnerEnds
  <2>1. pos = a + 3
    BY <1>9, <1>12 DEF InnerEnds
  <2>2. pos - 1 \notin {0, 1}
    BY <1>6, <2>1
  <2>3. inner.id # Missing /\ inner.key # Missing
    BY <1>5, <2>2, ThereIs DEF InnerRead
  <2>4. pc' = "xml"
    BY <1>12, <2>3 DEF InnerEnds, Proceed
  <2> QED  BY <1>4, <2>4
<1> QED  BY <1>2, <1>10, <1>11, <1>12

\* A database that was opened from a KDBX4 file is the one of its save.
LEMMA IntactXml4 ==
    ASSUME OpeningInv, RightKey, Intact4, WholeDocument(origin, payload), Next, pc = "xml"
    PROVE  pc' = "done" /\ result' = Contents(origin)
<1>1. /\ FileInv /\ XmlPhase /\ origin.format = "KDB4" /\ IsSave(origin) /\ op = "open"
  BY SavesAre DEF OpeningInv, Phases, Intact4, RightKey
<1>2. GetXml \/ BadXml \/ ParseXml(OpenedKdf)
  BY StepsAt
<1>3. PICK u \in Makers(origin) : Xml4(u)
  <2>1. PICK u \in Makers(origin) : Xml4(u) \/ Xml3(u)
    BY <1>1 DEF XmlPhase
  <2>2. ~ Xml3(u)
    BY <1>1, SavesAre DEF Xml3, Opened3
  <2> QED  BY <2>1, <2>2
<1>4. u = origin
  BY <1>1, <1>3, SeedTells DEF Xml4, Intact4
<1> DEFINE a == Len(origin.attachments)
<1>5. InnerLaid(origin, payload, a) /\ pos = a + 4
  <2>1. payload = InnerDocument(origin) \/ payload = PaddedDocument(origin)
    BY DEF WholeDocument
  <2>2. InnerLaid(origin, payload, a)
    BY <1>1, <2>1, InnerDocumentIs
  <2> QED  BY <1>3, <1>4, <2>2 DEF Xml4
<1>6. IsDocument(Rest) /\ Rest[2] # Garbage /\ ~ UnsoundBody(Rest)
  <2>1. Readable(origin)
    BY DEF RightKey, Untouched
  <2> HIDE DEF a
  <2> QED  BY <1>5, <2>1, IntactDocument
<1>7. ~ GetXml /\ ~ BadXml
  BY <1>1, <1>6 DEF GetXml, BadXml
<1>8. ParseXml(OpenedKdf) /\ pc' = "done"
  BY <1>2, <1>7 DEF ParseXml
<1> QED  BY <1>1, <1>3, <1>4, <1>8, Parsed4

----------------------------------------------------------------------------
(* The right key, on an intact KDBX3 file.                                 *)

TransformName == "transform seed"
InnerName == "inner cipher"
DecryptName == "decrypt3"
BlocksName == "hashed blocks"

\* What a KDBX3 reader has of the header and the key of the save
Intact3 ==
    /\ origin.format = "KDB3" /\ masterKey = FileMaster(origin)
    /\ \A f \in Kdbx3Fields : header[f] = Some(FieldValue(origin, f))
    /\ inner.id = Some(<<origin.inner>>) /\ inner.key = Some(StreamKey(origin))

\* The fields that a KDBX3 header needs
LEMMA Kdbx3Names ==
    /\ "cipher" \in Kdbx3Fields /\ "compression" \in Kdbx3Fields /\ "seed" \in Kdbx3Fields
    /\ "rounds" \in Kdbx3Fields /\ "iv" \in Kdbx3Fields /\ TransformName \in Kdbx3Fields
    /\ InnerName \in Kdbx3Fields /\ KeyName \in Kdbx3Fields /\ StartName \in Kdbx3Fields
BY Zenon DEF Kdbx3Fields, TransformName, InnerName, KeyName, StartName

\* The values of those fields
LEMMA Kdbx3Values ==
    ASSUME NEW s
    PROVE  /\ FieldValue(s, TransformName) = KdfSeed(s) /\ FieldValue(s, InnerName) = <<s.inner>>
           /\ FieldValue(s, KeyName) = StreamKey(s) /\ FieldValue(s, StartName) = <<StartName, s.n>>
BY FieldValues, Zenon DEF TransformName, InnerName, KeyName, StartName

\* A key with the parts of another one is as good, if nothing is challenged.
LEMMA SameElements ==
    ASSUME NEW k, IsKey(k), NEW l, IsKey(l), SameParts(k, l), KeyError(l) = "none",
           k.challenge = Missing
    PROVE  KeyError(k) = "none" /\ KeyElements(k) = KeyElements(l)
<1> DEFINE seed == "none"
           c == Challenged(k, seed)
           d == Challenged(l, seed)
<1>1. c = Challenged(k, seed) /\ d = Challenged(l, seed)
  OBVIOUS
<1> HIDE DEF c, d, seed
<1>2. /\ KeyElements(c) = KeyElements(d) /\ KeyError(c) = KeyError(d)
      /\ k.challenge = Missing <=> l.challenge = Missing
  BY <1>1, ElementsFromParts
<1>3. c = k /\ d = l
  BY <1>1, <1>2, ChallengedIs
<1> QED  BY <1>2, <1>3

\* The key of the payload is derived, from an intact header (decrypt_kdbx3).
LEMMA IntactBody3 ==
    ASSUME FileInv, RightKey, origin.format = "KDB3", BodyStage(Len(Layout(origin))),
           Kdbx3Refused \/ Kdbx3Derive, UNCHANGED origin
    PROVE  pc' = DecryptName /\ Intact3' /\ pos' = 13
<1>1. IsSave(origin) /\ IsKey(origin.key) /\ IsKey(dbKey) /\ Readable(origin)
  BY SavesAre DEF FileInv, RightKey, Untouched
<1>2. Len(Layout(origin)) = 10
  BY <1>1, Kdbx3Begins DEF Layout
<1>3. pos = 13 /\ ReadTo(10)
  BY <1>2 DEF BodyStage
<1>4. \A f \in Kdbx3Fields : header[f] = Some(FieldValue(origin, f))
  <2> SUFFICES ASSUME NEW f \in Kdbx3Fields PROVE header[f] = Some(FieldValue(origin, f))
    OBVIOUS
  <2>1. f \in Fields /\ \E i \in 1 .. 10 : Layout(origin)[i] = f
    BY <1>1, <1>2, NeededThere DEF Needed
  <2> QED  BY <1>3, <2>1 DEF ReadTo
<1>5. KeyError(dbKey) = "none" /\ KeyElements(dbKey) = KeyElements(origin.key)
  <2>1. KeyError(origin.key) = "none"
    BY <1>1 DEF IsSave
  <2>2. SameParts(dbKey, origin.key) /\ dbKey.challenge = Missing
    BY DEF RightKey, Opens
  <2> DEFINE k == origin.key
  <2> HIDE DEF k
  <2>3. KeyError(dbKey) = "none" /\ KeyElements(dbKey) = KeyElements(k)
    BY <1>1, <2>1, <2>2, SameElements DEF k
  <2> QED  BY <2>3 DEF k
<1>6. Kdbx3Derive
  BY <1>5 DEF Kdbx3Refused
<1>7. pc' = DecryptName /\ pos' = pos /\ header' = header
  BY <1>6, Zenon DEF Kdbx3Derive, Proceed, DecryptName
<1>8. /\ masterKey' = Kdbx3Master(header["seed"][1], header["rounds"][1][2],
                                  header[TransformName][1], dbKey)
      /\ inner' = [NoInner EXCEPT !.id = header[InnerName], !.key = header[KeyName]]
  BY <1>6, Zenon DEF Kdbx3Derive, TransformName, InnerName, KeyName
<1>9. masterKey' = FileMaster(origin)
  <2>1. header["seed"][1] = FieldValue(origin, "seed")
        /\ header["rounds"][1] = FieldValue(origin, "rounds")
        /\ header[TransformName][1] = FieldValue(origin, TransformName)
    BY <1>4, Kdbx3Names, ThereIs
  <2>2. header["rounds"][1][2] = origin.kdf[2]
    <3> DEFINE x == FieldValue(origin, "rounds")
    <3>1. x = <<"rounds", origin.kdf[2]>>
      BY FieldValues
    <3> HIDE DEF x
    <3>2. x[2] = origin.kdf[2]
      BY <3>1
    <3> QED  BY <2>1, <3>2 DEF x
  <2>3. header[TransformName][1] = KdfSeed(origin)
    BY <2>1, Kdbx3Values
  <2>4. masterKey' = Kdbx3Master(FieldValue(origin, "seed"), origin.kdf[2], KdfSeed(origin), dbKey)
    BY <1>8, <2>1, <2>2, <2>3
  <2>5. CompositeKey(dbKey) = CompositeKey(origin.key)
    BY <1>5 DEF CompositeKey
  <2> QED  BY <2>4, <2>5 DEF Kdbx3Master, FileMaster
<1>10. inner'.id = Some(<<origin.inner>>) /\ inner'.key = Some(StreamKey(origin))
  <2> DEFINE i == header[InnerName]
             k == header[KeyName]
  <2>1. i = Some(<<origin.inner>>) /\ k = Some(StreamKey(origin))
    BY <1>4, Kdbx3Names, Kdbx3Values
  <2>2. inner' = [NoInner EXCEPT !.id = i, !.key = k]
    BY <1>8
  <2> HIDE DEF i, k
  <2>3. inner'.id = i /\ inner'.key = k
    BY <2>2 DEF NoInner
  <2> QED  BY <2>1, <2>3
<1> QED  BY <1>3, <1>4, <1>7, <1>9, <1>10 DEF Intact3

\* The ciphertext of a KDBX3 file is deciphered as a whole (decrypt_kdbx3).
LEMMA IntactDecrypt3 ==
    ASSUME FileInv, RightKey, Intact3, pos = 13, Kdbx3Decrypt, UNCHANGED origin
    PROVE  Intact3' /\ pc' = StartName /\ WholeOf(origin', payload')
<1>1. /\ origin.format = "KDB3" /\ IsSave(origin) /\ data = FileOf(origin) /\ IsSeq(data)
      /\ masterKey = FileMaster(origin)
  BY SavesAre DEF Intact3, RightKey, Untouched
<1> DEFINE cells == Part(data, 13, Len(data))
           E == Secret(origin)
<1>2. IsSeq(E) /\ Len(E) \in Nat /\ Len(data) = 12 + Len(E)
      /\ \A i \in 1 .. Len(E) : data[12 + i] = E[i]
  <2>1. Behind(origin, data, 12)
    BY <1>1, Kdbx3Begins
  <2>2. IsSeq(E)
    BY <1>1, SecretIs
  <2> HIDE DEF E
  <2>3. Len(E) \in Nat
    BY <2>2, SeqIs
  <2> QED  BY <2>1, <2>2, <2>3 DEF Behind, E
<1>3. cells = E
  <2> HIDE DEF E
  <2>1. PICK n \in Nat : n = Len(E)
    BY <1>2
  <2>2. 13 \in Nat \ {0} /\ 12 + n \in 0 .. Len(data) /\ (12 + n) - 13 + 1 = n
        /\ \A i \in Int : 13 + i - 1 = 12 + i
    BY <1>2, <2>1
  <2>3. cells = Part(data, 13, 12 + n)
    BY <1>2, <2>1
  <2> HIDE DEF cells
  <2>4. IsSeq(cells) /\ Len(cells) = n /\ \A i \in 1 .. n : cells[i] = data[13 + i - 1]
    <3>1. /\ IsSeq(cells)
          /\ Len(cells) = IF 13 <= 12 + n THEN (12 + n) - 13 + 1 ELSE 0
          /\ \A i \in 1 .. (12 + n) - 13 + 1 : cells[i] = data[13 + i - 1]
      BY <1>1, <2>2, <2>3, PartIs
    <3> QED  BY <2>2, <3>1
  <2>5. \A i \in 1 .. n : cells[i] = E[i]
    BY <1>2, <2>1, <2>2, <2>4
  <2> QED  BY <1>2, <2>1, <2>4, <2>5, SeqsEqual
<1>4. /\ header["cipher"][1][1] = origin.outer /\ header["iv"][1] = FieldValue(origin, "iv")
  <2>1. header["cipher"] = Some(FieldValue(origin, "cipher"))
        /\ header["iv"] = Some(FieldValue(origin, "iv"))
    BY Kdbx3Names DEF Intact3
  <2>2. FieldValue(origin, "cipher") = <<origin.outer>>
    BY FieldValues
  <2> QED  BY <2>1, <2>2, ThereIs
<1>5. pc' = StartName /\ WholeOf(origin, payload')
  <2>1. Decipher(cells, StartName)
    BY Zenon DEF Kdbx3Decrypt, StartName, Part
  <2> HIDE DEF cells, E
  <2>2. cells = Secret(origin)
    BY <1>3 DEF E
  <2> QED  BY <1>1, <1>4, <2>1, <2>2, WholeDeciphered
<1>6. UNCHANGED <<header, masterKey, inner>>
  BY DEF Kdbx3Decrypt
<1> QED  BY <1>5, <1>6 DEF Intact3

\* The payload begins as the header says.
LEMMA IntactStart3 ==
    ASSUME FileInv, RightKey, Intact3, WholeOf(origin, payload), Kdbx3Start, UNCHANGED origin
    PROVE  Intact3' /\ pc' = BlocksName /\ WholeOf(origin', payload')
<1>1. IsSave(origin) /\ origin.format = "KDB3"
  BY SavesAre DEF Intact3
<1> DEFINE C == Cells3(origin)
           l == Len(C)
           st == header[StartName][1]
<1>2. Payload3Laid(origin, payload, C, l)
  <2>1. payload = Payload3(origin) \/ payload = FilePayload(origin)
    BY DEF WholeOf
  <2> QED  BY <1>1, <2>1, Payload3Is
<1>3. payload[1] = st
  <2>1. st = <<StartName, origin.n>>
    BY Kdbx3Names, Kdbx3Values, ThereIs DEF Intact3
  <2> HIDE DEF C, l, st
  <2> QED  BY <1>2, <2>1 DEF Payload3Laid
<1>4. payload # <<>>
  <2> HIDE DEF C, l
  <2>1. Len(payload) # 0
    BY <1>2 DEF Payload3Laid
  <2> QED  BY <2>1, TuplesAreSeqs
<1>5. Proceed(BlocksName)
  <2>1. Kdbx3Start => payload = <<>> \/ payload[1] # st \/ Proceed(BlocksName)
    BY Zenon DEF Kdbx3Start, StartName, BlocksName
  <2> QED  BY <1>3, <1>4, <2>1
<1>6. UNCHANGED <<header, masterKey, inner, payload>>
  BY DEF Kdbx3Start, containerVars
<1> QED  BY <1>5, <1>6 DEF Intact3, Proceed

\* q is the part of w from m to e
IsPart(q, w, m, e) ==
    /\ IsSeq(w) /\ m \in Nat \ {0} /\ e \in 0 .. Len(w) /\ m <= e
    /\ q = Part(w, m, e)

\* and has these cells.
HasCells(q, w, m, e) ==
    IsSeq(q) /\ Len(q) = e - m + 1 /\ \A i \in 1 .. e - m + 1 : q[i] = w[m + i - 1]

\* A part of a sequence has its length and its cells.
LEMMA PartAt ==
    ASSUME NEW q, NEW w, NEW m, NEW e, IsPart(q, w, m, e) PROVE HasCells(q, w, m, e)
BY PartIs DEF IsPart, HasCells

\* A block of the payload that is where it was written is accepted.
LEMMA HashedWhole ==
    ASSUME NEW C, NEW p, NEW a, NEW b, HashedAt(payload, C, p, a, b),
           p + (b - a + 1) <= Len(payload), payload[p][1] = "hashed"
    PROVE  /\ HashedBlockHere /\ payload[pos][4] > 0
           /\ HashMatches(HashedCells, payload[pos][3])
<1> DEFINE n == b - a + 1
           w == Part(C, a, b)
           q == Part(payload, p + 1, p + n)
           l == Len(payload)
<1>0. /\ IsSeq(C) /\ a \in Nat \ {0} /\ b \in Nat /\ a <= b /\ b <= Len(C)
      /\ IsSeq(payload) /\ p \in Nat \ {0} /\ p = pos
      /\ payload[p][3] = Sha256(w) /\ payload[p][4] = n
      /\ \A i \in 1 .. n : payload[p + i] = C[a + i - 1]
  BY DEF HashedAt
<1>1. n \in Nat \ {0} /\ l \in Nat /\ p + n <= l
  BY <1>0, SeqIs
<1>2. HashedCells = q
  BY <1>0 DEF HashedCells, Part
<1>3. IsSeq(q) /\ Len(q) = n /\ \A i \in 1 .. n : q[i] = payload[p + i]
  <2> DEFINE m == p + 1
             e == p + n
  <2> HIDE DEF n, l
  <2>1. e \in 0 .. l /\ m \in Nat \ {0} /\ m <= e /\ e - m + 1 = n
        /\ \A i \in Int : m + i - 1 = p + i
    BY <1>0, <1>1
  <2>2. q = Part(payload, m, e) /\ l = Len(payload) /\ \A i \in 1 .. n : i \in Int
    BY DEF l
  <2> HIDE DEF q, m, e
  <2>3. IsSeq(q) /\ Len(q) = e - m + 1 /\ \A i \in 1 .. e - m + 1 : q[i] = payload[m + i - 1]
    <3>1. IsPart(q, payload, m, e)
      BY <1>0, <2>1, <2>2 DEF IsPart
    <3>2. HasCells(q, payload, m, e)
      BY <3>1, PartAt, Zenon
    <3> QED  BY <3>2 DEF HasCells
  <2> QED  BY <2>1, <2>2, <2>3
<1>4. IsSeq(w) /\ Len(w) = n /\ \A i \in 1 .. n : w[i] = C[a + i - 1]
  <2>1. b \in 0 .. Len(C) /\ w = Part(C, a, b)
    BY <1>0, SeqIs
  <2> HIDE DEF w
  <2> QED  BY <1>0, <2>1, PartIs
<1> HIDE DEF q, w, n
<1>5. q = w
  <2>1. \A i \in 1 .. n : q[i] = w[i]
    BY <1>0, <1>3, <1>4
  <2> QED  BY <1>3, <1>4, <2>1, SeqsEqual
<1>6. payload[pos][3] = Sha256(HashedCells)
  BY <1>0, <1>2, <1>5
<1> HIDE DEF l
<1>7. payload[pos][4] > 0 /\ pos <= l /\ pos + payload[pos][4] <= l
  BY <1>0, <1>1
<1> QED  BY <1>0, <1>6, <1>7 DEF HashedBlockHere, HashMatches, l

\* What the cells that a document is kept in are decompressed to
LEMMA Cells3Whole ==
    ASSUME NEW u, IsSave(u)
    PROVE  Inflates(u.compression, Cells3(u)) /\ Inflated(u.compression, Cells3(u)) = Document(u)
<1> DEFINE d == Document(u)
           C == Cells3(u)
<1>1. u.compression \in {"None", "GZip"}
  BY DEF IsSave, Compressions
<1>2. CASE u.compression = "None"
  BY <1>2 DEF Cells3, Compressed, Inflates, Inflated
<1>3. CASE u.compression = "GZip"
  <2>1. C = <<<<"gzip", 1, d>>, <<"gzip", 2, d>>>>
    BY <1>3 DEF Cells3, Compressed
  <2> HIDE DEF C, d
  <2>2. Inflates("GZip", C) /\ Inflated("GZip", C) = d
    BY <2>1, GzipInflates
  <2> QED  BY <1>3, <2>2 DEF C, d
<1> QED  BY <1>1, <1>2, <1>3

\* Where the next block of the payload is
LEMMA Blocks3At ==
    ASSUME NEW u, NEW C, NEW l, Payload3Laid(u, payload, C, l), NEW p \in Nat, p = pos,
           BlocksTaken(C, l, p, out)
    PROVE  \/ /\ p # l + 4 /\ HashedBlockHere /\ payload[pos][4] > 0
              /\ HashMatches(HashedCells, payload[pos][3])
           \/ /\ HashedBlockHere /\ payload[pos][4] = 0
              /\ out = <<Part(C, 1, 1), Part(C, 2, l)>>
<1>1. /\ l \in {2, 3} /\ IsSeq(C) /\ Len(C) = l /\ IsSeq(payload)
      /\ payload[2] = <<"hashed", 0, Sha256(Part(C, 1, 1)), 1>>
      /\ payload[3] = C[1]
      /\ payload[4] = <<"hashed", 1, Sha256(Part(C, 2, l)), l - 1>>
      /\ \A i \in 1 .. l - 1 : payload[4 + i] = C[1 + i]
      /\ payload[l + 4] = <<"hashed", 2, <<>>, 0>>
  BY DEF Payload3Laid
<1>2. PICK m \in Nat : m = Len(payload) /\ m \in {l + 4, l + 5}
  BY SeqIs DEF Payload3Laid
<1>3. CASE p = 2
  <2> DEFINE w == Sha256(Part(C, 1, 1))
             b == 1
  <2>1. payload[p] = <<"hashed", 0, w, 1>>
    BY <1>1, <1>3
  <2> HIDE DEF w
  <2>2. payload[p][1] = "hashed" /\ payload[p][3] = w /\ payload[p][4] = b - 1 + 1
    BY <2>1
  <2>3. \A i \in 1 .. b - 1 + 1 : payload[p + i] = C[1 + i - 1]
    BY <1>1, <1>3
  <2>4. b \in Nat /\ 1 <= b /\ b <= Len(C) /\ p + (b - 1 + 1) <= Len(payload) /\ w = Sha256(Part(C, 1, b))
    BY <1>1, <1>2, <1>3 DEF w
  <2> HIDE DEF b
  <2>5. HashedAt(payload, C, p, 1, b)
    BY <1>1, <1>3, <2>2, <2>3, <2>4 DEF HashedAt
  <2>6. HashedBlockHere /\ payload[pos][4] > 0 /\ HashMatches(HashedCells, payload[pos][3])
    BY <2>2, <2>4, <2>5, HashedWhole
  <2> QED  BY <1>1, <1>3, <2>6
<1>4. CASE p = 4
  <2> DEFINE w == Sha256(Part(C, 2, l))
  <2>1. payload[p] = <<"hashed", 1, w, l - 1>>
    BY <1>1, <1>4
  <2> HIDE DEF w
  <2>2. payload[p][1] = "hashed" /\ payload[p][3] = w /\ payload[p][4] = l - 1
    BY <2>1
  <2>3. l - 2 + 1 = l - 1 /\ l \in Nat /\ 2 <= l /\ l <= Len(C) /\ p + (l - 2 + 1) <= Len(payload)
        /\ \A i \in Int : 2 + i - 1 = 1 + i
    BY <1>1, <1>2, <1>4
  <2>4. \A i \in 1 .. l - 2 + 1 : payload[p + i] = C[2 + i - 1]
    BY <1>1, <1>4, <2>3
  <2>5. HashedAt(payload, C, p, 2, l)
    BY <1>1, <1>4, <2>2, <2>3, <2>4 DEF HashedAt, w
  <2>6. HashedBlockHere /\ payload[pos][4] > 0 /\ HashMatches(HashedCells, payload[pos][3])
    BY <2>2, <2>3, <2>5, HashedWhole
  <2> QED  BY <1>1, <1>4, <2>6
<1>5. CASE p = l + 4
  <2>1. payload[p] = <<"hashed", 2, <<>>, 0>>
    BY <1>1, <1>5
  <2>2. payload[p][1] = "hashed" /\ payload[p][4] = 0
    BY <2>1
  <2>3. p <= m /\ p + 0 <= m
    BY <1>1, <1>2, <1>5
  <2>4. HashedBlockHere
    BY <1>2, <2>2, <2>3 DEF HashedBlockHere
  <2>5. p # 2 /\ p # 4
    BY <1>1, <1>5
  <2> QED  BY <2>2, <2>4, <2>5 DEF BlocksTaken
<1> QED  BY <1>3, <1>4, <1>5 DEF BlocksTaken

\* The save whose key deciphers the file is the one that made it.
LEMMA MasterIs ==
    ASSUME FileInv, Intact3, NEW u \in Makers(origin), FileMaster(u) = masterKey
    PROVE  u = origin
<1>1. origin \in Makers(origin) /\ FileMaster(origin) = masterKey
  BY DEF Makers, Intact3
<1> QED  BY <1>1, MastersDiffer, SavesAre

\* Block after block is taken, and the document comes out of them.
LEMMA IntactBlocks3 ==
    ASSUME FileInv, Blocks3Phase, RightKey, Intact3, WholeOf(origin, payload),
           Kdbx3Block \/ Kdbx3BlockFails \/ Kdbx3Inflate, UNCHANGED origin
    PROVE  /\ Intact3'
           /\ \/ pc' = BlocksName /\ WholeOf(origin', payload')
              \/ pc' = "xml" /\ payload' = Document(origin')
<1>1. IsSave(origin) /\ origin.format = "KDB3"
  BY SavesAre DEF Intact3
<1>2. Intact3'
  <2>1. UNCHANGED <<header, masterKey, inner>>
    BY DEF Kdbx3Block, Kdbx3BlockFails, Kdbx3Inflate, containerVars
  <2> QED  BY <2>1 DEF Intact3
<1> DEFINE C == Cells3(origin)
           l == Len(C)
<1>3. BlocksTaken(C, l, pos, out)
  <2>1. PICK u \in Makers(origin) : Opened3(u) /\ BlocksTaken(Cells3(u), Len(Cells3(u)), pos, out)
    BY DEF Blocks3Phase, BlocksTaken, Part
  <2>2. u = origin
    BY <2>1, MasterIs DEF Opened3
  <2> QED  BY <2>1, <2>2
<1>4. Payload3Laid(origin, payload, C, l)
  <2>1. payload = Payload3(origin) \/ payload = FilePayload(origin)
    BY DEF WholeOf
  <2> QED  BY <1>1, <2>1, Payload3Is
<1>5. l \in {2, 3} /\ IsSeq(C) /\ l = Len(C)
  <2>1. l = Len(C)
    OBVIOUS
  <2> HIDE DEF C, l
  <2> QED  BY <1>4, <2>1 DEF Payload3Laid
<1>6. Inflates(origin.compression, C) /\ Inflated(origin.compression, C) = Document(origin)
  BY <1>1, Cells3Whole
<1> HIDE DEF C, l
<1>7. PICK p \in Nat : p = pos
  BY <1>3, <1>5 DEF BlocksTaken
<1>8. \/ /\ HashedBlockHere /\ payload[pos][4] > 0
         /\ HashMatches(HashedCells, payload[pos][3])
      \/ /\ HashedBlockHere /\ payload[pos][4] = 0
         /\ out = <<Part(C, 1, 1), Part(C, 2, l)>>
  <2>1. BlocksTaken(C, l, p, out)
    BY <1>3, <1>7
  <2> QED  BY <1>4, <1>7, <2>1, Blocks3At
<1>9. CASE /\ HashedBlockHere /\ payload[pos][4] > 0
           /\ HashMatches(HashedCells, payload[pos][3])
  <2>1. ~ Kdbx3Inflate /\ ~ Kdbx3BlockFails
    <3>1. payload[pos][4] # 0
      BY <1>9
    <3> QED  BY <1>9, <3>1, Zenon DEF Kdbx3Inflate, Kdbx3BlockFails
  <2>2. Kdbx3Block
    BY <2>1
  <2>3. pc' = BlocksName
    BY <2>2, Zenon DEF Kdbx3Block, BlocksName
  <2>4. payload' = payload
    BY <2>2 DEF Kdbx3Block, containerVars
  <2> QED  BY <1>2, <2>3, <2>4
<1>10. CASE /\ HashedBlockHere /\ payload[pos][4] = 0
            /\ out = <<Part(C, 1, 1), Part(C, 2, l)>>
  <2>1. ~ Kdbx3Block /\ ~ Kdbx3BlockFails
    <3>1. ~ (payload[pos][4] > 0) /\ HashedBlockHere
      BY <1>10
    <3> QED  BY <3>1, Zenon DEF Kdbx3Block, Kdbx3BlockFails
  <2>2. Inflate(FlattenSeq(out), "xml")
    BY <2>1 DEF Kdbx3Inflate
  <2>3. FlattenSeq(out) = C
    BY <1>5, <1>10, TwoParts
  <2>4. header["compression"][1][1] = origin.compression
    <3>1. header["compression"] = Some(FieldValue(origin, "compression"))
      BY Kdbx3Names DEF Intact3
    <3>2. FieldValue(origin, "compression") = <<origin.compression>>
      BY FieldValues
    <3> QED  BY <3>1, <3>2, ThereIs
  <2>5. pc' = "xml" /\ payload' = Document(origin)
    BY <1>6, <2>2, <2>3, <2>4 DEF Inflate, Proceed
  <2> QED  BY <1>2, <2>5
<1> QED  BY <1>8, <1>9, <1>10

\* The document of a save, where a reader begins with it
LEMMA DocumentHere ==
    ASSUME NEW u, IsSave(u), payload = Document(u), pos = 1
    PROVE  /\ IsDocument(Rest) /\ Rest[2] # Garbage
           /\ Body(Rest) = <<u.db, u.inner, StreamKey(u)>>
           /\ Readable(u) => ~ UnsoundBody(Rest)
<1> DEFINE x1 == <<"xml", "open">>
           d == <<u.db, u.inner, StreamKey(u)>>
           x2 == <<"xml", "body", d>>
           x3 == <<"xml", "close">>
<1>1. payload = <<x1, x2, x3>>
  BY DEF Document
<1>2. x2[1] = "xml" /\ x2[2] = "body" /\ x2[3] = d /\ x2 # Garbage
  <2>1. x2 = <<"xml", "body", d>>
    OBVIOUS
  <2> HIDE DEF x2, d
  <2> QED  BY <2>1 DEF Garbage
<1>3. x1 = <<"xml", "open">> /\ x3 = <<"xml", "close">>
  OBVIOUS
<1>9. Readable(u) => d[1] \notin Unsound
  BY DEF Readable
<1> HIDE DEF x1, x2, x3, d
<1>4. IsSeq(payload) /\ Len(payload) = 3
  BY <1>1, TuplesAreSeqs
<1>5. payload[1] = x1 /\ payload[2] = x2 /\ payload[3] = x3
  BY <1>1
<1>6. Rest = payload
  <2>1. Rest = Part(payload, 1, Len(payload))
    BY DEF Rest, Part
  <2>2. 0 \in 0 .. Len(payload)
    BY <1>4
  <2> QED  BY <1>4, <2>1, <2>2, PartOfBeginning
<1>7. IsDocument(Rest)
  BY <1>2, <1>3, <1>4, <1>5, <1>6 DEF IsDocument
<1>8. Rest[2] # Garbage /\ Body(Rest) = d
  BY <1>2, <1>5, <1>6 DEF Body
<1>10. Readable(u) => ~ UnsoundBody(Rest)
  BY <1>2, <1>5, <1>6, <1>9 DEF UnsoundBody
<1> QED  BY <1>7, <1>8, <1>10 DEF d

\* A database that was opened from a KDBX3 file is the one of its save.
LEMMA IntactXml3 ==
    ASSUME FileInv, XmlPhase, RightKey, Intact3, payload = Document(origin),
           GetXml \/ BadXml \/ ParseXml(OpenedKdf)
    PROVE  pc' = "done" /\ result' = Contents(origin)
<1>1. IsSave(origin) /\ origin.format = "KDB3" /\ op = "open" /\ Untouched
  BY SavesAre DEF Intact3, RightKey
<1>2. pos = 1 /\ header["public"] = Missing /\ inner.attachments = <<>>
  <2>1. PICK u \in Makers(origin) : Xml4(u) \/ Xml3(u)
    BY DEF XmlPhase
  <2>2. ~ Xml4(u)
    BY <1>1, <2>1, SavesAre DEF Xml4, Verified
  <2> QED  BY <2>1, <2>2 DEF Xml3, Derived3
<1> DEFINE d == <<origin.db, origin.inner, StreamKey(origin)>>
<1>3. IsDocument(Rest) /\ Rest[2] # Garbage /\ ~ UnsoundBody(Rest) /\ Body(Rest) = d
  <2>1. Readable(origin)
    BY DEF RightKey, Untouched
  <2> QED  BY <1>1, <1>2, <2>1, DocumentHere
<1>4. ParseXml(OpenedKdf)
  BY <1>1, <1>3 DEF GetXml, BadXml
<1>5. pc' = "done"
      /\ result' = Opened(data[1], header["cipher"][1][1], header["compression"][1][1],
                          inner.id[1][1], inner.key[1], OpenedKdf, header["public"],
                          inner.attachments, Body(Rest))
  BY <1>4 DEF ParseXml
<1>6. /\ header["cipher"][1][1] = origin.outer /\ header["compression"][1][1] = origin.compression
      /\ header["rounds"][1][2] = origin.kdf[2]
  <2> DEFINE x == FieldValue(origin, "cipher")
             y == FieldValue(origin, "compression")
             z == FieldValue(origin, "rounds")
  <2>1. header["cipher"] = Some(x) /\ header["compression"] = Some(y) /\ header["rounds"] = Some(z)
    BY Kdbx3Names DEF Intact3
  <2>2. x = <<origin.outer>> /\ y = <<origin.compression>> /\ z = <<"rounds", origin.kdf[2]>>
    BY FieldValues
  <2> HIDE DEF x, y, z
  <2>3. x[1] = origin.outer /\ y[1] = origin.compression /\ z[2] = origin.kdf[2]
    BY <2>2
  <2> QED  BY <2>1, <2>3, ThereIs
<1>7. inner.id[1][1] = origin.inner /\ inner.key[1] = StreamKey(origin)
  BY ThereIs DEF Intact3
<1>8. data[1] = VersionCell(origin) /\ data[1][2] = "KDB3"
  BY <1>1, FormatRead
<1>9. OpenedKdf = origin.kdf
  <2>1. origin.kdf = <<origin.kdf[1], origin.kdf[2]>> /\ origin.kdf[1] = "Aes"
    BY <1>1 DEF IsSave
  <2> DEFINE n == header["rounds"][1][2]
  <2>2. OpenedKdf = <<"Aes", n>> /\ n = origin.kdf[2]
    BY <1>6, <1>8 DEF OpenedKdf
  <2> HIDE DEF n
  <2> QED  BY <2>1, <2>2
<1>10. origin.attachments = <<>>
  BY <1>1 DEF IsSave
<1> DEFINE v == VersionCell(origin)
<1>11. Contents(origin) = Opened(v, origin.outer, origin.compression, origin.inner,
                                 StreamKey(origin), origin.kdf, Missing, <<>>, d)
  BY <1>1, <1>10 DEF Contents, VersionCell
<1>12. result' = Opened(v, origin.outer, origin.compression, origin.inner,
                        StreamKey(origin), origin.kdf, Missing, <<>>, d)
  <2> HIDE DEF d, v
  <2>1. data[1] = v
    BY <1>8 DEF v
  <2> QED  BY <1>2, <1>3, <1>5, <1>6, <1>7, <1>9, <2>1
<1> QED  BY <1>5, <1>11, <1>12

----------------------------------------------------------------------------
(* The right key, on an intact KDB file.                                   *)

KdbHead == "kdb header"
PaddingName == "KDB padding"
FieldsName == "KDB fields"

\* The header of the file and what follows it
LEMMA IntactKdbFile ==
    ASSUME FileInv, Untouched, origin.format = "KDB"
    PROVE  /\ IsSave(origin) /\ Present(2) /\ data[2][1] = KdbHead
           /\ data[2][2] = KdbHeader(origin) /\ data[1] = VersionCell(origin)
           /\ Part(data, 3, Len(data)) = Secret(origin)
<1>1. IsSave(origin) /\ data = FileOf(origin) /\ IsSeq(data) /\ DOMAIN data = 1 .. Len(data)
      /\ Len(data) \in Nat
  BY SavesAre DEF Untouched
<1> DEFINE E == Secret(origin)
           cells == Part(data, 3, Len(data))
           h == KdbHeader(origin)
<1>2. Behind(origin, data, 2) /\ data[1] = VersionCell(origin) /\ data[2] = <<KdbHead, h>>
  BY <1>1, KdbBegins, Zenon DEF KdbHead
<1>3. IsSeq(E)
  BY <1>1, SecretIs
<1> HIDE DEF E, h
<1>4. data[2][1] = KdbHead /\ data[2][2] = h
  BY <1>2
<1>5. PICK n \in Nat : n = Len(E)
  BY <1>3, SeqIs
<1>6. Len(data) = 2 + n /\ \A i \in 1 .. n : data[2 + i] = E[i]
  BY <1>2, <1>5 DEF Behind, E
<1>7. cells = E
  <2>1. 3 \in Nat \ {0} /\ 2 + n \in 0 .. Len(data) /\ (2 + n) - 3 + 1 = n
        /\ \A i \in Int : 3 + i - 1 = 2 + i
    BY <1>6
  <2>2. cells = Part(data, 3, 2 + n)
    BY <1>6
  <2> HIDE DEF cells
  <2>3. IsSeq(cells) /\ Len(cells) = n /\ \A i \in 1 .. n : cells[i] = data[3 + i - 1]
    <3>1. /\ IsSeq(cells)
          /\ Len(cells) = IF 3 <= 2 + n THEN (2 + n) - 3 + 1 ELSE 0
          /\ \A i \in 1 .. (2 + n) - 3 + 1 : cells[i] = data[3 + i - 1]
      BY <1>1, <2>1, <2>2, PartIs
    <3> QED  BY <2>1, <3>1
  <2>4. \A i \in 1 .. n : cells[i] = E[i]
    BY <1>6, <2>1, <2>3
  <2> QED  BY <1>3, <1>5, <2>3, <2>4, SeqsEqual
<1>8. Present(2)
  <2>1. 2 \in 1 .. Len(data)
    BY <1>6
  <2>2. KdbHead # "torn"
    BY Zenon DEF KdbHead
  <2>3. data[2] # Torn
    BY <1>4, <2>2 DEF Torn
  <2> QED  BY <1>1, <2>1, <2>3 DEF Present
<1> QED  BY <1>1, <1>2, <1>4, <1>7, <1>8 DEF E, h

\* Its payload is deciphered as a whole (decrypt_kdb).
LEMMA IntactKdb ==
    ASSUME FileInv, RightKey, origin.format = "KDB", pos = 2, KdbRefused \/ KdbDecrypt,
           UNCHANGED origin
    PROVE  pc' = PaddingName /\ WholeOf(origin', payload')
<1>1. /\ IsSave(origin) /\ Present(pos) /\ data[pos][1] = KdbHead
      /\ data[pos][2] = KdbHeader(origin)
      /\ Part(data, pos + 1, Len(data)) = Secret(origin)
  <2>1. pos + 1 = 3
    OBVIOUS
  <2> QED  BY <2>1, IntactKdbFile DEF RightKey
<1>2. KeyError(dbKey) = "none" /\ KeyElements(dbKey) = KeyElements(origin.key)
  <2>1. KeyError(origin.key) = "none" /\ IsKey(origin.key) /\ IsKey(dbKey)
    BY <1>1 DEF IsSave, FileInv
  <2>2. SameParts(dbKey, origin.key) /\ dbKey.challenge = Missing
    BY DEF RightKey, Opens
  <2> DEFINE k == origin.key
  <2> HIDE DEF k
  <2>3. KeyError(dbKey) = "none" /\ KeyElements(dbKey) = KeyElements(k)
    BY <2>1, <2>2, SameElements DEF k
  <2> QED  BY <2>3 DEF k
<1> DEFINE h == KdbHeader(origin)
           iv == FieldValue(origin, "iv")
           E == Secret(origin)
           c == origin.outer
           K == FileMaster(origin)
           D == Deciphered(c, K, iv, E)
           q == FilePayload(origin)
<1>3. h.outer = c /\ h.iv = iv
  BY DEF KdbHeader
<1>4. KdbMaster(h, dbKey) = K
  <2>1. KdbComposite(dbKey) = KdbComposite(origin.key)
    BY <1>2 DEF KdbComposite, CompositeKey
  <2>2. K = KdbMaster(h, origin.key)
    BY DEF FileMaster
  <2> HIDE DEF h, K
  <2> QED  BY <2>1, <2>2 DEF KdbMaster
<1>5. c \in {"AES256", "Twofish"} /\ Chains(c) /\ c \in OuterCiphers
  <2>1. c \in {"AES256", "Twofish"}
    BY <1>1 DEF IsSave
  <2> QED  BY <2>1 DEF Chains, OuterCiphers
<1>6. Padded(D) /\ Unpadded(c, D) \in {q, D} /\ D = Payload3(origin)
  <2>1. D = Deciphered(origin.outer, FileMaster(origin), FieldValue(origin, "iv"), Secret(origin))
    OBVIOUS
  <2> HIDE DEF D
  <2>2. D = Payload3(origin) /\ IsSeq(q) /\ IsSeq(D)
    BY <1>1, <2>1, SecretDeciphered
  <2>3. D = WithPadding(c, q)
    BY <2>2 DEF Payload3
  <2> HIDE DEF q, c
  <2>4. Padded(D) /\ (Unpadded(c, D) = q \/ Unpadded(c, D) = D)
    BY <1>5, <2>2, <2>3, PaddingLeft
  <2> QED  BY <2>2, <2>4
<1>7. ~ KdbRefused
  <2> HIDE DEF D, q, K, iv, E
  <2>1. data[pos][2].outer \in {"AES256", "Twofish"}
    BY <1>1, <1>3, <1>5
  <2>2. ~ IsOddKey(dbKey)
    BY <1>1, <1>2 DEF IsSave, IsOddKey
  <2>3. KdbError = "none"
    BY <1>1, <1>2, <2>1, <2>2, Zenon DEF KdbError, KdbHead
  <2> QED  BY <2>3 DEF KdbRefused
<1>8. payload' = Unpadded(c, D) /\ Proceed(PaddingName)
  <2> DEFINE g == data[pos][2]
             cells == Part(data, pos + 1, Len(data))
             plain == Deciphered(g.outer, KdbMaster(g, dbKey), g.iv, cells)
  <2>1. plain = D /\ g.outer = c
    <3>1. g = h /\ cells = E
      BY <1>1
    <3> HIDE DEF g, cells, h, c, K, E, iv
    <3>2. plain = Deciphered(c, K, iv, E) /\ g.outer = c
      BY <1>3, <1>4, <3>1
    <3> QED  BY <3>2
  <2>2. \/ Padded(plain) /\ payload' = Unpadded(g.outer, plain) /\ Proceed(PaddingName)
        \/ ~ Padded(plain)
    BY <1>7, Zenon DEF KdbDecrypt, Part, PaddingName
  <2> HIDE DEF plain, D, g, c, q
  <2> QED  BY <1>6, <2>1, <2>2
<1> HIDE DEF D, q, c
<1>9. payload' \in {q, Payload3(origin)}
  BY <1>6, <1>8
<1> QED  BY <1>8, <1>9 DEF q, WholeOf, Proceed

\* Padding behind two cells is cut off, and only padding (parse_kdb).
LEMMA PaddingOff ==
    ASSUME NEW p, IsSeq(p), Len(p) = 2, p[2] # Padding, NEW q, q = p \/ q = Added(p, Padding)
    PROVE  q # <<>> /\ WithoutPadding(q) = p
<1>0. Len(<<>>) = 0
  OBVIOUS
<1>1. CASE q = p
  <2>1. Len(q) = 2 /\ q[2] # Padding
    BY <1>1
  <2>2. q[Len(q)] # Padding /\ q # <<>>
    BY <1>0, <2>1
  <2>3. Last(q) # Padding
    BY <2>2 DEF Last
  <2> QED  BY <1>1, <2>2, <2>3 DEF WithoutPadding
<1>2. CASE q = Added(p, Padding)
  <2>1. IsSeq(q) /\ Len(q) = 3 /\ q[3] = Padding /\ \A i \in 1 .. 2 : q[i] = p[i]
    <3> DEFINE d == Added(p, Padding)
               l == Len(p)
    <3>1. /\ IsSeq(d) /\ Len(d) = l + 1 /\ d[l + 1] = Padding
          /\ \A i \in 1 .. l : d[i] = p[i]
      BY AddedIs
    <3>2. l = 2 /\ q = d
      BY <1>2
    <3> HIDE DEF d, l
    <3> QED  BY <3>1, <3>2
  <2> DEFINE w == Part(q, 1, 2)
  <2>2. IsSeq(w) /\ Len(w) = 2 /\ \A i \in 1 .. 2 : w[i] = q[i]
    <3>1. 2 \in 0 .. Len(q)
      BY <2>1
    <3> QED  BY <2>1, <3>1, PartOfBeginning
  <2>3. Last(q) = Padding /\ Front(q) = w
    BY <2>1 DEF Last, Front, Part
  <2> HIDE DEF w
  <2>4. w = p
    BY <2>1, <2>2, SeqsEqual
  <2>5. q # <<>>
    BY <2>1, TuplesAreSeqs
  <2> QED  BY <2>3, <2>4, <2>5 DEF WithoutPadding
<1> QED  BY <1>1, <1>2

\* Without its padding, the payload is the one whose hash the header has.
LEMMA IntactPadding ==
    ASSUME FileInv, RightKey, origin.format = "KDB", pos = 2, WholeOf(origin, payload),
           KdbPadding, UNCHANGED origin
    PROVE  \/ pc' = FieldsName
           \/ pc' = "done" /\ ~ (origin.db.groups + origin.db.entries > 0)
<1>1. IsSave(origin) /\ data[pos][2] = KdbHeader(origin)
  BY IntactKdbFile DEF RightKey
<1> DEFINE h == data[pos][2]
           w == WithoutPadding(payload)
<1>2. \/ payload # <<>> /\ Sha256(w) = h.hash /\ Proceed(FieldsName)
      \/ payload = <<>> /\ (\E e : Fail(e))
      \/ Sha256(w) # h.hash /\ (\E e : Fail(e))
      \/ payload # <<>> /\ Last(payload) = Garbage /\ (\E e : Fail(e))
  BY Zenon DEF KdbPadding, FieldsName
<1>3. CASE ~ (origin.db.groups + origin.db.entries > 0)
  <2> HIDE DEF w, h
  <2> QED  BY <1>2, <1>3 DEF Proceed, Fail
<1>4. CASE origin.db.groups + origin.db.entries > 0
  <2> DEFINE x == <<"fields", origin.db>>
             y == <<"end field">>
             p == KdbPayload(origin)
  <2>1. p = <<x, y>>
    <3>1. origin.db.groups + origin.db.entries # 0
      BY <1>4
    <3> QED  BY <3>1, Zenon DEF KdbPayload
  <2>2. y # Padding /\ y # Garbage /\ Padding # Garbage
    BY Zenon DEF Padding, Garbage
  <2> HIDE DEF x, y
  <2>3. IsSeq(p) /\ Len(p) = 2 /\ p[1] = x /\ p[2] = y
    <3> HIDE DEF p
    <3> QED  BY <2>1, TuplesAreSeqs
  <2>4. FilePayload(origin) = p /\ Payload3(origin) = WithPadding(origin.outer, p)
    BY DEF FilePayload, Payload3
  <2> HIDE DEF p
  <2>5. payload = p \/ payload = Added(p, Padding)
    BY <2>4 DEF WholeOf, WithPadding, Added
  <2>6. w = p /\ payload # <<>>
    <3>1. IsSeq(p) /\ Len(p) = 2 /\ p[2] # Padding
      BY <2>2, <2>3
    <3>2. w = WithoutPadding(payload)
      OBVIOUS
    <3> HIDE DEF w, h
    <3> QED  BY <2>5, <3>1, <3>2, PaddingOff
  <2>7. h.hash = Sha256(w)
    <3> HIDE DEF w
    <3> QED  BY <1>1, <2>6 DEF KdbHeader, p
  <2>8. Last(payload) # Garbage
    <3>1. /\ IsSeq(Added(p, Padding)) /\ Len(Added(p, Padding)) = 3
          /\ Added(p, Padding)[3] = Padding
      <4> DEFINE l == Len(p)
                 q == Added(p, Padding)
      <4>1. IsSeq(q) /\ Len(q) = l + 1 /\ q[l + 1] = Padding
        BY <2>3, AddedIs
      <4>2. l = 2
        BY <2>3
      <4> HIDE DEF l, q
      <4>3. Len(q) = 3 /\ q[3] = Padding
        BY <4>1, <4>2
      <4> QED  BY <4>1, <4>3 DEF q
    <3>2. payload[Len(payload)] # Garbage
      BY <2>2, <2>3, <2>5, <3>1
    <3> QED  BY <3>2 DEF Last
  <2> HIDE DEF w, h
  <2> QED  BY <1>2, <2>6, <2>7, <2>8 DEF Proceed
<1> QED  BY <1>3, <1>4

\* A database that was opened from a KDB file is the one of its save.
LEMMA IntactFields ==
    ASSUME FileInv, RightKey, origin.format = "KDB", pos = 2, KdbEnds
    PROVE  pc' = "done" /\ (result' = Contents(origin) \/ result' = Failure("Kdb"))
<1>1. IsSave(origin) /\ data[pos][2] = KdbHeader(origin) /\ data[1] = VersionCell(origin)
  BY IntactKdbFile DEF RightKey
<1> DEFINE h == data[pos][2]
<1>2. h.outer = origin.outer /\ h.rounds = origin.kdf[2] /\ h.fields = origin.db
  BY <1>1 DEF KdbHeader
<1>3. pc' = "done"
      /\ \/ result' = Failure("Kdb")
         \/ result' = Opened(data[1], h.outer, "None", "Plain", <<>>,
                             <<"Aes", h.rounds>>, Missing, <<>>, <<h.fields, "Plain", <<>>>>)
  BY DEF KdbEnds
<1>4. CASE result' = Opened(data[1], h.outer, "None", "Plain", <<>>,
                             <<"Aes", h.rounds>>, Missing, <<>>, <<h.fields, "Plain", <<>>>>)
  <2>1. origin.attachments = <<>> /\ origin.compression = "None" /\ origin.inner = "Plain"
        /\ origin.kdf = <<origin.kdf[1], origin.kdf[2]>> /\ origin.kdf[1] = "Aes"
    BY <1>1 DEF IsSave
  <2> DEFINE v == VersionCell(origin)
             k == StreamKey(origin)
             d1 == <<h.fields, "Plain", <<>>>>
             d2 == <<origin.db, origin.inner, k>>
             same1 == SameStream("Plain", <<>>, d1[2], d1[3])
             same2 == SameStream("Plain", k, d2[2], d2[3])
  <2>2. <<"Aes", h.rounds>> = origin.kdf
    BY <1>2, <2>1
  <2>3. result' = Opened(v, origin.outer, "None", "Plain", <<>>, origin.kdf, Missing, <<>>, d1)
    BY <1>1, <1>2, <1>4, <2>2
  <2>4. Contents(origin) = Opened(v, origin.outer, "None", "Plain", k, origin.kdf, Missing, <<>>, d2)
    BY <2>1 DEF Contents, VersionCell
  <2>5. d1[1] = origin.db /\ d2[1] = origin.db /\ d1[2] = "Plain" /\ d2[2] = "Plain" /\ d2[3] = k
    BY <1>2, <2>1
  <2>6. same1 = TRUE /\ same2 = TRUE
    <3> HIDE DEF d1, d2, k
    <3> QED  BY <2>5 DEF SameStream
  <2> HIDE DEF d1, d2, k, v
  <2>7. Contents(origin) = Opened(v, origin.outer, "None", "Plain", <<>>, origin.kdf, Missing, <<>>, d1)
    BY <2>4, <2>5, <2>6 DEF Opened
  <2> QED  BY <1>3, <2>3, <2>7
<1> QED  BY <1>3, <1>4

----------------------------------------------------------------------------
(* With the right key, the reader comes through.                           *)

\* What a call that has returned gave, if it was given the right key.
OpensWhole ==
    IF origin.format = "KDB"
      THEN origin.db.groups + origin.db.entries > 0 =>
               result = Contents(origin) \/ result = Failure("Kdb")
      ELSE result = Contents(origin)

\* Where the reader is, and what it has of the file there.
OnHeader == pc \in {"version", "KDB4", "KDB3", "KDB4 body", "KDB3 body"}

Opening4 ==
    /\ Intact4
    /\ \/ pc = "blocks" /\ IntactBlocks
       \/ pc = "decrypt" /\ Len(out) = Len(WrittenBlocks(origin))
       \/ pc = "inflate" /\ WholeOf(origin, payload)
       \/ pc \in {"inner", "xml"} /\ WholeDocument(origin, payload)

Opening3 ==
    /\ Intact3
    /\ \/ pc = DecryptName /\ pos = 13
       \/ pc = StartName /\ WholeOf(origin, payload)
       \/ pc = BlocksName /\ WholeOf(origin, payload)
       \/ pc = "xml" /\ payload = Document(origin)

OpeningKdb ==
    /\ origin.format = "KDB"
    /\ \/ pc = "KDB"
       \/ pc = PaddingName /\ WholeOf(origin, payload)
       \/ pc = FieldsName

IntactPlaces ==
    RightKey => OnHeader \/ Opening4 \/ Opening3 \/ OpeningKdb \/ (pc = "done" /\ OpensWhole)

\* The header does not stop it.
LEMMA OnHeaderStep ==
    ASSUME OpeningInv, IntactHeader, RightKey, OnHeader, Next
    PROVE  \/ OnHeader' \/ Opening4' \/ Opening3' \/ OpeningKdb'
<1> DEFINE l == Len(Layout(origin))
<1>1. FileInv /\ UNCHANGED <<data, op, dbKey, devices, origin>> /\ origin' = origin
  BY CallStays DEF OpeningInv
<1>2. Untouched /\ op = "open"
  BY DEF RightKey
<1>4. l = Len(Layout(origin))
  OBVIOUS
<1>5. CASE pc = "version"
  <2>1. IsVersion /\ data[1][2] = origin.format /\ op # "get_version"
        /\ origin.format \in {"KDB", "KDB3", "KDB4"}
    BY <1>1, <1>2, FormatRead, SavesAre DEF Untouched, IsSave
  <2>2. Dispatch
    BY <1>2, <1>5, <2>1, StepsAt DEF BadVersion, GetVersion, Unsupported
  <2>3. pc' = origin.format
    BY <2>1, <2>2 DEF Dispatch, Proceed
  <2> QED  BY <1>1, <2>1, <2>3, Zenon DEF OnHeader, OpeningKdb
<1>6. CASE pc = "KDB4"
  <2>1. HeaderStage(l) /\ origin.format = "KDB4"
    BY <1>2, <1>6 DEF IntactHeader
  <2> HIDE DEF l
  <2>2. Known(origin) = Kdbx4Fields /\ Needed(origin) = Kdbx4Required
    BY <2>1 DEF Known, Needed
  <2>3. CASE Kdbx4Field
    <3>1. pc' = "KDB4"
      BY <1>6, <2>3 DEF Kdbx4Field, HeaderField
    <3> QED  BY <3>1, Zenon DEF OnHeader
  <2>4. CASE Kdbx4HeaderFails
    BY <1>1, <1>2, <1>4, <2>1, <2>2, <2>4, IntactHeaderStays DEF Kdbx4HeaderFails
  <2>5. CASE Kdbx4HeaderEnds
    <3> DEFINE to == "KDB4 body"
    <3>1. HeaderEnds("KDB4", Kdbx4Required, to) /\ to = "KDB4 body"
      BY <2>5 DEF Kdbx4HeaderEnds
    <3> HIDE DEF to
    <3>2. pc' = to
      BY <1>1, <1>2, <1>4, <2>1, <2>2, <3>1, IntactHeaderEnds
    <3> QED  BY <3>1, <3>2, Zenon DEF OnHeader
  <2> QED  BY <1>6, <2>3, <2>4, <2>5, StepsAt
<1>7. CASE pc = "KDB3"
  <2>1. HeaderStage(l) /\ origin.format = "KDB3"
    BY <1>2, <1>7 DEF IntactHeader
  <2> HIDE DEF l
  <2>2. Known(origin) = Kdbx3Fields /\ Needed(origin) = Kdbx3Fields
    BY <2>1 DEF Known, Needed
  <2>3. CASE Kdbx3Field
    <3>1. pc' = "KDB3"
      BY <1>7, <2>3 DEF Kdbx3Field, HeaderField
    <3> QED  BY <3>1, Zenon DEF OnHeader
  <2>4. CASE Kdbx3HeaderFails
    BY <1>1, <1>2, <1>4, <2>1, <2>2, <2>4, IntactHeaderStays DEF Kdbx3HeaderFails
  <2>5. CASE Kdbx3HeaderEnds
    <3> DEFINE to == "KDB3 body"
    <3>1. HeaderEnds("KDB3", Kdbx3Fields, to) /\ to = "KDB3 body"
      BY <2>5 DEF Kdbx3HeaderEnds
    <3> HIDE DEF to
    <3>2. pc' = to
      BY <1>1, <1>2, <1>4, <2>1, <2>2, <3>1, IntactHeaderEnds
    <3> QED  BY <3>1, <3>2, Zenon DEF OnHeader
  <2> QED  BY <1>7, <2>3, <2>4, <2>5, StepsAt
<1>8. CASE pc = "KDB4 body"
  <2>1. BodyStage(l) /\ origin.format = "KDB4" /\ BodyPhase("KDB4", Kdbx4Fields, Kdbx4Required)
    BY <1>2, <1>8, Zenon DEF IntactHeader, OpeningInv, Phases
  <2>2. Kdbx4Refused \/ Kdbx4Verified
    BY <1>8, StepsAt
  <2>3. pc' = "blocks" /\ Intact4' /\ IntactBlocks'
    BY <1>1, <2>1, <2>2, IntactBody4
  <2> QED  BY <2>3, Zenon DEF Opening4
<1>9. CASE pc = "KDB3 body"
  <2>1. BodyStage(l) /\ origin.format = "KDB3"
    BY <1>2, <1>9, Zenon DEF IntactHeader
  <2>2. Kdbx3Refused \/ Kdbx3Derive
    BY <1>9, StepsAt
  <2>3. pc' = DecryptName /\ Intact3' /\ pos' = 13
    BY <1>1, <2>1, <2>2, IntactBody3
  <2> QED  BY <2>3, Zenon DEF Opening3
<1> QED  BY <1>5, <1>6, <1>7, <1>8, <1>9, Zenon DEF OnHeader

\* The blocks and the document of a KDBX4 file are read whole.
LEMMA Opening4Step ==
    ASSUME OpeningInv, RightKey, Opening4, Next
    PROVE  Opening4' \/ (pc' = "done" /\ OpensWhole')
<1>1. origin' = origin /\ origin.format = "KDB4"
  BY CallStays DEF Opening4, Intact4
<1>2. CASE pc = "blocks" /\ IntactBlocks
  <2>1. /\ Intact4'
        /\ \/ pc' = "blocks" /\ IntactBlocks'
           \/ pc' = "decrypt" /\ Len(out') = Len(WrittenBlocks(origin'))
    BY <1>2, IntactBlock DEF Opening4
  <2> QED  BY <2>1, Zenon DEF Opening4
<1>3. CASE pc = "decrypt" /\ Len(out) = Len(WrittenBlocks(origin))
  <2>1. Intact4' /\ pc' = "inflate" /\ WholeOf(origin', payload')
    BY <1>3, IntactDecrypt DEF Opening4
  <2> QED  BY <2>1, Zenon DEF Opening4
<1>4. CASE pc = "inflate" /\ WholeOf(origin, payload)
  <2>1. Intact4' /\ pc' = "inner" /\ WholeDocument(origin', payload')
    BY <1>4, IntactInflate DEF Opening4
  <2> QED  BY <2>1, Zenon DEF Opening4
<1>5. CASE pc = "inner" /\ WholeDocument(origin, payload)
  <2>1. Intact4' /\ pc' \in {"inner", "xml"} /\ WholeDocument(origin', payload')
    BY <1>5, IntactInnerStep DEF Opening4
  <2> QED  BY <2>1, Zenon DEF Opening4
<1>6. CASE pc = "xml" /\ WholeDocument(origin, payload)
  <2>1. pc' = "done" /\ result' = Contents(origin)
    BY <1>6, IntactXml4 DEF Opening4
  <2> QED  BY <1>1, <2>1 DEF OpensWhole
<1> QED  BY <1>2, <1>3, <1>4, <1>5, <1>6, Zenon DEF Opening4

\* The steps of a KDBX3 file after its header
LEMMA Steps3 ==
    ASSUME Next
    PROVE  /\ pc = DecryptName => Kdbx3Decrypt
           /\ pc = StartName => Kdbx3Start
           /\ pc = BlocksName => Kdbx3Block \/ Kdbx3BlockFails \/ Kdbx3Inflate
BY StepsAt, Zenon DEF DecryptName, StartName, BlocksName

\* So are the payload and the document of a KDBX3 file.
LEMMA Opening3Step ==
    ASSUME OpeningInv, RightKey, Opening3, Next
    PROVE  Opening3' \/ (pc' = "done" /\ OpensWhole')
<1>1. origin' = origin /\ origin.format = "KDB3" /\ FileInv /\ Intact3
  BY CallStays DEF Opening3, Intact3, OpeningInv
<1>2. CASE pc = DecryptName /\ pos = 13
  <2>1. Intact3' /\ pc' = StartName /\ WholeOf(origin', payload')
    BY <1>1, <1>2, Steps3, IntactDecrypt3
  <2> QED  BY <2>1, Zenon DEF Opening3
<1>3. CASE pc = StartName /\ WholeOf(origin, payload)
  <2>1. Intact3' /\ pc' = BlocksName /\ WholeOf(origin', payload')
    BY <1>1, <1>3, Steps3, IntactStart3
  <2> QED  BY <2>1, Zenon DEF Opening3
<1>4. CASE pc = BlocksName /\ WholeOf(origin, payload)
  <2>1. Blocks3Phase
    BY <1>4, Zenon DEF OpeningInv, Phases, BlocksName
  <2>2. /\ Intact3'
        /\ \/ pc' = BlocksName /\ WholeOf(origin', payload')
           \/ pc' = "xml" /\ payload' = Document(origin')
    BY <1>1, <1>4, <2>1, Steps3, IntactBlocks3
  <2> QED  BY <2>2, Zenon DEF Opening3
<1>5. CASE pc = "xml" /\ payload = Document(origin)
  <2>1. XmlPhase
    BY <1>5, Zenon DEF OpeningInv, Phases
  <2>2. GetXml \/ BadXml \/ ParseXml(OpenedKdf)
    BY <1>5, StepsAt, Zenon
  <2>3. pc' = "done" /\ result' = Contents(origin)
    BY <1>1, <1>5, <2>1, <2>2, IntactXml3
  <2> QED  BY <1>1, <2>3 DEF OpensWhole
<1> QED  BY <1>2, <1>3, <1>4, <1>5, Zenon DEF Opening3

\* The steps of a KDB file after its header
LEMMA StepsKdb ==
    ASSUME Next
    PROVE  /\ pc = "KDB" => KdbRefused \/ KdbDecrypt
           /\ pc = PaddingName => KdbPadding
           /\ pc = FieldsName => pc' = FieldsName \/ KdbEnds
<1>1. /\ pc = "KDB" => KdbRefused \/ KdbDecrypt
      /\ pc = PaddingName => KdbPadding
      /\ pc = FieldsName => KdbStart \/ KdbField \/ KdbEnds
  BY StepsAt, Zenon DEF PaddingName, FieldsName
<1>2. KdbStart \/ KdbField => pc' = pc
  BY DEF KdbStart, KdbField, readerVars, blockVars
<1> QED  BY <1>1, <1>2, Zenon

\* What a KDB file holds is left to its reader of fields.
LEMMA OpeningKdbStep ==
    ASSUME OpeningInv, RightKey, OpeningKdb, Next
    PROVE  OpeningKdb' \/ (pc' = "done" /\ OpensWhole')
<1>1. origin' = origin /\ origin.format = "KDB" /\ FileInv
  BY CallStays DEF OpeningKdb, OpeningInv
<1>2. pos = 2
  BY Zenon DEF OpeningKdb, OpeningInv, Phases, KdbPhase, KdbPaddingPhase, KdbFieldsPhase,
               PaddingName, FieldsName
<1>3. CASE pc = "KDB"
  <2>1. pc' = PaddingName /\ WholeOf(origin', payload')
    BY <1>1, <1>2, <1>3, StepsKdb, IntactKdb
  <2> QED  BY <1>1, <2>1, Zenon DEF OpeningKdb
<1>4. CASE pc = PaddingName /\ WholeOf(origin, payload)
  <2>1. \/ pc' = FieldsName
        \/ pc' = "done" /\ ~ (origin.db.groups + origin.db.entries > 0)
    BY <1>1, <1>2, <1>4, StepsKdb, IntactPadding
  <2>2. CASE pc' = FieldsName
    BY <1>1, <2>2, Zenon DEF OpeningKdb
  <2>3. CASE pc' = "done" /\ ~ (origin.db.groups + origin.db.entries > 0)
    BY <1>1, <2>3 DEF OpensWhole
  <2> QED  BY <2>1, <2>2, <2>3
<1>5. CASE pc = FieldsName
  <2>1. CASE pc' = FieldsName
    BY <1>1, <2>1, Zenon DEF OpeningKdb
  <2>2. CASE KdbEnds
    <3>1. pc' = "done" /\ (result' = Contents(origin) \/ result' = Failure("Kdb"))
      BY <1>1, <1>2, <2>2, IntactFields
    <3> QED  BY <1>1, <3>1 DEF OpensWhole
  <2> QED  BY <1>5, <2>1, <2>2, StepsKdb
<1> QED  BY <1>3, <1>4, <1>5, Zenon DEF OpeningKdb

\* Every step brings the reader on, and nothing stops it.
LEMMA IntactPlacesStep ==
    ASSUME OpeningInv, IntactHeader, IntactPlaces, Next PROVE IntactPlaces'
<1>1. UNCHANGED <<data, op, dbKey, devices, origin>>
  BY CallStays
<1>2. SUFFICES ASSUME RightKey
               PROVE  OnHeader' \/ Opening4' \/ Opening3' \/ OpeningKdb' \/ (pc' = "done" /\ OpensWhole')
  <2>1. RightKey' => RightKey
    BY <1>1 DEF RightKey, Untouched
  <2> QED  BY <1>2, <2>1, Zenon DEF IntactPlaces
<1>3. pc # "done"
  BY StepsAt
<1>4. OnHeader \/ Opening4 \/ Opening3 \/ OpeningKdb
  BY <1>2, <1>3, Zenon DEF IntactPlaces
<1> QED  BY <1>2, <1>4, OnHeaderStep, Opening4Step, Opening3Step, OpeningKdbStep, Zenon

\* Nothing changes.
LEMMA PlacesStutter ==
    ASSUME UNCHANGED vars, IntactPlaces PROVE IntactPlaces'
<1>1. /\ pc' = pc /\ pos' = pos /\ header' = header /\ result' = result /\ data' = data
      /\ dbKey' = dbKey /\ origin' = origin /\ op' = op /\ devices' = devices
      /\ payload' = payload /\ out' = out /\ index' = index /\ masterKey' = masterKey
      /\ inner' = inner
  BY DEF vars, readerVars, blockVars, containerVars
<1>2. RightKey' => RightKey
  BY <1>1 DEF RightKey, Untouched
<1>3. OnHeader => OnHeader'
  BY <1>1, Zenon DEF OnHeader
<1>4. Opening4 => Opening4'
  <2>1. Intact4 => Intact4'
    BY <1>1 DEF Intact4, SeedRead
  <2>2. IntactBlocks => IntactBlocks'
    BY <1>1 DEF IntactBlocks
  <2> QED  BY <1>1, <2>1, <2>2, Zenon DEF Opening4
<1>5. Opening3 => Opening3'
  <2>1. Intact3 => Intact3'
    BY <1>1 DEF Intact3
  <2> QED  BY <1>1, <2>1, Zenon DEF Opening3
<1>6. OpeningKdb => OpeningKdb'
  BY <1>1, Zenon DEF OpeningKdb
<1>7. OpensWhole => OpensWhole'
  BY <1>1 DEF OpensWhole
<1> QED  BY <1>1, <1>2, <1>3, <1>4, <1>5, <1>6, <1>7, Zenon DEF IntactPlaces

\* The key of a save opens its file, whatever its layout, ciphers, blocks and
\* attachments are, and with a key that has the same parts.
THEOREM IntactFilesAreOpened == Spec => []IntactFilesOpen
<1>1. Init => IntactPlaces
  BY Zenon DEF Init, IntactPlaces, OnHeader
<1>2. OpeningInv /\ IntactHeader /\ IntactPlaces /\ [Next]_vars => IntactPlaces'
  BY IntactPlacesStep, PlacesStutter
<1>3. IntactPlaces => IntactFilesOpen
  <2> SUFFICES ASSUME IntactPlaces, pc = "done", op = "open", data = FileOf(origin),
                      Opens(dbKey, origin, devices), Readable(origin)
               PROVE  OpensWhole
    BY Zenon DEF IntactFilesOpen, OpensWhole
  <2>1. RightKey
    BY Zenon DEF RightKey, Untouched
  <2>2. ~ OnHeader /\ ~ Opening4 /\ ~ Opening3 /\ ~ OpeningKdb
    BY Zenon DEF OnHeader, Opening4, Opening3, OpeningKdb, DecryptName, StartName, BlocksName,
                 PaddingName, FieldsName
  <2> QED  BY <2>1, <2>2, Zenon DEF IntactPlaces
<1> QED  BY <1>1, <1>2, <1>3, OpeningInvariant, HeadersRead, PTL DEF Spec

=============================================================================
