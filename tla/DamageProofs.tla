---------------------------- MODULE DamageProofs ----------------------------
(***************************************************************************)
(* What Damage promises, proved for any saves, keys and devices: whatever  *)
(* has become of a file.                                                   *)
(***************************************************************************)
EXTENDS Damage, OpeningProofs

----------------------------------------------------------------------------
(* The two saves whose cells a file may be made of.                        *)

Makers(s) == {s, Earlier(s)}

\* After its challenge, a key is an error only if it has neither password nor
\* keyfile.
LEMMA KeyErrorOf ==
    ASSUME NEW k, IsKey(k), NEW seed
    PROVE  /\ KeyError(Challenged(k, seed)) =
                IF k.password = Missing /\ k.keyfile = Missing THEN "EmptyKey" ELSE "none"
           /\ k.response = Missing
<1>1. k.response = Missing
  <2>1. k = [password |-> k.password, keyfile |-> k.keyfile, challenge |-> k.challenge,
             response |-> Missing]
    BY DEF IsKey
  <2> QED  BY <2>1
<1> DEFINE c == Challenged(k, seed)
<1>2. /\ c.password = k.password /\ c.keyfile = k.keyfile /\ c.challenge = k.challenge
      /\ k.challenge # Missing => c.response # Missing
  BY ChallengedIs
<1> HIDE DEF c
<1>3. KeyError(c) = IF k.password = Missing /\ k.keyfile = Missing THEN "EmptyKey" ELSE "none"
  BY <1>2 DEF KeyError
<1> QED  BY <1>1, <1>3 DEF c

\* The earlier save differs in its number and its database.
LEMMA EarlierIs ==
    ASSUME NEW s, IsSave(s), NEW e, e = Earlier(s)
    PROVE  /\ e.n = s.n + 100 /\ e.format = s.format /\ e.minor = s.minor /\ e.outer = s.outer
           /\ e.compression = s.compression /\ e.inner = s.inner /\ e.kdf = s.kdf
           /\ e.key = s.key /\ e.attachments = s.attachments /\ e.public = s.public
           /\ e.blocks = s.blocks /\ e.layout = s.layout
           /\ e.db = (IF s.format = "KDB" THEN NoFields ELSE "earlier")
           /\ IsSave(e)
<1>1. s = [n |-> s.n, format |-> s.format, minor |-> s.minor, outer |-> s.outer,
           compression |-> s.compression, inner |-> s.inner, kdf |-> s.kdf, key |-> s.key,
           db |-> s.db, attachments |-> s.attachments, public |-> s.public,
           blocks |-> s.blocks, layout |-> s.layout]
  BY DEF IsSave
<1> DEFINE d == IF s.format = "KDB" THEN NoFields ELSE "earlier"
<1> HIDE DEF d
<1>2. e = [s EXCEPT !.n = s.n + 100, !.db = d]
  BY DEF Earlier, d
<1>3. /\ e.n = s.n + 100 /\ e.format = s.format /\ e.minor = s.minor /\ e.outer = s.outer
      /\ e.compression = s.compression /\ e.inner = s.inner /\ e.kdf = s.kdf
      /\ e.key = s.key /\ e.attachments = s.attachments /\ e.public = s.public
      /\ e.blocks = s.blocks /\ e.layout = s.layout /\ e.db = d
  BY <1>1, <1>2
<1>4. e = [n |-> e.n, format |-> e.format, minor |-> e.minor, outer |-> e.outer,
           compression |-> e.compression, inner |-> e.inner, kdf |-> e.kdf, key |-> e.key,
           db |-> e.db, attachments |-> e.attachments, public |-> e.public,
           blocks |-> e.blocks, layout |-> e.layout]
  BY <1>1, <1>2
<1>5. IsKey(s.key) /\ s.n \in Nat
  BY DEF IsSave
<1>6. KeyError(SaveKey(e)) = KeyError(SaveKey(s))
  BY <1>3, <1>5, KeyErrorOf DEF SaveKey
<1>7. e.n \in Nat
  BY <1>3, <1>5
<1>8. s.format = "KDB" => e.db \in [groups : Nat, entries : Nat, fields : Nat]
  BY <1>3 DEF d, NoFields
<1> HIDE DEF d
<1>9. /\ e.kdf = <<e.kdf[1], e.kdf[2]>>
      /\ e.layout \in Seq(Fields \cup {"comment"})
      /\ e.attachments \in Seq(Range(e.attachments))
      /\ AtMostOne(e.public) /\ e.public \notin {Some(Damaged), Some(Short)}
      /\ "public" \in Range(e.layout) <=> e.public # Missing
  BY <1>3 DEF IsSave
<1>10. /\ e.blocks \in Nat /\ IsKey(e.key)
       /\ e.outer \in OuterCiphers /\ e.compression \in Compressions
       /\ e.inner \in InnerCiphers \cup {"short"}
  BY <1>3 DEF IsSave
<1>11. \/ e.format = "KDB4" /\ KeyError(SaveKey(e)) = "none"
       \/ /\ e.format \in {"KDB", "KDB3"} /\ KeyError(e.key) = "none"
          /\ e.kdf[1] = "Aes" /\ e.attachments = <<>> /\ e.public = Missing
  BY <1>3, <1>6 DEF IsSave
<1>12. e.format = "KDB" =>
          /\ e.outer \in {"AES256", "Twofish"} /\ e.compression = "None" /\ e.inner = "Plain"
          /\ ~ IsOddKey(e.key)
  BY <1>3 DEF IsSave
<1>13. IsSave(e)
  BY <1>3, <1>4, <1>7, <1>8, <1>9, <1>10, <1>11, <1>12 DEF IsSave
<1> QED  BY <1>3, <1>13 DEF d

\* They have different random numbers, and so different keys.
LEMMA MakersAre ==
    ASSUME NEW s, IsSave(s)
    PROVE  /\ \A u \in Makers(s) : /\ IsSave(u) /\ u.format = s.format /\ u.key = s.key
                                   /\ u.layout = s.layout /\ u.n \in Nat
           /\ \A u, v \in Makers(s) : u.n = v.n => u = v
<1> DEFINE e == Earlier(s)
<1>1. IsSave(e) /\ e.format = s.format /\ e.key = s.key /\ e.layout = s.layout /\ e.n = s.n + 100
  BY EarlierIs
<1>2. s.n \in Nat
  BY DEF IsSave
<1>3. Makers(s) = {s, e}
  BY DEF Makers
<1> HIDE DEF e
<1> QED  BY <1>1, <1>2, <1>3

\* The random numbers in a key.
LEMMA MasterTells ==
    ASSUME NEW u, IsSave(u), NEW seed, NEW kdf, NEW kdfSeed, NEW x,
           FileMaster(u) = MasterKey(seed, TransformKey(kdf, kdfSeed, x))
    PROVE  /\ seed = <<"seed", u.n>> /\ kdfSeed = KdfSeed(u)
           /\ u.format = "KDB4" => kdf = u.kdf /\ x = CompositeKey(SaveKey(u))
           /\ u.format = "KDB3" => kdf = <<"Aes", u.kdf[2]>> /\ x = CompositeKey(u.key)
           /\ u.format = "KDB" => kdf = <<"Aes", u.kdf[2]>> /\ x = KdbComposite(u.key)
<1>0. u.format \in {"KDB", "KDB3", "KDB4"}
  BY DEF IsSave
<1>1. CASE u.format = "KDB4"
  <2>1. Sha256(<<seed, TransformKey(kdf, kdfSeed, x)>>) =
        Sha256(<<FieldValue(u, "seed"), TransformKey(u.kdf, KdfSeed(u), CompositeKey(SaveKey(u)))>>)
    BY <1>1 DEF FileMaster, SaveMaster, MasterOf, MasterKey
  <2>2. seed = FieldValue(u, "seed")
        /\ TransformKey(kdf, kdfSeed, x) = TransformKey(u.kdf, KdfSeed(u), CompositeKey(SaveKey(u)))
    BY <2>1 DEF Sha256
  <2>3. kdf = u.kdf /\ kdfSeed = KdfSeed(u) /\ x = CompositeKey(SaveKey(u))
    BY <2>2 DEF TransformKey
  <2> QED  BY <1>1, <2>2, <2>3, FieldValues
<1>2. CASE u.format = "KDB3"
  <2>1. Sha256(<<seed, TransformKey(kdf, kdfSeed, x)>>) =
        Sha256(<<FieldValue(u, "seed"),
                 TransformKey(<<"Aes", u.kdf[2]>>, KdfSeed(u), CompositeKey(u.key))>>)
    BY <1>2 DEF FileMaster, Kdbx3Master, MasterKey
  <2> DEFINE k == <<"Aes", u.kdf[2]>>
  <2> HIDE DEF k
  <2>2. seed = FieldValue(u, "seed")
        /\ TransformKey(kdf, kdfSeed, x) = TransformKey(k, KdfSeed(u), CompositeKey(u.key))
    BY <2>1 DEF Sha256, k
  <2>3. kdf = k /\ kdfSeed = KdfSeed(u) /\ x = CompositeKey(u.key)
    BY <2>2 DEF TransformKey
  <2> QED  BY <1>2, <2>2, <2>3, FieldValues DEF k
<1>3. CASE u.format = "KDB"
  <2> DEFINE h == KdbHeader(u)
             k == <<"Aes", h.rounds>>
  <2>0. h.seed = FieldValue(u, "seed") /\ h.transformSeed = KdfSeed(u) /\ h.rounds = u.kdf[2]
    BY DEF KdbHeader
  <2>1. Sha256(<<seed, TransformKey(kdf, kdfSeed, x)>>) =
        Sha256(<<h.seed, TransformKey(k, h.transformSeed, KdbComposite(u.key))>>)
    BY <1>3 DEF FileMaster, KdbMaster, MasterKey
  <2> HIDE DEF k, h
  <2>2. seed = h.seed
        /\ TransformKey(kdf, kdfSeed, x) = TransformKey(k, h.transformSeed, KdbComposite(u.key))
    BY <2>1 DEF Sha256
  <2>3. kdf = k /\ kdfSeed = h.transformSeed /\ x = KdbComposite(u.key)
    BY <2>2 DEF TransformKey
  <2> QED  BY <1>3, <2>0, <2>2, <2>3, FieldValues DEF k
<1> QED  BY <1>0, <1>1, <1>2, <1>3

\* Two saves of a file have two master keys: their seeds differ.
LEMMA MastersDiffer ==
    ASSUME NEW s, IsSave(s)
    PROVE  \A u, v \in Makers(s) : FileMaster(u) = FileMaster(v) => u = v
<1> SUFFICES ASSUME NEW u \in Makers(s), NEW v \in Makers(s), FileMaster(u) = FileMaster(v)
             PROVE  u.n = v.n
  BY MakersAre
<1>1. IsSave(u) /\ IsSave(v) /\ u.format \in {"KDB", "KDB3", "KDB4"}
  BY MakersAre DEF IsSave
<1>2. \E kdf, kdfSeed, x : FileMaster(u) = MasterKey(FieldValue(u, "seed"), TransformKey(kdf, kdfSeed, x))
  <2>1. CASE u.format = "KDB4"
    BY <2>1 DEF FileMaster, SaveMaster, MasterOf
  <2>2. CASE u.format = "KDB3"
    BY <2>2 DEF FileMaster, Kdbx3Master
  <2>3. CASE u.format = "KDB"
    <3>1. KdbHeader(u).seed = FieldValue(u, "seed")
      BY DEF KdbHeader
    <3> QED  BY <2>3, <3>1 DEF FileMaster, KdbMaster
  <2> QED  BY <1>1, <2>1, <2>2, <2>3
<1>3. PICK kdf, kdfSeed, x : FileMaster(u) = MasterKey(FieldValue(u, "seed"), TransformKey(kdf, kdfSeed, x))
  BY <1>2
<1>4. FieldValue(u, "seed") = <<"seed", v.n>>
  BY <1>1, <1>3, MasterTells
<1>5. <<"seed", u.n>> = <<"seed", v.n>>
  BY <1>4, FieldValues
<1> QED  BY <1>5

----------------------------------------------------------------------------
(* What may be found where a file was written.                             *)

\* What the name of a cell says of it: the reader of a file of s can meet no other
\* random numbers, macs and ciphertexts than those of the two saves.
Numbered == {"seed", "iv", "stream start"}

GenuineField(s, c) ==
    c[1] = "field" /\ c[2] \in Numbered =>
        c[3] = Damaged \/ \E u \in Makers(s) : c[3] = FieldValue(u, c[2])

GenuineMac(s, c) ==
    c[1] = "hmac" =>
        c[2] = Damaged \/ \E u \in Makers(s) : u.format = "KDB4" /\ c = HmacCell(u)

GenuineHead(s, c) ==
    c[1] = "block" =>
        \/ c[2] = Damaged
        \/ \E u \in Makers(s) : \E i \in 0 .. Len(WrittenBlocks(u)) :
              /\ u.format = "KDB4"
              /\ c[2] = BlockMac(i, SaveHmacKey(u), BlockNo(WrittenBlocks(u), i))

GenuineHeader(s, c) ==
    c[1] = "kdb header" =>
        \E u \in Makers(s) :
            /\ u.format = "KDB" /\ c[2].fields = u.db /\ c[2].rounds = u.kdf[2]
            /\ c[2].transformSeed = KdfSeed(u)
            /\ c[2].hash = Damaged \/ c[2].hash = Sha256(KdbPayload(u))
            /\ c[2].iv = Damaged \/ c[2].iv = FieldValue(u, "iv")

GenuineSecret(s, c) ==
    c[1] \in {"cbc", "stream"} => c[2] = Damaged \/ \E u \in Makers(s) : c \in Range(Secret(u))

Genuine(s, c) ==
    /\ GenuineField(s, c) /\ GenuineMac(s, c) /\ GenuineHead(s, c)
    /\ GenuineHeader(s, c) /\ GenuineSecret(s, c)

\* The cells that a save writes are genuine,
LEMMA FileCellsGenuine ==
    ASSUME NEW s, IsSave(s), NEW u \in Makers(s), NEW c \in FileCells(u)
    PROVE  Genuine(s, c)
<1>0. IsSave(u)
  BY MakersAre
<1>1. /\ c[1] = "field" => c \in FieldCells(u)
      /\ c[1] = "hmac" => c = HmacCell(u) /\ u.format = "KDB4"
      /\ c[1] = "block" => c \in HeadCells(u) /\ u.format = "KDB4"
      /\ c[1] = "kdb header" => c = <<"kdb header", KdbHeader(u)>> /\ u.format = "KDB"
      /\ c[1] \in {"cbc", "stream"} => c \in Range(Secret(u))
  BY <1>0, CellKinds
<1>2. GenuineField(s, c)
  <2> SUFFICES ASSUME c[1] = "field", c[2] \in Numbered PROVE c[3] = FieldValue(u, c[2])
    BY DEF GenuineField
  <2>1. PICK f \in FieldsOf(u) : c = <<"field", f, FieldValue(u, f)>>
    BY <1>1 DEF FieldCells
  <2> DEFINE v == FieldValue(u, f)
  <2> HIDE DEF v
  <2>2. c = <<"field", f, v>>
    BY <2>1 DEF v
  <2>3. c[2] = f /\ c[3] = v
    BY <2>2
  <2> QED  BY <2>3 DEF v
<1>3. GenuineMac(s, c)
  BY <1>1 DEF GenuineMac
<1>4. GenuineHead(s, c)
  <2> SUFFICES ASSUME c[1] = "block"
               PROVE  \E i \in 0 .. Len(WrittenBlocks(u)) :
                         c[2] = BlockMac(i, SaveHmacKey(u), BlockNo(WrittenBlocks(u), i))
    BY <1>1 DEF GenuineHead
  <2>1. PICK i \in 0 .. Len(WrittenBlocks(u)) :
          c = BlockHead(i, SaveHmacKey(u), BlockNo(WrittenBlocks(u), i))
    BY <1>1 DEF HeadCells
  <2>2. c[2] = BlockMac(i, SaveHmacKey(u), BlockNo(WrittenBlocks(u), i))
    <3> DEFINE m == BlockMac(i, SaveHmacKey(u), BlockNo(WrittenBlocks(u), i))
               l == Len(BlockNo(WrittenBlocks(u), i))
    <3>1. c = <<"block", m, l>>
      BY <2>1 DEF BlockHead
    <3> HIDE DEF m, l
    <3>2. c[2] = m
      BY <3>1
    <3> QED  BY <3>2 DEF m
  <2> QED  BY <2>2
<1>5. GenuineHeader(s, c)
  <2> SUFFICES ASSUME c[1] = "kdb header"
               PROVE  /\ c[2].fields = u.db /\ c[2].rounds = u.kdf[2]
                      /\ c[2].transformSeed = KdfSeed(u)
                      /\ c[2].hash = Sha256(KdbPayload(u))
                      /\ c[2].iv = FieldValue(u, "iv")
    BY <1>1 DEF GenuineHeader
  <2> DEFINE h == KdbHeader(u)
  <2>1. h.fields = u.db /\ h.rounds = u.kdf[2] /\ h.transformSeed = KdfSeed(u)
        /\ h.hash = Sha256(KdbPayload(u)) /\ h.iv = FieldValue(u, "iv")
    BY DEF KdbHeader
  <2>2. c = <<"kdb header", h>>
    BY <1>1
  <2> HIDE DEF h
  <2>3. c[2] = h
    BY <2>2
  <2> QED  BY <2>1, <2>3
<1>6. GenuineSecret(s, c)
  BY <1>1 DEF GenuineSecret
<1> QED  BY <1>2, <1>3, <1>4, <1>5, <1>6 DEF Genuine

\* Another value in a cell leaves it genuine, or is none that a check passes.
LEMMA OtherValuesGenuine ==
    ASSUME NEW s, IsSave(s), NEW c \in FileCells(s), NEW d \in OtherValues(c)
    PROVE  Genuine(s, d)
<1>0. Genuine(s, c) /\ c[1] \in {"version", "end", "field", "sha256", "hmac", "block",
                                 "kdb header", "cbc", "stream"}
  <2>1. s \in Makers(s)
    BY DEF Makers
  <2> QED  BY <2>1, FileCellsGenuine, CellKinds
<1>1. CASE c[1] = "field"
  <2>0. d \in OtherFields(c[2], c[3])
    BY <1>1 DEF OtherValues
  <2>1. d[1] = "field" /\ (d[2] \in Numbered => d[3] = Damaged)
    <3>1. CASE c[2] = "cipher"
      <4>1. \E v \in OuterCiphers \cup {"damaged"} : d = <<"field", c[2], <<v>>>>
        <5>1. d \in {<<"field", c[2], <<v>>>> : v \in OuterCiphers \cup {"damaged"}}
          BY <2>0, <3>1 DEF OtherFields
        <5> QED  BY <5>1
      <4>2. PICK x : d = <<"field", c[2], x>>
        BY <4>1
      <4> QED  BY <3>1, <4>2 DEF Numbered
    <3>2. CASE c[2] = "compression"
      <4>1. \E v \in Compressions \cup {"damaged", "short"} : d = <<"field", c[2], <<v>>>>
        <5>1. d \in {<<"field", c[2], <<v>>>> : v \in Compressions \cup {"damaged", "short"}}
          BY <2>0, <3>2 DEF OtherFields
        <5> QED  BY <5>1
      <4>2. PICK x : d = <<"field", c[2], x>>
        BY <4>1
      <4> QED  BY <3>2, <4>2 DEF Numbered
    <3>3. CASE c[2] = "inner cipher"
      <4>1. \E v \in InnerCiphers \cup {"damaged", "short"} : d = <<"field", c[2], <<v>>>>
        <5>1. d \in {<<"field", c[2], <<v>>>> : v \in InnerCiphers \cup {"damaged", "short"}}
          BY <2>0, <3>3 DEF OtherFields
        <5> QED  BY <5>1
      <4>2. PICK x : d = <<"field", c[2], x>>
        BY <4>1
      <4> QED  BY <3>3, <4>2 DEF Numbered
    <3>4. CASE c[2] = "rounds"
      <4>1. d \in {<<"field", c[2], <<"rounds", 0>>>>, <<"field", c[2], Short>>}
        BY <2>0, <3>4 DEF OtherFields
      <4>2. PICK x : d = <<"field", c[2], x>>
        BY <4>1
      <4> QED  BY <3>4, <4>2 DEF Numbered
    <3>5. CASE c[2] \in {"kdf", "public"}
      <4>1. d \in {<<"field", c[2], Damaged>>, <<"field", c[2], Short>>, <<"field", "unknown", c[3]>>}
        BY <2>0, <3>5 DEF OtherFields
      <4> DEFINE x == Damaged
                 y == Short
      <4> HIDE DEF x, y
      <4>2. d = <<"field", c[2], x>> \/ d = <<"field", c[2], y>> \/ d = <<"field", "unknown", c[3]>>
        BY <4>1 DEF x, y
      <4>3. d[1] = "field" /\ (d[2] = c[2] \/ d[2] = "unknown")
        BY <4>2
      <4> QED  BY <3>5, <4>3 DEF Numbered
    <3>6. CASE c[2] \notin {"cipher", "compression", "inner cipher", "rounds", "kdf", "public"}
      <4>1. d \in {<<"field", c[2], Damaged>>, <<"field", "unknown", c[3]>>}
        BY <2>0, <3>6 DEF OtherFields
      <4> DEFINE x == Damaged
      <4> HIDE DEF x
      <4>2. d = <<"field", c[2], x>> \/ d = <<"field", "unknown", c[3]>>
        BY <4>1 DEF x
      <4>3. d[1] = "field" /\ (d[2] = "unknown" \/ d[3] = x)
        BY <4>2
      <4> QED  BY <4>3 DEF Numbered, x
    <3> QED  BY <3>1, <3>2, <3>3, <3>4, <3>5, <3>6
  <2> QED  BY <2>1 DEF Genuine, GenuineField, GenuineMac, GenuineHead, GenuineHeader, GenuineSecret
<1>2. CASE c[1] = "version"
  <2>1. \/ \E v \in Formats \cup {"unknown"} : d = <<"version", v, c[3]>>
        \/ d = <<c[1], c[2], 0>>
    BY <1>2 DEF OtherValues
  <2>2. d[1] = "version"
    BY <1>2, <2>1
  <2> QED  BY <2>2 DEF Genuine, GenuineField, GenuineMac, GenuineHead, GenuineHeader, GenuineSecret
<1>3. CASE c[1] = "block"
  <2>1. \/ \E n \in 0 .. 3 : d = <<"block", c[2], n>>
        \/ d = <<"block", Damaged, c[3]>>
    BY <1>3 DEF OtherValues
  <2> DEFINE x == Damaged
  <2> HIDE DEF x
  <2>2. (\E n : d = <<"block", c[2], n>>) \/ d = <<"block", x, c[3]>>
    BY <2>1 DEF x
  <2>3. d[1] = "block" /\ (d[2] = c[2] \/ d[2] = x)
    BY <2>2
  <2>4. GenuineHead(s, d)
    BY <1>0, <1>3, <2>3 DEF Genuine, GenuineHead, x
  <2> QED  BY <2>3, <2>4 DEF Genuine, GenuineField, GenuineMac, GenuineHeader, GenuineSecret
<1>4. CASE c[1] = "kdb header"
  <2> DEFINE x == Damaged
             h == KdbHeader(s)
  <2>1. c = <<"kdb header", KdbHeader(s)>> /\ s.format = "KDB"
    BY <1>4, CellKinds
  <2>2. c[2] = h
    BY <2>1
  <2>3. h = [outer |-> h.outer, seed |-> h.seed, iv |-> h.iv, fields |-> h.fields, hash |-> h.hash,
             transformSeed |-> h.transformSeed, rounds |-> h.rounds]
        /\ h.fields = s.db /\ h.rounds = s.kdf[2] /\ h.transformSeed = KdfSeed(s)
        /\ h.hash = Sha256(KdbPayload(s)) /\ h.iv = FieldValue(s, "iv")
    BY DEF KdbHeader
  <2>4. \/ d \in {<<c[1], [c[2] EXCEPT !.seed = Damaged]>>, <<c[1], [c[2] EXCEPT !.iv = Damaged]>>,
                  <<c[1], [c[2] EXCEPT !.hash = Damaged]>>}
        \/ \E v \in {"AES256", "Twofish", "damaged"} : d = <<c[1], [c[2] EXCEPT !.outer = v]>>
    BY <1>4 DEF OtherValues
  <2> HIDE DEF x, h
  <2>5. \/ d = <<c[1], [h EXCEPT !.seed = x]>> \/ d = <<c[1], [h EXCEPT !.iv = x]>>
        \/ d = <<c[1], [h EXCEPT !.hash = x]>> \/ \E v : d = <<c[1], [h EXCEPT !.outer = v]>>
    BY <2>2, <2>4 DEF x
  <2>6. /\ d[1] = "kdb header" /\ d[2].fields = h.fields /\ d[2].rounds = h.rounds
        /\ d[2].transformSeed = h.transformSeed
        /\ d[2].hash = x \/ d[2].hash = h.hash
        /\ d[2].iv = x \/ d[2].iv = h.iv
    <3>1. CASE d = <<c[1], [h EXCEPT !.seed = x]>>
      <4>1. d[1] = c[1] /\ d[2] = [h EXCEPT !.seed = x]
        BY <3>1
      <4> QED  BY <1>4, <2>3, <4>1
    <3>2. CASE d = <<c[1], [h EXCEPT !.iv = x]>>
      <4>1. d[1] = c[1] /\ d[2] = [h EXCEPT !.iv = x]
        BY <3>2
      <4> QED  BY <1>4, <2>3, <4>1
    <3>3. CASE d = <<c[1], [h EXCEPT !.hash = x]>>
      <4>1. d[1] = c[1] /\ d[2] = [h EXCEPT !.hash = x]
        BY <3>3
      <4> QED  BY <1>4, <2>3, <4>1
    <3>4. CASE \E v : d = <<c[1], [h EXCEPT !.outer = v]>>
      <4>0. PICK v : d = <<c[1], [h EXCEPT !.outer = v]>>
        BY <3>4
      <4>1. d[1] = c[1] /\ d[2] = [h EXCEPT !.outer = v]
        BY <4>0
      <4> QED  BY <1>4, <2>3, <4>1
    <3> QED  BY <2>5, <3>1, <3>2, <3>3, <3>4
  <2>7. GenuineHeader(s, d)
    <3>1. s \in Makers(s)
      BY DEF Makers
    <3> QED  BY <2>1, <2>3, <2>6, <3>1 DEF GenuineHeader, x
  <2> QED  BY <2>6, <2>7 DEF Genuine, GenuineField, GenuineMac, GenuineHead, GenuineSecret
<1>5. CASE c[1] \in {"end", "sha256", "hmac", "cbc", "stream"}
  <2> DEFINE x == Damaged
  <2>1. d \in {<<c[1], Damaged, Damaged, Damaged>>}
    BY <1>5 DEF OtherValues
  <2> HIDE DEF x
  <2>2. d = <<c[1], x, x, x>>
    BY <2>1 DEF x
  <2>3. d[1] = c[1] /\ d[2] = x
    BY <2>2
  <2> QED  BY <1>5, <2>3 DEF Genuine, GenuineField, GenuineMac, GenuineHead, GenuineHeader,
              GenuineSecret, x
<1> QED  BY <1>0, <1>1, <1>2, <1>3, <1>4, <1>5

----------------------------------------------------------------------------
(* Where the parts of a KDBX4 file are.                                    *)

HeaderLaid(s, H, n) ==
    /\ IsSeq(H) /\ n \in Nat /\ Len(H) = n + 2
    /\ H[1] = VersionCell(s) /\ H[n + 2] = <<"end">>
    /\ \A i \in 1 .. n : H[i + 1] = <<"field", s.layout[i], FieldValue(s, s.layout[i])>>

\* The cells of the outer header of a KDBX4 file.
LEMMA OuterHeaderIs ==
    ASSUME NEW s, IsSave(s), NEW H, H = OuterHeader(s), NEW n, n = Len(s.layout)
    PROVE  HeaderLaid(s, H, n)
<1> DEFINE g == [i \in DOMAIN s.layout |-> <<"field", s.layout[i], FieldValue(s, s.layout[i])>>]
           v == <<VersionCell(s)>>
           e == <<<<"end">>>>
<1>1. n \in Nat /\ DOMAIN s.layout = 1 .. n
  BY DEF IsSave
<1>2. g = [i \in 1 .. n |-> g[i]]
  BY <1>1
<1>3. \A i \in 1 .. n : g[i] = <<"field", s.layout[i], FieldValue(s, s.layout[i])>>
  BY <1>1
<1>4. H = Joined(Joined(v, g), e)
  BY DEF OuterHeader, VersionCell, Joined
<1>5. IsSeq(v) /\ Len(v) = 1 /\ v[1] = VersionCell(s)
      /\ IsSeq(e) /\ Len(e) = 1 /\ e[1] = <<"end">>
  BY TuplesAreSeqs
<1> HIDE DEF g, v, e
<1>6. IsSeq(g) /\ Len(g) = n
  BY <1>1, <1>2, FunctionIsSeq
<1> DEFINE w == Joined(v, g)
<1>7. IsSeq(w) /\ Len(w) = 1 + n /\ w[1] = v[1] /\ \A i \in 1 .. n : w[1 + i] = g[i]
  <2> DEFINE a == Len(v)
  <2>1. /\ IsSeq(w) /\ Len(w) = a + n
        /\ \A i \in 1 .. a : w[i] = v[i]
        /\ \A i \in 1 .. n : w[a + i] = g[i]
    <3>1. a = Len(v) /\ n = Len(g) /\ w = Joined(v, g)
      BY <1>6
    <3> HIDE DEF a, w
    <3>2. JoinsTo(v, g, w, a, n)
      BY <1>5, <1>6, <3>1, JoinedAt
    <3> QED  BY <3>2 DEF JoinsTo
  <2>2. a = 1 /\ 1 \in 1 .. a
    BY <1>5
  <2> HIDE DEF w, a
  <2> QED  BY <1>1, <2>1, <2>2
<1> HIDE DEF w
<1> DEFINE m == Len(w)
<1>8. /\ IsSeq(H) /\ Len(H) = m + Len(e)
      /\ \A i \in 1 .. m : H[i] = w[i]
      /\ \A i \in 1 .. Len(e) : H[m + i] = e[i]
  <2> DEFINE l == Len(e)
  <2>1. m = Len(w) /\ l = Len(e) /\ H = Joined(w, e)
    BY <1>4 DEF w
  <2> HIDE DEF m, l
  <2>2. /\ IsSeq(H) /\ Len(H) = m + l
        /\ \A i \in 1 .. m : H[i] = w[i]
        /\ \A i \in 1 .. l : H[m + i] = e[i]
    <3>1. JoinsTo(w, e, H, m, l)
      BY <1>5, <1>7, <2>1, JoinedAt
    <3> QED  BY <3>1 DEF JoinsTo
  <2> QED  BY <2>2 DEF l
<1>9. m = n + 1
  BY <1>1, <1>7
<1> HIDE DEF m
<1>10. H[1] = w[1] /\ H[n + 2] = e[1] /\ \A i \in 1 .. n : H[i + 1] = g[i]
  <2>1. H[m + 1] = e[1] /\ m + 1 = n + 2 /\ 1 \in 1 .. m
    BY <1>1, <1>5, <1>8, <1>9
  <2>2. ASSUME NEW i \in 1 .. n PROVE H[i + 1] = g[i]
    <3>1. i + 1 \in 1 .. m /\ i + 1 = 1 + i
      BY <1>1, <1>9
    <3> QED  BY <1>7, <1>8, <3>1
  <2> QED  BY <1>8, <2>1, <2>2
<1>11. Len(H) = n + 2
  BY <1>1, <1>5, <1>8, <1>9
<1> QED  BY <1>1, <1>3, <1>5, <1>7, <1>8, <1>10, <1>11 DEF HeaderLaid

Kdbx4Laid(s, F, H, h, W, n) ==
    /\ IsSeq(F) /\ IsSeq(H) /\ IsSeq(W) /\ h \in Nat /\ n \in Nat
    /\ Len(H) = h /\ Len(W) = n /\ Len(F) = h + 2 + n
    /\ \A i \in 1 .. h : F[i] = H[i]
    /\ F[h + 1] = ShaCell(s) /\ F[h + 2] = HmacCell(s)
    /\ \A i \in 1 .. n : F[h + 2 + i] = W[i]

\* The cells of a KDBX4 file.
LEMMA Kdbx4FileIs ==
    ASSUME NEW s, IsSave(s), s.format = "KDB4", NEW F, F = FileOf(s),
           NEW H, H = OuterHeader(s), NEW W, W = Stream(WrittenBlocks(s), SaveHmacKey(s)),
           NEW h, h = Len(H), NEW n, n = Len(W)
    PROVE  Kdbx4Laid(s, F, H, h, W, n)
<1>1. IsSeq(H) /\ Len(H) \in Nat
  BY HeaderPieces, SeqIs
<1>2. IsSeq(W) /\ Len(W) \in Nat
  <2> DEFINE B == WrittenBlocks(s)
             key == SaveHmacKey(s)
  <2>1. IsSeq(B) /\ \A i \in 1 .. Len(B) : IsSeq(B[i])
    <3>1. IsSeq(B) /\ \A i \in 1 .. Len(B) : B[i] \in Seq(Range(Secret(s)))
      BY BlocksAre
    <3> QED  BY <3>1 DEF IsSeq
  <2>2. W = Stream(B, key)
    OBVIOUS
  <2> HIDE DEF B, key
  <2> QED  BY <2>1, <2>2, StreamIsLaid, SeqIs
<1> DEFINE a == <<ShaCell(s)>>
           b == <<HmacCell(s)>>
           p == Joined(H, a)
           q == Joined(b, W)
<1>3. F = Joined(p, q)
  BY DEF FileOf, Kdbx4File, HeaderPart, BodyPart, ShaCell, HmacCell, Joined
<1>4. IsSeq(a) /\ Len(a) = 1 /\ a[1] = ShaCell(s) /\ IsSeq(b) /\ Len(b) = 1 /\ b[1] = HmacCell(s)
  BY TuplesAreSeqs
<1> HIDE DEF a, b
<1> DEFINE k == Len(a)
           l == Len(b)
<1>5. IsSeq(p) /\ Len(p) = h + k /\ (\A i \in 1 .. h : p[i] = H[i])
      /\ \A i \in 1 .. k : p[h + i] = a[i]
  <2>1. h = Len(H) /\ k = Len(a) /\ p = Joined(H, a)
    OBVIOUS
  <2> HIDE DEF k, p
  <2>2. JoinsTo(H, a, p, h, k)
    BY <1>1, <1>4, <2>1, JoinedAt
  <2> QED  BY <2>2 DEF JoinsTo
<1>6. IsSeq(q) /\ Len(q) = l + n /\ (\A i \in 1 .. l : q[i] = b[i])
      /\ \A i \in 1 .. n : q[l + i] = W[i]
  <2>1. n = Len(W) /\ l = Len(b) /\ q = Joined(b, W)
    OBVIOUS
  <2> HIDE DEF l, q
  <2>2. JoinsTo(b, W, q, l, n)
    BY <1>2, <1>4, <2>1, JoinedAt
  <2> QED  BY <2>2 DEF JoinsTo
<1> HIDE DEF p, q
<1> DEFINE m == Len(p)
           o == Len(q)
<1>7. /\ IsSeq(F) /\ Len(F) = m + o /\ (\A i \in 1 .. m : F[i] = p[i])
      /\ \A i \in 1 .. o : F[m + i] = q[i]
  <2>1. m = Len(p) /\ o = Len(q)
    OBVIOUS
  <2> HIDE DEF m, o
  <2>2. JoinsTo(p, q, F, m, o)
    BY <1>3, <1>5, <1>6, <2>1, JoinedAt
  <2> QED  BY <2>2 DEF JoinsTo
<1>8. h \in Nat /\ n \in Nat /\ m = h + 1 /\ o = 1 + n /\ k = 1 /\ l = 1
  BY <1>1, <1>2, <1>4, <1>5, <1>6
<1> HIDE DEF m, o, k, l
<1>9. Len(F) = h + 2 + n /\ \A i \in 1 .. h : F[i] = H[i]
  BY <1>5, <1>7, <1>8
<1>10. F[h + 1] = a[1]
  BY <1>5, <1>7, <1>8
<1>11. F[h + 2] = b[1]
  <2>1. m + 1 = h + 2 /\ 1 \in 1 .. o
    BY <1>8
  <2> QED  BY <1>6, <1>7, <1>8, <2>1
<1>12. ASSUME NEW i \in 1 .. n PROVE F[h + 2 + i] = W[i]
  <2>1. m + (1 + i) = h + 2 + i /\ 1 + i \in 1 .. o
    BY <1>8
  <2>2. F[m + (1 + i)] = q[1 + i]
    BY <1>7, <2>1
  <2> QED  BY <1>6, <1>8, <2>1, <2>2
<1> QED  BY <1>1, <1>2, <1>4, <1>7, <1>8, <1>9, <1>10, <1>11, <1>12 DEF Kdbx4Laid

----------------------------------------------------------------------------
(* All that Init chooses from.                                             *)

\* Where the seed of the other save is in the file, the header of this one is not.
OneSeed(d, s) ==
    (\E i \in DOMAIN d : d[i] = <<"field", "seed", FieldValue(Earlier(s), "seed")>>) =>
        \E i \in 1 .. Len(OuterHeader(s)) : i > Len(d) \/ d[i] # OuterHeader(s)[i]

IsFile(d, s) ==
    /\ IsSeq(d)
    /\ \A i \in 1 .. Len(d) : Genuine(s, d[i])
    /\ s.format = "KDB4" => OneSeed(d, s)

PlainCells(s) == UNION {FileCells(s), {Torn}}

\* Saves are numbered.
LEMMA SaveNumber == ASSUME NEW s, IsSave(s) PROVE s.n \in Nat
BY DEF IsSave

\* A file of cells of one save has genuine cells, and the seed of that save.
LEMMA PlainSeeds ==
    ASSUME NEW s, IsSave(s), NEW d \in Seq(PlainCells(s))
    PROVE  \A i \in 1 .. Len(d) :
              Genuine(s, d[i]) /\ d[i] # <<"field", "seed", FieldValue(Earlier(s), "seed")>>
<1>1. IsSeq(d) /\ Len(d) \in Nat /\ DOMAIN d = 1 .. Len(d) /\ \A i \in 1 .. Len(d) : d[i] \in PlainCells(s)
  BY DEF IsSeq
<1>2. ASSUME NEW c \in PlainCells(s)
      PROVE  Genuine(s, c) /\ c # <<"field", "seed", FieldValue(Earlier(s), "seed")>>
  <2>1. CASE c = Torn
    BY <2>1 DEF Torn, Genuine, GenuineField, GenuineMac, GenuineHead, GenuineHeader, GenuineSecret
  <2>2. CASE c \in FileCells(s)
    <3>1. Genuine(s, c)
      <4>1. s \in Makers(s)
        BY DEF Makers
      <4> QED  BY <2>2, <4>1, FileCellsGenuine
    <3>2. SUFFICES ASSUME c = <<"field", "seed", FieldValue(Earlier(s), "seed")>> PROVE FALSE
      BY <3>1
    <3> DEFINE e == Earlier(s)
    <3>3. e.n = s.n + 100 /\ s.n \in Nat
      <4>1. e = Earlier(s) /\ s.n \in Nat
        BY SaveNumber
      <4> HIDE DEF e
      <4> QED  BY <4>1, EarlierIs
    <3> HIDE DEF e
    <3>4. FieldValue(e, "seed") = <<"seed", e.n>>
      BY FieldValues
    <3>5. c = <<"field", "seed", <<"seed", e.n>>>>
      BY <3>2, <3>4 DEF e
    <3>6. c \in FieldCells(s)
      BY <2>2, <3>5, CellKinds
    <3>7. PICK f \in FieldsOf(s) : c = <<"field", f, FieldValue(s, f)>>
      BY <3>6 DEF FieldCells
    <3> DEFINE x == FieldValue(s, f)
    <3>8. FieldValue(s, "seed") = <<"seed", s.n>>
      BY FieldValues
    <3>9. f = "seed" /\ x = <<"seed", e.n>>
      <4>1. c = <<"field", f, x>>
        BY <3>7
      <4> HIDE DEF x
      <4> QED  BY <3>5, <4>1
    <3>10. <<"seed", s.n>> = <<"seed", e.n>>
      BY <3>8, <3>9
    <3> QED  BY <3>3, <3>10
  <2> QED  BY <2>1, <2>2 DEF PlainCells
<1> QED  BY <1>1, <1>2

\* Such a file is one the proofs are about,
LEMMA SeqInGenuine ==
    ASSUME NEW s, IsSave(s), NEW d \in Seq(PlainCells(s))
    PROVE  IsFile(d, s)
<1>1. IsSeq(d) /\ DOMAIN d = 1 .. Len(d)
  BY DEF IsSeq
<1> QED  BY <1>1, PlainSeeds DEF IsFile, OneSeed

\* also when cells were lost, repeated or exchanged,
LEMMA MovedCells ==
    ASSUME NEW s, IsSave(s), NEW f, f = FileOf(s),
           NEW d \in UNION {CutOff(f), Misplaced(f), Exchanged(f)}
    PROVE  IsFile(d, s)
<1> DEFINE S == PlainCells(s)
<1>1. f \in Seq(S)
  <2>1. f \in Seq(FileCells(s)) /\ \A c \in FileCells(s) : c \in S
    BY FileIn DEF PlainCells
  <2> HIDE DEF S
  <2> QED  BY <2>1, SeqsOf
<1>2. Len(f) \in Nat
  BY <1>1
<1>3. Torn \in S
  BY DEF PlainCells
<1> HIDE DEF S
<1> SUFFICES d \in Seq(S)
  BY SeqInGenuine DEF S
<1>4. \A m \in Nat \ {0} : \A n \in Int : n <= Len(f) => SubSeq(f, m, n) \in Seq(S)
  BY <1>1, PartIn
<1>5. \A q, r : q \in Seq(S) /\ r \in Seq(S) => q \o r \in Seq(S)
  BY SeqsOf
<1>6. CASE d \in CutOff(f)
  <2>1. PICK k \in 0 .. Len(f) - 1 : d = Append(SubSeq(f, 1, k), Torn)
    BY <1>6 DEF CutOff
  <2> DEFINE q == SubSeq(f, 1, k)
  <2>2. q \in Seq(S)
    <3>1. 1 \in Nat \ {0} /\ k \in Int /\ k <= Len(f)
      BY <1>2
    <3> QED  BY <1>4, <3>1
  <2>3. d = Append(q, Torn)
    BY <2>1
  <2> HIDE DEF q
  <2> QED  BY <1>3, <2>2, <2>3
<1>7. CASE d \in Misplaced(f)
  <2>0. PICK i \in 0 .. Len(f) :
           d \in {SubSeq(f, 1, i) \o SubSeq(f, j, Len(f)) : j \in 1 .. Len(f) + 1}
    BY <1>7 DEF Misplaced
  <2>1. PICK j \in 1 .. Len(f) + 1 : d = SubSeq(f, 1, i) \o SubSeq(f, j, Len(f))
    BY <2>0
  <2>2. 1 \in Nat \ {0} /\ i \in Int /\ i <= Len(f) /\ j \in Nat \ {0} /\ Len(f) \in Int
        /\ Len(f) <= Len(f)
    BY <1>2
  <2>3. SubSeq(f, 1, i) \in Seq(S) /\ SubSeq(f, j, Len(f)) \in Seq(S)
    BY <1>4, <2>2
  <2> QED  BY <1>5, <2>1, <2>3
<1>8. CASE d \in Exchanged(f)
  <2>1. PICK i \in 0 .. Len(f) :
           d \in {SubSeq(f, 1, i) \o SubSeq(f, i + n + 1, i + n + n) \o SubSeq(f, i + 1, i + n)
                    \o SubSeq(f, i + n + n + 1, Len(f)) :
                    n \in {m \in 1 .. 4 : i + 2 * m <= Len(f)}}
    BY <1>8 DEF Exchanged
  <2>2. PICK n \in {m \in 1 .. 4 : i + 2 * m <= Len(f)} :
           d = SubSeq(f, 1, i) \o SubSeq(f, i + n + 1, i + n + n) \o SubSeq(f, i + 1, i + n)
                 \o SubSeq(f, i + n + n + 1, Len(f))
    BY <2>1
  <2>3. /\ 1 \in Nat \ {0} /\ i \in Int /\ i <= Len(f)
        /\ i + n + 1 \in Nat \ {0} /\ i + n + n \in Int /\ i + n + n <= Len(f)
        /\ i + 1 \in Nat \ {0} /\ i + n \in Int /\ i + n <= Len(f)
        /\ i + n + n + 1 \in Nat \ {0} /\ Len(f) \in Int /\ Len(f) <= Len(f)
    BY <1>2
  <2>4. /\ SubSeq(f, 1, i) \in Seq(S) /\ SubSeq(f, i + n + 1, i + n + n) \in Seq(S)
        /\ SubSeq(f, i + 1, i + n) \in Seq(S) /\ SubSeq(f, i + n + n + 1, Len(f)) \in Seq(S)
    BY <1>4, <2>3
  <2> DEFINE a == SubSeq(f, 1, i)
             b == SubSeq(f, i + n + 1, i + n + n)
             c == SubSeq(f, i + 1, i + n)
             e == SubSeq(f, i + n + n + 1, Len(f))
  <2>5. d = a \o b \o c \o e
    BY <2>2
  <2> HIDE DEF a, b, c, e
  <2>6. a \in Seq(S) /\ b \in Seq(S) /\ c \in Seq(S) /\ e \in Seq(S)
    BY <2>4 DEF a, b, c, e
  <2>7. a \o b \in Seq(S)
    BY <1>5, <2>6
  <2>8. a \o b \o c \in Seq(S)
    BY <1>5, <2>6, <2>7
  <2> QED  BY <1>5, <2>5, <2>6, <2>8
<1> QED  BY <1>6, <1>7, <1>8

\* or when a cell was altered,
LEMMA AlteredCells ==
    ASSUME NEW s, IsSave(s), NEW f, f = FileOf(s), NEW d \in Altered(f)
    PROVE  IsFile(d, s)
<1>0. f \in Seq(FileCells(s))
  BY FileIn
<1>1. f \in Seq(PlainCells(s))
  <2>1. \A c \in FileCells(s) : c \in PlainCells(s)
    BY DEF PlainCells
  <2> QED  BY <1>0, <2>1, SeqsOf
<1>2. IsFile(f, s)
  BY <1>1, SeqInGenuine
<1>3. DOMAIN f = 1 .. Len(f) /\ Len(f) \in Nat /\ \A i \in 1 .. Len(f) : f[i] \in FileCells(s)
  BY <1>0
<1>4a. PICK i \in 1 .. Len(f) : \E c \in OtherValues(f[i]) : d = [f EXCEPT ![i] = c]
  BY <1>3 DEF Altered
<1>4. PICK c \in OtherValues(f[i]) : d = [f EXCEPT ![i] = c]
  BY <1>4a
<1>5. IsSeq(d) /\ Len(d) = Len(f) /\ d[i] = c /\ \A j \in 1 .. Len(f) : j # i => d[j] = f[j]
  <2> DEFINE T == UNION {FileCells(s), {c}}
  <2>1. f \in Seq(T)
    <3>1. \A x \in FileCells(s) : x \in T
      OBVIOUS
    <3> HIDE DEF T
    <3> QED  BY <1>0, <3>1, SeqsOf
  <2>2. c \in T
    OBVIOUS
  <2> HIDE DEF T
  <2>3. d \in Seq(T) /\ Len(d) = Len(f)
    BY <1>4, <2>1, <2>2
  <2> QED  BY <1>3, <1>4, <2>3 DEF IsSeq
<1>6. Genuine(s, c)
  BY <1>3, OtherValuesGenuine
<1>7. c # <<"field", "seed", FieldValue(Earlier(s), "seed")>>
  <2> DEFINE v == FieldValue(Earlier(s), "seed")
             x == Damaged
  <2>0. v # x
    <3>1. v = <<"seed", Earlier(s).n>>
      BY FieldValues
    <3> QED  BY <3>1 DEF Damaged
  <2> HIDE DEF v, x
  <2> SUFFICES ASSUME c = <<"field", "seed", v>> PROVE FALSE
    BY DEF v
  <2>1. c[1] = "field" /\ c[2] = "seed" /\ c[3] = v
    OBVIOUS
  <2>2. f[i][1] = "field"
    <3>1. f[i][1] \in {"version", "end", "field", "sha256", "hmac", "block", "kdb header", "cbc",
                       "stream"}
      BY <1>3, CellKinds
    <3>2. c[1] = f[i][1]
      <4> DEFINE y == f[i]
      <4>1. c \in OtherValues(y)
        OBVIOUS
      <4> HIDE DEF y
      <4>2. CASE y[1] = "version"
        <5>1. \/ \E w \in Formats \cup {"unknown"} : c = <<"version", w, y[3]>>
              \/ c = <<y[1], y[2], 0>>
          BY <4>1, <4>2 DEF OtherValues
        <5> QED  BY <4>2, <5>1 DEF y
      <4>3. CASE y[1] = "block"
        <5>1. \/ \E n \in 0 .. 3 : c = <<"block", y[2], n>>
              \/ c = <<"block", Damaged, y[3]>>
          BY <4>1, <4>3 DEF OtherValues
        <5> QED  BY <2>1, <5>1
      <4>4. CASE y[1] = "kdb header"
        <5>1. \E w : c = <<y[1], w>>
          BY <4>1, <4>4 DEF OtherValues
        <5> QED  BY <5>1 DEF y
      <4>5. CASE y[1] \in {"end", "sha256", "hmac", "cbc", "stream"}
        <5>1. \E w : c = <<y[1], w, w, w>>
          BY <4>1, <4>5 DEF OtherValues
        <5> QED  BY <5>1 DEF y
      <4>6. CASE y[1] = "field"
        BY <2>1, <4>6 DEF y
      <4> QED  BY <3>1, <4>2, <4>3, <4>4, <4>5, <4>6 DEF y
    <3> QED  BY <2>1, <3>2
  <2>3. c \in OtherFields(f[i][2], f[i][3])
    BY <2>2 DEF OtherValues
  <2> DEFINE a == f[i][2]
             b == f[i][3]
  <2>4. c \in OtherFields(a, b)
    BY <2>3
  <2> HIDE DEF a, b
  <2>5. CASE a \in {"cipher", "compression", "inner cipher", "rounds"}
    <3>1. \E w : c = <<"field", a, w>>
      BY <2>4, <2>5 DEF OtherFields
    <3> QED  BY <2>1, <2>5, <3>1
  <2>6. CASE a \notin {"cipher", "compression", "inner cipher", "rounds"}
    <3>1. c = <<"field", a, x>> \/ c = <<"field", "unknown", b>>
      BY <2>4, <2>6 DEF OtherFields, x
    <3> QED  BY <2>0, <2>1, <3>1
  <2> QED  BY <2>5, <2>6
<1>8. \A j \in 1 .. Len(d) : Genuine(s, d[j])
  BY <1>2, <1>3, <1>5, <1>6 DEF IsFile
<1>9. \A j \in 1 .. Len(f) : f[j] # <<"field", "seed", FieldValue(Earlier(s), "seed")>>
  BY <1>1, PlainSeeds
<1>10. OneSeed(d, s)
  <2>1. DOMAIN d = 1 .. Len(f)
    BY <1>5, SeqIs
  <2> QED  BY <1>5, <1>7, <1>9, <2>1 DEF OneSeed
<1> QED  BY <1>5, <1>8, <1>10 DEF IsFile

\* or when it was written over another save of the file.
LEMMA OverCells ==
    ASSUME NEW s, IsSave(s), NEW f, f = FileOf(s), NEW e, e = Earlier(s), NEW g, g = FileOf(e),
           NEW d \in Over(f, g)
    PROVE  IsFile(d, s)
<1>0. /\ IsSave(e) /\ e.format = s.format /\ e.layout = s.layout /\ e.n = s.n + 100
      /\ s.n \in Nat /\ s \in Makers(s) /\ e \in Makers(s)
  BY EarlierIs DEF Makers, IsSave
<1>1. f \in Seq(FileCells(s)) /\ g \in Seq(FileCells(e))
  BY <1>0, FileIn
<1>2. IsSeq(f) /\ IsSeq(g) /\ Len(f) \in Nat /\ Len(g) \in Nat
  BY <1>1 DEF IsSeq
<1>3. PICK k \in 0 .. Len(f) : d = SubSeq(f, 1, k) \o SubSeq(g, k + 1, Len(g))
  BY DEF Over
<1> DEFINE p == Part(f, 1, k)
           q == Part(g, k + 1, Len(g))
           a == Len(p)
           b == Len(q)
<1>4. d = Joined(p, q)
  BY <1>3 DEF Joined, Part
<1>5. IsSeq(p) /\ a = k /\ \A i \in 1 .. k : p[i] = f[i]
  BY <1>2, PartOfBeginning
<1>6. IsSeq(q) /\ \A i \in 1 .. b : k + i \in 1 .. Len(g) /\ q[i] = g[k + i]
  <2> DEFINE l == Len(g)
             m == k + 1
  <2>1. m \in Nat \ {0} /\ l \in 0 .. Len(g) /\ q = Part(g, m, l)
    BY <1>2
  <2>2. /\ IsSeq(q) /\ Len(q) = IF m <= l THEN l - m + 1 ELSE 0
        /\ \A i \in 1 .. l - m + 1 : q[i] = g[m + i - 1]
    <3> HIDE DEF q, m, l
    <3> QED  BY <1>2, <2>1, PartIs
  <2> SUFFICES ASSUME NEW i \in 1 .. b PROVE k + i \in 1 .. Len(g) /\ q[i] = g[k + i]
    BY <2>2
  <2> HIDE DEF q
  <2>3. l \in Nat /\ m <= l
    BY <1>2, <2>2
  <2>4. i \in 1 .. l - m + 1 /\ m + i - 1 = k + i
    BY <2>2, <2>3
  <2> QED  BY <2>2, <2>3, <2>4
<1>7. JoinsTo(p, q, d, a, b)
  <2>1. a = Len(p) /\ b = Len(q)
    OBVIOUS
  <2> HIDE DEF p, q, a, b
  <2> QED  BY <1>4, <1>5, <1>6, <2>1, JoinedAt
<1> HIDE DEF p, q, a, b
<1>8. /\ IsSeq(d) /\ b \in Nat /\ Len(d) = k + b
      /\ \A i \in 1 .. k : d[i] = f[i]
      /\ \A i \in 1 .. b : d[k + i] = g[k + i] /\ k + i \in 1 .. Len(g)
  BY <1>5, <1>6, <1>7 DEF JoinsTo
<1>9. ASSUME NEW i \in 1 .. Len(d)
      PROVE  \/ i <= k /\ d[i] = f[i]
             \/ i > k /\ d[i] = g[i] /\ i \in 1 .. Len(g)
  <2>1. CASE i <= k
    BY <1>2, <1>8, <2>1
  <2>2. CASE i > k
    <3>1. i - k \in 1 .. b /\ k + (i - k) = i
      BY <1>2, <1>8, <2>2
    <3> QED  BY <1>8, <2>2, <3>1
  <2> QED  BY <1>2, <1>8, <2>1, <2>2
<1>10. ASSUME NEW i \in 1 .. Len(d) PROVE Genuine(s, d[i])
  <2>1. d[i] \in FileCells(s) \/ d[i] \in FileCells(e)
    BY <1>1, <1>2, <1>9
  <2> QED  BY <1>0, <2>1, FileCellsGenuine
<1>11. ASSUME s.format = "KDB4" PROVE OneSeed(d, s)
  <2> DEFINE H == OuterHeader(s)
             G == OuterHeader(e)
             n == Len(s.layout)
             seed == <<"field", "seed", FieldValue(e, "seed")>>
  <2> SUFFICES ASSUME NEW i \in DOMAIN d, d[i] = seed
               PROVE  \E j \in 1 .. Len(H) : j > Len(d) \/ d[j] # H[j]
    BY DEF OneSeed
  <2>0. i \in 1 .. Len(d)
    BY <1>8, SeqIs
  <2>1. seed[1] = "field" /\ seed[2] = "seed" /\ seed[3] = <<"seed", e.n>>
    BY FieldValues
  <2>2. n \in Nat /\ Len(H) = n + 2 /\ Len(G) = n + 2
        /\ G[1] = VersionCell(e) /\ G[n + 2] = <<"end">>
        /\ (\A j \in 1 .. n : G[j + 1] = <<"field", s.layout[j], FieldValue(e, s.layout[j])>>)
        /\ (\A j \in 1 .. n : H[j + 1] = <<"field", s.layout[j], FieldValue(s, s.layout[j])>>)
    <3>1. H = OuterHeader(s) /\ G = OuterHeader(e) /\ n = Len(s.layout) /\ n = Len(e.layout)
      BY <1>0
    <3> HIDE DEF H, G, n
    <3>2. HeaderLaid(s, H, n) /\ HeaderLaid(e, G, n)
      BY <1>0, <3>1, OuterHeaderIs
    <3> QED  BY <1>0, <3>2 DEF HeaderLaid
  <2>3. seed \notin FieldCells(s)
    <3> SUFFICES ASSUME NEW f1 \in FieldsOf(s), seed = <<"field", f1, FieldValue(s, f1)>>
                 PROVE  FALSE
      BY DEF FieldCells
    <3> DEFINE v == FieldValue(s, f1)
    <3>1. seed = <<"field", f1, v>>
      OBVIOUS
    <3>2. FieldValue(s, "seed") = <<"seed", s.n>>
      BY FieldValues
    <3> HIDE DEF v, seed
    <3>3. f1 = "seed" /\ v = <<"seed", e.n>>
      BY <2>1, <3>1
    <3>4. <<"seed", s.n>> = <<"seed", e.n>>
      BY <3>2, <3>3 DEF v
    <3> QED  BY <1>0, <3>4
  <2> HIDE DEF seed
  <2>4. i > k /\ g[i] = seed /\ i \in 1 .. Len(g)
    <3>1. i <= k => seed \in FileCells(s)
      BY <1>1, <1>2, <1>9, <2>0
    <3>2. ~ i <= k
      BY <2>1, <2>3, <3>1, CellKinds
    <3> QED  BY <1>9, <2>0, <3>2
  <2>5. i \in 1 .. Len(G) /\ G[i] = seed
    <3> DEFINE W == Stream(WrittenBlocks(e), SaveHmacKey(e))
               h == Len(G)
               w == Len(W)
    <3>1. /\ IsSeq(W) /\ Len(g) = h + 2 + w
          /\ \A j \in 1 .. h : g[j] = G[j]
          /\ g[h + 1] = ShaCell(e) /\ g[h + 2] = HmacCell(e)
          /\ \A j \in 1 .. w : g[h + 2 + j] = W[j]
      <4>1. G = OuterHeader(e) /\ W = Stream(WrittenBlocks(e), SaveHmacKey(e)) /\ h = Len(G)
            /\ w = Len(W) /\ e.format = "KDB4"
        BY <1>0, <1>11
      <4> HIDE DEF G, W, h, w
      <4>2. Kdbx4Laid(e, g, G, h, W, w)
        BY <1>0, <4>1, Kdbx4FileIs
      <4> QED  BY <4>2 DEF Kdbx4Laid
    <3>2. \A j \in 1 .. w : W[j][1] # "field"
      <4>1. ASSUME NEW j \in 1 .. w, W[j][1] = "field" PROVE FALSE
        <5> DEFINE B == WrittenBlocks(e)
                   key == SaveHmacKey(e)
        <5>1. IsSeq(B) /\ \A x \in 1 .. Len(B) : B[x] \in Seq(Range(Secret(e)))
          BY <1>0, <1>11, BlocksAre
        <5>2. StreamCell(W[j], B, key)
          <6>1. \A x \in 1 .. Len(B) : IsSeq(B[x])
            BY <5>1 DEF IsSeq
          <6>2. W = Stream(B, key)
            OBVIOUS
          <6> HIDE DEF W, B, key
          <6> QED  BY <5>1, <6>1, <6>2, StreamIsLaid
        <5> HIDE DEF W, B, key
        <5>3. CASE \E x \in 0 .. Len(B) : W[j] = BlockHead(x, key, BlockNo(B, x))
          BY <4>1, <5>3 DEF BlockHead
        <5>4. CASE \E x \in 1 .. Len(B) : \E y \in 1 .. Len(B[x]) : W[j] = B[x][y]
          <6>1. PICK x \in 1 .. Len(B) : \E y \in 1 .. Len(B[x]) : W[j] = B[x][y]
            BY <5>4
          <6>2. W[j] \in Range(Secret(e))
            BY <5>1, <6>1
          <6>5. W[j][1] \in {"cbc", "stream"}
            BY <1>0, <6>2, SecretKinds
          <6> QED  BY <4>1, <6>5
        <5> QED  BY <5>2, <5>3, <5>4 DEF StreamCell
      <4> QED  BY <4>1
    <3>3. h \in Nat /\ w \in Nat
      BY <2>2, <3>1, SeqIs
    <3> HIDE DEF W, h, w
    <3>4. i # h + 1
      <4>1. ShaCell(e)[1] = "sha256"
        BY DEF ShaCell
      <4> QED  BY <2>1, <2>4, <3>1, <4>1
    <3>5. i # h + 2
      <4>1. HmacCell(e)[1] = "hmac"
        BY DEF HmacCell
      <4> QED  BY <2>1, <2>4, <3>1, <4>1
    <3>6. i <= h
      <4> SUFFICES ASSUME i > h + 2 PROVE FALSE
        BY <2>4, <3>3, <3>4, <3>5
      <4>1. i - (h + 2) \in 1 .. w /\ h + 2 + (i - (h + 2)) = i
        BY <2>4, <3>1, <3>3
      <4>2. g[i] = W[i - (h + 2)]
        BY <3>1, <4>1
      <4> QED  BY <2>1, <2>4, <3>2, <4>1, <4>2
    <3>7. i \in 1 .. h
      BY <2>4, <3>1, <3>3, <3>6
    <3> QED  BY <2>4, <3>1, <3>7 DEF h
  <2>6. i # 1 /\ i # n + 2
    <3>1. VersionCell(e)[1] = "version"
      BY DEF VersionCell
    <3> QED  BY <2>1, <2>2, <2>5, <3>1
  <2>7. i - 1 \in 1 .. n /\ (i - 1) + 1 = i
    <3> HIDE DEF n, G
    <3> QED  BY <2>2, <2>5, <2>6
  <2> DEFINE x == s.layout[i - 1]
             v == FieldValue(e, x)
             w == FieldValue(s, x)
  <2>8. seed = <<"field", x, v>> /\ H[i] = <<"field", x, w>>
    BY <2>2, <2>5, <2>7
  <2>9. FieldValue(s, "seed") = <<"seed", s.n>>
    BY FieldValues
  <2>10. w = <<"seed", s.n>>
    <3> HIDE DEF v, w, x
    <3>1. x = "seed"
      BY <2>1, <2>8
    <3> QED  BY <2>9, <3>1 DEF w
  <2>11. d[i] # H[i]
    <3>1. H[i][3] = w
      <4> HIDE DEF w, x
      <4> QED  BY <2>8
    <3>2. <<"seed", s.n>> # <<"seed", e.n>>
      BY <1>0
    <3> HIDE DEF w
    <3> QED  BY <2>1, <2>10, <3>1, <3>2
  <2>12. i \in 1 .. Len(H)
    BY <2>2, <2>5
  <2> QED  BY <2>11, <2>12
<1> QED  BY <1>8, <1>10, <1>11 DEF IsFile

\* All that may be found where a file was written is a file in this sense.
LEMMA FoundIsFile ==
    ASSUME NEW s, IsSave(s),
           NEW d \in {FileOf(s)} \cup Found(FileOf(s), FileOf(Earlier(s)))
    PROVE  IsFile(d, s)
<1>1. CASE d = FileOf(s)
  <2>1. FileOf(s) \in Seq(FileCells(s)) /\ \A c \in FileCells(s) : c \in PlainCells(s)
    BY FileIn DEF PlainCells
  <2>2. d \in Seq(PlainCells(s))
    BY <1>1, <2>1, SeqsOf
  <2> QED  BY <2>2, SeqInGenuine
<1>2. CASE d \in Altered(FileOf(s))
  BY <1>2, AlteredCells
<1>3. CASE d \in UNION {CutOff(FileOf(s)), Misplaced(FileOf(s)), Exchanged(FileOf(s))}
  BY <1>3, MovedCells
<1>4. CASE d \in Over(FileOf(s), FileOf(Earlier(s)))
  BY <1>4, OverCells
<1> QED  BY <1>1, <1>2, <1>3, <1>4 DEF Found

----------------------------------------------------------------------------
(* The inductive invariant: what is in memory at each step of a call, and   *)
(* whose it is.                                                             *)

\* What does not change during a call.
FileInv ==
    /\ origin \in Saves /\ IsKey(dbKey) /\ IsFile(data, origin)
    /\ data # FileOf(origin) => dbKey = origin.key
    /\ written = BlocksIn(Maker(data, origin))

BeginsWith(d, H) == \A i \in 1 .. Len(H) : i <= Len(d) /\ d[i] = H[i]

\* Only a header that is whole gives the key of a stream.
StreamKeyInv ==
    \/ hmacKey = <<>>
    \/ \E u \in Makers(origin) :
          /\ u.format = "KDB4" /\ hmacKey = SaveHmacKey(u) /\ BeginsWith(data, OuterHeader(u))
          /\ Kdbx4Required \subseteq Range(u.layout)

Fresh == hmacKey = <<>> /\ out = <<>> /\ index = 0 /\ inner = NoInner

\* What is known of the header after the first n cells.
HeaderRead(n, known) ==
    /\ n \in 0 .. Len(data)
    /\ DOMAIN header = Fields
    /\ \A f \in Fields :
          \/ header[f] = Missing
          \/ /\ f \in known /\ header[f] = Some(header[f][1]) /\ Legible(f, header[f][1])
             /\ \E i \in 1 .. n :
                   data[i][1] = "field" /\ data[i][2] = f /\ header[f][1] = data[i][3]
    /\ \A i \in 1 .. n :
          data[i][1] = "field" /\ data[i][2] # "comment" =>
              data[i][2] \in Fields /\ header[data[i][2]] # Missing

VersionPhase == pos = 1 /\ header = NoHeader /\ Fresh

\* In the header of a KDBX file
HeaderPhase(format, known) ==
    /\ data[1][2] = format /\ pos \in Nat \ {0, 1} /\ HeaderRead(pos - 1, known) /\ Fresh

\* Behind it
BodyPhase(format, known, required) ==
    HeaderPhase(format, known) /\ \A f \in required : header[f] # Missing

----------------------------------------------------------------------------
\* A KDBX4 file whose header and key are those of u.
HeaderIs(u) ==
    \A f \in Fields : header[f] = IF f \in Range(u.layout) THEN Some(FieldValue(u, f)) ELSE Missing

Verified(u) ==
    /\ u \in Makers(origin) /\ u.format = "KDB4" /\ Kdbx4Required \subseteq Range(u.layout)
    /\ hmacKey = SaveHmacKey(u) /\ masterKey = SaveMaster(u) /\ HeaderIs(u)
    /\ data[1] = VersionCell(u) /\ BeginsWith(data, OuterHeader(u))
    /\ SameParts(dbKey, origin.key) /\ written = WrittenBlocks(u)

BlocksPhase ==
    \E u \in Makers(origin) : Verified(u) /\ pos \in Nat \ {0} /\ IsSeq(out) /\ index = Len(out) /\ PrefixOfWritten
           /\ inner = NoInner

Decrypt4Phase == \E u \in Makers(origin) : Verified(u) /\ IsSeq(out) /\ PrefixOfWritten /\ inner = NoInner

\* q is the beginning of P, but for its last cell.
Near(q, P) ==
    /\ IsSeq(q) /\ Len(q) <= Len(P)
    /\ \A i \in 1 .. Len(q) : q[i] = P[i] \/ (i = Len(q) /\ q[i] = Garbage)

InnerDocument(u) == InnerHeader(u) \o Document(u)
PaddedDocument(u) == WithPadding(u.outer, InnerDocument(u))

Inflate4Phase ==
    \E u \in Makers(origin) : Verified(u) /\ Near(payload, WithPadding(u.outer, FilePayload(u))) /\ inner = NoInner

\* The first n cells of the inner header are read.
InnerRead(u, n) ==
    /\ n \in 0 .. Len(u.attachments) + 2
    /\ inner.id = IF n = 0 THEN Missing ELSE Some(<<u.inner>>)
    /\ inner.key = IF n \in {0, 1} THEN Missing ELSE Some(StreamKey(u))
    /\ IsSeq(inner.attachments)
    /\ Len(inner.attachments) = IF n \in {0, 1} THEN 0 ELSE n - 2
    /\ \A i \in 1 .. Len(inner.attachments) : inner.attachments[i] = u.attachments[i]

InnerIs(i, k, a) == inner.id = i /\ inner.key = k /\ inner.attachments = a

InnerPhase ==
    \E u \in Makers(origin) : Verified(u) /\ Near(payload, PaddedDocument(u)) /\ pos \in Nat \ {0}
           /\ inner = [id |-> inner.id, key |-> inner.key, attachments |-> inner.attachments]
           /\ InnerRead(u, pos - 1)

Xml4(u) ==
    /\ Verified(u) /\ Near(payload, PaddedDocument(u)) /\ pos = Len(u.attachments) + 4
    /\ InnerIs(Some(<<u.inner>>), Some(StreamKey(u)), u.attachments)

----------------------------------------------------------------------------
\* A deciphered cell that is no garbage is one of a save with this key, and so
\* are all before it.
Told(cipher, key, q) ==
    /\ IsSeq(q)
    /\ \A n \in 1 .. Len(q) :
          (\A i \in 1 .. n : q[i] # Garbage) =>
              \E u \in Makers(origin) :
                  /\ u.outer = cipher /\ FileMaster(u) = key
                  /\ n <= Len(WithPadding(u.outer, FilePayload(u)))
                  /\ \A i \in 1 .. n : q[i] = WithPadding(u.outer, FilePayload(u))[i]

\* What matters of the header of a KDBX3 file.
Derived3 ==
    /\ data[1][2] = "KDB3" /\ KeyError(dbKey) = "none"
    /\ masterKey = Kdbx3Master(header["seed"][1], header["rounds"][1][2],
                               header["transform seed"][1], dbKey)
    /\ header["iv"][1] = Damaged \/ \E u \in Makers(origin) : header["iv"][1] = FieldValue(u, "iv")
    /\ \/ header["stream start"][1] = Damaged
       \/ \E u \in Makers(origin) : header["stream start"][1] = FieldValue(u, "stream start")
    /\ header["compression"][1][1] \in Compressions /\ header["public"] = Missing
    /\ inner.attachments = <<>>

Decrypt3Phase == Derived3 /\ out = <<>> /\ pos \in Nat \ {0}

Told3 == Told(header["cipher"][1][1], masterKey, payload)

Start3Phase == Derived3 /\ Told3 /\ out = <<>> /\ pos = 2

Cells3(u) == Compressed(u.compression, Document(u))
Payload3(u) == WithPadding(u.outer, FilePayload(u))

\* A KDBX3 file that is deciphered with the key of u.
Opened3(u) ==
    /\ u \in Makers(origin) /\ u.format = "KDB3" /\ FileMaster(u) = masterKey
    /\ u.outer = header["cipher"][1][1]

Blocks3Phase ==
    /\ Derived3 /\ Told3
    /\ \E u \in Makers(origin) :
          /\ Opened3(u)
          /\ pos - 1 <= Len(payload) /\ \A i \in 1 .. pos - 1 : payload[i] = Payload3(u)[i]
          /\ \/ pos = 2 /\ out = <<>>
             \/ pos = 4 /\ out = <<SubSeq(Cells3(u), 1, 1)>>
             \/ pos = Len(Cells3(u)) + 4
                /\ out = <<SubSeq(Cells3(u), 1, 1), SubSeq(Cells3(u), 2, Len(Cells3(u)))>>

Xml3(u) ==
    /\ Derived3 /\ Opened3(u) /\ pos = 1
    /\ \/ payload = Document(u) /\ header["compression"][1][1] = u.compression
       \/ IsSeq(payload) /\ Len(payload) = 2

XmlPhase == \E u \in Makers(origin) : Xml4(u) \/ Xml3(u)

----------------------------------------------------------------------------
KdbPhase == data[1][2] = "KDB" /\ pos = 2

KdbPaddingPhase ==
    /\ KdbPhase /\ 2 \in DOMAIN data /\ data[2][1] = "kdb header" /\ KeyError(dbKey) = "none"
    /\ data[2][2].outer \in {"AES256", "Twofish"}
    /\ Told(data[2][2].outer, KdbMaster(data[2][2], dbKey), payload)

KdbFieldsPhase ==
    /\ KdbPhase
    /\ \E u \in Makers(origin) :
          /\ u.format = "KDB" /\ data[2][2].outer = u.outer /\ data[2][2].rounds = u.kdf[2]
          /\ data[2][2].fields = u.db
    /\ SameParts(dbKey, origin.key)

DonePhase ==
    result.kind = "opened" =>
        OneOf({origin, Earlier(origin)}) /\ SameParts(dbKey, origin.key)

Phases ==
    /\ pc = "version" => VersionPhase
    /\ pc = "KDB4" => HeaderPhase("KDB4", Kdbx4Fields)
    /\ pc = "KDB4 body" => BodyPhase("KDB4", Kdbx4Fields, Kdbx4Required)
    /\ pc = "blocks" => BlocksPhase
    /\ pc = "decrypt" => Decrypt4Phase
    /\ pc = "inflate" => Inflate4Phase
    /\ pc = "inner" => InnerPhase
    /\ pc = "KDB3" => HeaderPhase("KDB3", Kdbx3Fields)
    /\ pc = "KDB3 body" => BodyPhase("KDB3", Kdbx3Fields, Kdbx3Fields)
    /\ pc = "decrypt3" => Decrypt3Phase
    /\ pc = "stream start" => Start3Phase
    /\ pc = "hashed blocks" => Blocks3Phase
    /\ pc = "xml" => XmlPhase
    /\ pc = "KDB" => KdbPhase
    /\ pc = "KDB padding" => KdbPaddingPhase
    /\ pc = "KDB fields" => KdbFieldsPhase
    /\ pc = "done" => DonePhase

OpeningInv == FileInv /\ StreamKeyInv /\ Phases

----------------------------------------------------------------------------
(* The invariant holds when a call begins, and nothing is lost by failing.  *)

\* The invariant holds when a call begins.
LEMMA InvInit ==
    ASSUME Init PROVE OpeningInv
<1>0. origin \in Saves /\ IsSave(origin)
  BY SavesAssumption DEF Init
<1>1. data \in {FileOf(origin)} \cup Found(FileOf(origin), FileOf(Earlier(origin)))
  BY DEF Init
<1>2. IsFile(data, origin)
  BY <1>0, <1>1, FoundIsFile
<1>3. IsKey(origin.key)
  BY <1>0 DEF IsSave
<1>4. IsKey(dbKey) /\ (data # FileOf(origin) => dbKey = origin.key)
  BY <1>3, KeysAssumption DEF Init
<1>5. FileInv
  BY <1>0, <1>2, <1>4 DEF FileInv, Init
<1>6. StreamKeyInv
  BY DEF StreamKeyInv, Init
<1>7. VersionPhase /\ pc = "version"
  BY DEF VersionPhase, Init, Fresh
<1> QED  BY <1>5, <1>6, <1>7 DEF OpeningInv, Phases

\* Nothing moves the file, the key and the save.
Fixed == UNCHANGED <<data, dbKey, written, origin>>

\* The file and the key are those the call was made with,
LEMMA FileInvKept ==
    ASSUME FileInv, Fixed PROVE FileInv'
BY DEF FileInv, Fixed

\* and the key of the stream stays what it is.
LEMMA StreamKeyKept ==
    ASSUME StreamKeyInv, Fixed, hmacKey' = hmacKey PROVE StreamKeyInv'
BY DEF StreamKeyInv, Fixed

\* A step that returns anything but a database keeps the invariant.
LEMMA Returns ==
    ASSUME OpeningInv, Fixed, hmacKey' = hmacKey, pc' = "done", result'.kind # "opened"
    PROVE  OpeningInv'
<1>1. FileInv' /\ StreamKeyInv'
  BY FileInvKept, StreamKeyKept DEF OpeningInv
<1>2. DonePhase'
  BY DEF DonePhase
<1> QED  BY <1>1, <1>2 DEF OpeningInv, Phases

\* A failure is no database.
LEMMA FailReturns ==
    ASSUME NEW e, Fail(e) PROVE pc' = "done" /\ result'.kind # "opened"
BY DEF Fail, Failure

\* What is known of the file and the saves it may come from.
LEMMA SavesAre ==
    ASSUME FileInv
    PROVE  /\ IsSave(origin) /\ IsSave(Earlier(origin)) /\ IsKey(origin.key)
           /\ IsSeq(data) /\ DOMAIN data = 1 .. Len(data) /\ Len(data) \in Nat
           /\ \A u \in Makers(origin) : /\ IsSave(u) /\ u.format = origin.format
                                        /\ u.key = origin.key /\ u.n \in Nat
<1>1. IsSave(origin)
  BY SavesAssumption DEF FileInv
<1>2. IsKey(origin.key)
  BY <1>1 DEF IsSave
<1>3. IsSeq(data)
  BY DEF FileInv, IsFile
<1>4. DOMAIN data = 1 .. Len(data) /\ Len(data) \in Nat
  BY <1>3, SeqIs
<1> QED  BY <1>1, <1>2, <1>3, <1>4, MakersAre, EarlierIs

----------------------------------------------------------------------------
(* The version, and the header.                                            *)

\* Database::parse hands the file to the reader of its format.
LEMMA DispatchStep ==
    ASSUME OpeningInv, Dispatch, UNCHANGED origin PROVE OpeningInv'
<1>0. pc = "version" /\ VersionPhase /\ FileInv /\ StreamKeyInv
  BY DEF OpeningInv, Phases, Dispatch
<1>1. Fixed /\ hmacKey' = hmacKey /\ out' = out /\ index' = index /\ inner' = inner
      /\ header' = header /\ pos' = 2 /\ pc' = data[1][2] /\ data' = data
  BY DEF Fixed, Dispatch, Proceed, containerVars
<1>2. data[1][2] \in {"KDB", "KDB3", "KDB4"} /\ data # <<>> /\ data[1][1] = "version"
  BY DEF Dispatch, IsVersion
<1>3. FileInv' /\ StreamKeyInv'
  BY <1>0, <1>1, FileInvKept, StreamKeyKept
<1>4. 1 \in 0 .. Len(data)
  <2>1. Len(data) # 0
    BY <1>0, <1>2, SavesAre DEF IsSeq
  <2> QED  BY <1>0, <2>1, SavesAre
<1>5. \A known : HeaderRead(1, known)'
  <2>1. header' = [f \in Fields |-> Missing]
    BY <1>0, <1>1 DEF VersionPhase, NoHeader
  <2>2. DOMAIN header' = Fields /\ \A f \in Fields : header'[f] = Missing
    BY <2>1
  <2>3. \A i \in 1 .. 1 : data'[i][1] # "field"
    BY <1>1, <1>2
  <2> QED  BY <1>1, <1>4, <2>2, <2>3 DEF HeaderRead
<1>6. Fresh'
  BY <1>0, <1>1 DEF Fresh, VersionPhase
<1>7. CASE data[1][2] = "KDB"
  <2>1. KdbPhase'
    BY <1>1, <1>7 DEF KdbPhase
  <2> QED  BY <1>1, <1>3, <1>7, <2>1 DEF OpeningInv, Phases
<1>8. \A known : HeaderPhase(data[1][2], known)'
  <2>1. pos' - 1 = 1 /\ pos' \in Nat \ {0, 1}
    BY <1>1
  <2> QED  BY <1>1, <1>5, <1>6, <2>1 DEF HeaderPhase
<1>9. CASE data[1][2] = "KDB3"
  BY <1>1, <1>3, <1>8, <1>9 DEF OpeningInv, Phases
<1>10. CASE data[1][2] = "KDB4"
  BY <1>1, <1>3, <1>8, <1>10 DEF OpeningInv, Phases
<1> QED  BY <1>2, <1>7, <1>9, <1>10

\* One more field of the outer header is read.
LEMMA HeaderFieldStep ==
    ASSUME FileInv, NEW format, NEW known \in SUBSET Fields,
           HeaderPhase(format, known), HeaderField(format, known)
    PROVE  HeaderPhase(format, known)'
<1>0. /\ pos' = pos + 1 /\ data' = data /\ Fresh' /\ FieldHere(known)
      /\ header' = IF data[pos][2] = "comment" THEN header
                   ELSE [header EXCEPT ![data[pos][2]] = Some(data[pos][3])]
  BY DEF HeaderPhase, Fresh, HeaderField, Advanced
<1>1. HeaderRead(pos - 1, known) /\ pos \in Nat \ {0, 1} /\ data[1][2] = format
  BY DEF HeaderPhase
<1>2. pos <= Len(data) /\ data[pos][1] = "field" /\ data[pos][2] \in known \cup {"comment"}
      /\ Legible(data[pos][2], data[pos][3]) /\ Len(data) \in Nat
  BY <1>0, <1>1, SavesAre DEF FieldHere, AtEnd
<1> DEFINE c == data[pos]
<1>a. PICK n \in Nat : n = pos - 1
  BY <1>1
<1>3. n \in Nat /\ pos = n + 1 /\ pos' - 1 = n + 1 /\ n + 1 \in 0 .. Len(data)
  BY <1>0, <1>1, <1>2, <1>a
<1>4. /\ DOMAIN header = Fields
      /\ \A f \in Fields :
            \/ header[f] = Missing
            \/ /\ f \in known /\ header[f] = Some(header[f][1]) /\ Legible(f, header[f][1])
               /\ \E i \in 1 .. n :
                     data[i][1] = "field" /\ data[i][2] = f /\ header[f][1] = data[i][3]
      /\ \A i \in 1 .. n :
            data[i][1] = "field" /\ data[i][2] # "comment" =>
                data[i][2] \in Fields /\ header[data[i][2]] # Missing
  BY <1>1, <1>a DEF HeaderRead
<1>5. DOMAIN header' = Fields
  BY <1>0, <1>4
<1>6. \A f \in Fields :
         \/ header'[f] = header[f]
         \/ f = c[2] /\ c[2] \in known /\ header'[f] = Some(c[3])
  BY <1>0, <1>2, <1>4
<1>7. \A f \in Fields : f = c[2] => header'[f] = Some(c[3])
  <2>1. "comment" \notin Fields
    BY DEF Fields
  <2> QED  BY <1>0, <1>4, <2>1
<1>8. ASSUME NEW f \in Fields
      PROVE  \/ header'[f] = Missing
             \/ /\ f \in known /\ header'[f] = Some(header'[f][1]) /\ Legible(f, header'[f][1])
                /\ \E i \in 1 .. n + 1 :
                      data[i][1] = "field" /\ data[i][2] = f /\ header'[f][1] = data[i][3]
  <2>1. CASE header'[f] = header[f]
    <3>1. CASE header[f] = Missing
      BY <2>1, <3>1
    <3>2. CASE header[f] # Missing
      <4>1. /\ f \in known /\ header[f] = Some(header[f][1]) /\ Legible(f, header[f][1])
            /\ \E i \in 1 .. n :
                     data[i][1] = "field" /\ data[i][2] = f /\ header[f][1] = data[i][3]
        BY <1>4, <3>2
      <4>2. \A i \in 1 .. n : i \in 1 .. n + 1
        BY <1>3
      <4> QED  BY <2>1, <4>1, <4>2
    <3> QED  BY <3>1, <3>2
  <2>2. CASE f = c[2] /\ c[2] \in known /\ header'[f] = Some(c[3])
    <3>1. header'[f][1] = c[3]
      BY <2>2 DEF Some
    <3>2. n + 1 \in 1 .. n + 1 /\ data[n + 1] = c
      BY <1>3
    <3>3. c[1] = "field" /\ Legible(c[2], c[3])
      BY <1>2
    <3> HIDE DEF c
    <3> QED  BY <2>2, <3>1, <3>2, <3>3
  <2> QED  BY <1>6, <2>1, <2>2
<1>9. ASSUME NEW i \in 1 .. n + 1, data[i][1] = "field", data[i][2] # "comment"
      PROVE  data[i][2] \in Fields /\ header'[data[i][2]] # Missing
  <2>1. CASE i \in 1 .. n
    <3>1. data[i][2] \in Fields /\ header[data[i][2]] # Missing
      BY <1>4, <1>9, <2>1
    <3>2. Some(c[3]) # Missing
      BY DEF Some, Missing
    <3> HIDE DEF c
    <3> QED  BY <1>6, <3>1, <3>2
  <2>2. CASE i = n + 1
    <3>1. data[i] = c /\ c[2] \in Fields
      BY <1>2, <1>3, <1>9, <2>2
    <3>2. Some(c[3]) # Missing
      BY DEF Some, Missing
    <3> HIDE DEF c
    <3> QED  BY <1>7, <3>1, <3>2
  <2> QED  BY <1>3, <2>1, <2>2
<1>10. HeaderRead(n + 1, known)'
  BY <1>0, <1>3, <1>5, <1>8, <1>9 DEF HeaderRead
<1>11. pos' \in Nat \ {0, 1} /\ data'[1][2] = format
  BY <1>0, <1>1
<1>12. HeaderRead(pos - 1, known)'
  BY <1>3, <1>10 DEF HeaderRead
<1> QED  BY <1>0, <1>11, <1>12 DEF HeaderPhase

\* The outer header ends with all the required fields there.
LEMMA HeaderEndsStep ==
    ASSUME FileInv, NEW format, NEW known, NEW required, NEW to,
           HeaderPhase(format, known), HeaderEnds(format, required, to), pc' # "done"
    PROVE  BodyPhase(format, known, required)' /\ pc' = to /\ data'[pos' - 1] = <<"end">>
<1>0. /\ pos' = pos + 1 /\ data' = data /\ Fresh' /\ header' = header /\ pc' = to
      /\ data[pos] = <<"end">> /\ pos <= Len(data)
      /\ \A f \in required : header[f] # Missing
  <2>1. pos <= Len(data)
    BY SavesAre DEF HeaderEnds, AtEnd, HeaderPhase
  <2> QED  BY <2>1 DEF HeaderPhase, Fresh, HeaderEnds, Proceed, Fail, containerVars
<1>1. HeaderRead(pos - 1, known) /\ pos \in Nat \ {0, 1} /\ data[1][2] = format /\ Len(data) \in Nat
  BY SavesAre DEF HeaderPhase
<1>a. PICK n \in Nat : n = pos - 1
  BY <1>1
<1>3. n \in Nat /\ pos = n + 1 /\ pos' - 1 = n + 1 /\ n + 1 \in 0 .. Len(data)
  BY <1>0, <1>1, <1>a
<1>4. HeaderRead(n, known)
  BY <1>1, <1>a
<1>5. data[n + 1][1] # "field"
  BY <1>0, <1>3
<1>6. HeaderRead(n + 1, known)
  <2>1. \A i \in 1 .. n + 1 : i \in 1 .. n \/ i = n + 1
    BY <1>3
  <2>2. \A i \in 1 .. n : i \in 1 .. n + 1
    BY <1>3
  <2> QED  BY <1>3, <1>4, <1>5, <2>1, <2>2 DEF HeaderRead
<1>7. HeaderRead(n + 1, known)'
  BY <1>0, <1>6 DEF HeaderRead
<1>8. HeaderPhase(format, known)'
  BY <1>0, <1>1, <1>3, <1>7 DEF HeaderPhase
<1> QED  BY <1>0, <1>3, <1>8 DEF BodyPhase

----------------------------------------------------------------------------
(* Nobody else has the key of a stream.                                    *)

\* From the key of a stream follow the seed, the key derivation and the key it
\* was derived with.
LEMMA HmacKeyTells ==
    ASSUME NEW u, IsSave(u), NEW seed, NEW kdf, NEW kdfSeed, NEW key,
           SaveHmacKey(u) = HmacOf(seed, kdf, kdfSeed, key)
    PROVE  /\ seed = <<"seed", u.n>> /\ kdfSeed = KdfSeed(u) /\ kdf = u.kdf
           /\ CompositeKey(key) = CompositeKey(SaveKey(u))
<1> DEFINE fs == FieldValue(u, "seed")
           a == TransformKey(u.kdf, KdfSeed(u), CompositeKey(SaveKey(u)))
           b == TransformKey(kdf, kdfSeed, CompositeKey(key))
<1>1. Sha512(<<fs, a>>) = Sha512(<<seed, b>>)
  BY DEF SaveHmacKey, HmacOf, HmacKey
<1>2. fs = <<"seed", u.n>>
  BY FieldValues
<1>3. fs = seed /\ a = b
  <2> HIDE DEF fs, a, b
  <2> QED  BY <1>1 DEF Sha512
<1>4. u.kdf = kdf /\ KdfSeed(u) = kdfSeed /\ CompositeKey(SaveKey(u)) = CompositeKey(key)
  <2> DEFINE x == CompositeKey(SaveKey(u))
             y == CompositeKey(key)
             v == KdfSeed(u)
  <2>1. <<"transformed", u.kdf, v, x>> = <<"transformed", kdf, kdfSeed, y>>
    BY <1>3 DEF TransformKey
  <2> HIDE DEF x, y, v
  <2> QED  BY <2>1 DEF x, y, v
<1> QED  BY <1>2, <1>3, <1>4

\* Two saves of a file have two stream keys.
LEMMA HmacKeysDiffer ==
    ASSUME NEW s, IsSave(s), NEW u \in Makers(s), NEW v \in Makers(s),
           SaveHmacKey(u) = SaveHmacKey(v)
    PROVE  u = v
<1>1. IsSave(u) /\ IsSave(v)
  BY MakersAre
<1>2. SaveHmacKey(u) = HmacOf(FieldValue(v, "seed"), v.kdf, KdfSeed(v), SaveKey(v))
  BY DEF SaveHmacKey
<1>3. FieldValue(v, "seed") = <<"seed", u.n>>
  BY <1>1, <1>2, HmacKeyTells
<1>4. FieldValue(v, "seed") = <<"seed", v.n>>
  BY FieldValues
<1>5. u.n = v.n
  BY <1>3, <1>4
<1> QED  BY <1>5, MakersAre

\* The blocks that a file's writer made are those of the save whose header it begins with.
LEMMA WrittenAre ==
    ASSUME FileInv, NEW u \in Makers(origin), u.format = "KDB4",
           BeginsWith(data, OuterHeader(u)), "seed" \in Range(u.layout)
    PROVE  written = WrittenBlocks(u)
<1> DEFINE e == Earlier(origin)
           seed == <<"field", "seed", FieldValue(e, "seed")>>
<1>1. IsSave(origin) /\ IsSave(u) /\ origin.format = "KDB4" /\ IsSeq(data)
      /\ DOMAIN data = 1 .. Len(data)
  BY SavesAre
<1>2. Maker(data, origin) = u
  <2>1. CASE u = origin
    <3>1. ~ \E i \in DOMAIN data : data[i] = seed
      BY <1>1, <2>1 DEF FileInv, IsFile, OneSeed, BeginsWith
    <3> QED  BY <2>1, <3>1 DEF Maker
  <2>2. CASE u = e
    <3> DEFINE H == OuterHeader(u)
               n == Len(u.layout)
    <3>1. HeaderLaid(u, H, n)
      <4>1. H = OuterHeader(u) /\ n = Len(u.layout)
        OBVIOUS
      <4> HIDE DEF H, n
      <4> QED  BY <1>1, <4>1, OuterHeaderIs
    <3>2. PICK j \in 1 .. n : u.layout[j] = "seed"
      <4>1. IsSeq(u.layout)
        BY <1>1 DEF IsSave, IsSeq
      <4>2. Range(u.layout) = {u.layout[i] : i \in 1 .. Len(u.layout)}
        BY <4>1, RangeIs
      <4> QED  BY <4>2
    <3>3. H[j + 1] = seed
      <4>1. H[j + 1] = <<"field", u.layout[j], FieldValue(u, u.layout[j])>>
        BY <3>1 DEF HeaderLaid
      <4> QED  BY <2>2, <3>2, <4>1
    <3>4. j + 1 \in 1 .. Len(H)
      BY <3>1 DEF HeaderLaid
    <3>5. data[j + 1] = seed /\ j + 1 <= Len(data)
      BY <3>3, <3>4 DEF BeginsWith
    <3>6. j + 1 \in DOMAIN data
      BY <1>1, <3>4, <3>5
    <3> QED  BY <2>2, <3>5, <3>6 DEF Maker
  <2> QED  BY <2>1, <2>2 DEF Makers
<1> QED  BY <1>2 DEF FileInv, BlocksIn

\* A block whose mac is right is the block written at that index,
LEMMA UnforgedAt ==
    ASSUME FileInv, StreamKeyInv,
           NEW p \in DOMAIN data, NEW i, BlockAt(p), Verifies(p, i), data[p][3] > 0
    PROVE  i \in Nat /\ i < Len(written) /\ CellsAt(p) = written[i + 1]
<1>1. IsSave(origin) /\ IsSeq(data) /\ p \in 1 .. Len(data) /\ Len(data) \in Nat
  BY SavesAre
<1>2. Genuine(origin, data[p])
  BY <1>1 DEF FileInv, IsFile
<1> DEFINE cells == CellsAt(p)
<1>3. data[p][2] = BlockMac(i, hmacKey, cells) /\ data[p][1] = "block" /\ data[p][3] \in Nat
      /\ p + data[p][3] <= Len(data)
  BY DEF Verifies, BlockAt
<1>4. cells # <<>>
  <2> DEFINE L == data[p][3]
             m == p + 1
             n == p + L
  <2>1. m \in Nat \ {0} /\ n \in 0 .. Len(data) /\ m <= n
    BY <1>1, <1>3
  <2>2. cells = Part(data, m, n)
    BY DEF CellsAt, Part
  <2> HIDE DEF m, n, cells
  <2>3. Len(cells) = n - m + 1
    BY <1>1, <2>1, <2>2, PartIs
  <2>4. Len(cells) # 0
    BY <2>1, <2>3
  <2> QED  BY <2>4
<1> HIDE DEF cells
<1>5. data[p][2] # Damaged
  BY <1>3 DEF BlockMac, Hmac, Damaged
<1>6. PICK u \in Makers(origin) : \E j \in 0 .. Len(WrittenBlocks(u)) :
              /\ u.format = "KDB4"
              /\ data[p][2] = BlockMac(j, SaveHmacKey(u), BlockNo(WrittenBlocks(u), j))
  BY <1>2, <1>3, <1>5 DEF Genuine, GenuineHead
<1>7. PICK j \in 0 .. Len(WrittenBlocks(u)) :
              /\ u.format = "KDB4"
              /\ data[p][2] = BlockMac(j, SaveHmacKey(u), BlockNo(WrittenBlocks(u), j))
  BY <1>6
<1> DEFINE c == BlockNo(WrittenBlocks(u), j)
           k == SaveHmacKey(u)
<1>8. i = j /\ hmacKey = k /\ cells = c
  <2>1. Hmac(BlockKey(i, hmacKey), <<i, Len(cells), cells>>) = Hmac(BlockKey(j, k), <<j, Len(c), c>>)
    BY <1>3, <1>7 DEF BlockMac
  <2> HIDE DEF c, k
  <2>2. BlockKey(i, hmacKey) = BlockKey(j, k) /\ <<i, Len(cells), cells>> = <<j, Len(c), c>>
    BY <2>1 DEF Hmac
  <2>3. i = j /\ cells = c
    BY <2>2
  <2>4. <<i, hmacKey>> = <<j, k>>
    BY <2>2 DEF BlockKey, Sha512
  <2> QED  BY <2>3, <2>4
<1>9. hmacKey # <<>>
  BY <1>8 DEF SaveHmacKey, HmacOf, HmacKey, Sha512
<1>10. PICK v \in Makers(origin) :
          /\ v.format = "KDB4" /\ hmacKey = SaveHmacKey(v) /\ BeginsWith(data, OuterHeader(v))
          /\ Kdbx4Required \subseteq Range(v.layout)
  BY <1>9 DEF StreamKeyInv
<1>11. u = v
  BY <1>1, <1>8, <1>10, HmacKeysDiffer
<1>12. written = WrittenBlocks(u)
  <2>1. "seed" \in Range(u.layout)
    BY <1>10, <1>11 DEF Kdbx4Required
  <2> QED  BY <1>7, <1>10, <1>11, <2>1, WrittenAre
<1>13. j < Len(WrittenBlocks(u)) /\ c = WrittenBlocks(u)[j + 1]
  BY <1>4, <1>8 DEF BlockNo
<1>14. cells = WrittenBlocks(u)[i + 1] /\ i < Len(WrittenBlocks(u))
  BY <1>8, <1>13
<1>15. i \in Nat
  BY <1>8
<1> QED  BY <1>12, <1>14, <1>15 DEF cells

\* wherever in the file it is.
LEMMA UnforgedHolds ==
    ASSUME FileInv, StreamKeyInv
    PROVE  Unforged
BY UnforgedAt DEF Unforged

----------------------------------------------------------------------------
(* A KDBX4 file whose header verifies: the file, the key and the fields in *)
(* memory are those of one save.                                           *)

\* If what was read is the header of u, so are the fields.
LEMMA HeaderTells ==
    ASSUME FileInv, NEW u \in Makers(origin), u.format = "KDB4", pos \in Nat \ {0, 1},
           NEW known, HeaderRead(pos - 1, known), HeaderData = OuterHeader(u)
    PROVE  HeaderIs(u) /\ BeginsWith(data, OuterHeader(u)) /\ data[1] = VersionCell(u)
<1> DEFINE H == OuterHeader(u)
           l == Len(u.layout)
<1>1. IsSave(u) /\ IsSeq(data) /\ Len(data) \in Nat
  BY SavesAre
<1>2. HeaderLaid(u, H, l)
  <2>1. H = OuterHeader(u) /\ l = Len(u.layout)
    OBVIOUS
  <2> HIDE DEF H, l
  <2> QED  BY <1>1, <2>1, OuterHeaderIs
<1>3. PICK n \in Nat : n = pos - 1
  OBVIOUS
<1>4. /\ n \in 0 .. Len(data)
      /\ DOMAIN header = Fields
      /\ \A f \in Fields :
            \/ header[f] = Missing
            \/ /\ f \in known /\ header[f] = Some(header[f][1]) /\ Legible(f, header[f][1])
               /\ \E i \in 1 .. n :
                     data[i][1] = "field" /\ data[i][2] = f /\ header[f][1] = data[i][3]
      /\ \A i \in 1 .. n :
            data[i][1] = "field" /\ data[i][2] # "comment" =>
                data[i][2] \in Fields /\ header[data[i][2]] # Missing
  BY <1>3 DEF HeaderRead
<1>5. H = Part(data, 1, n)
  BY <1>3 DEF HeaderData, Part
<1> HIDE DEF H, l
<1>6. Len(H) = n /\ \A i \in 1 .. n : H[i] = data[i]
  BY <1>1, <1>4, <1>5, PartOfBeginning
<1>7. /\ IsSeq(H) /\ l \in Nat /\ Len(H) = l + 2
      /\ H[1] = VersionCell(u) /\ H[l + 2] = <<"end">>
      /\ \A i \in 1 .. l : H[i + 1] = <<"field", u.layout[i], FieldValue(u, u.layout[i])>>
  BY <1>2 DEF HeaderLaid
<1>8. n = l + 2
  BY <1>6, <1>7
<1>9. data[1] = VersionCell(u)
  BY <1>6, <1>7, <1>8
<1>10. BeginsWith(data, H)
  BY <1>1, <1>4, <1>6 DEF BeginsWith
<1>11. Range(u.layout) = {u.layout[i] : i \in 1 .. l}
  <2>1. IsSeq(u.layout)
    BY <1>1 DEF IsSave, IsSeq
  <2> QED  BY <2>1, RangeIs DEF l
<1>12. ASSUME NEW i \in 1 .. n, data[i][1] = "field"
       PROVE  i - 1 \in 1 .. l /\ data[i] = <<"field", u.layout[i - 1], FieldValue(u, u.layout[i - 1])>>
  <2>1. i # 1
    BY <1>9, <1>12 DEF VersionCell
  <2>2. i # n
    BY <1>6, <1>7, <1>8, <1>12
  <2>3. i - 1 \in 1 .. l /\ (i - 1) + 1 = i
    BY <1>7, <1>8, <2>1, <2>2
  <2>4. H[(i - 1) + 1] = <<"field", u.layout[i - 1], FieldValue(u, u.layout[i - 1])>>
    BY <1>7, <2>3
  <2> QED  BY <1>6, <2>3, <2>4
<1>13. ASSUME NEW f \in Fields
       PROVE  header[f] = IF f \in Range(u.layout) THEN Some(FieldValue(u, f)) ELSE Missing
  <2>1. CASE header[f] = Missing
    <3>1. ASSUME NEW i \in 1 .. l, u.layout[i] = f PROVE FALSE
      <4> DEFINE v == FieldValue(u, f)
      <4>1. i + 1 \in 1 .. n
        BY <1>7, <1>8
      <4>2. data[i + 1] = <<"field", f, v>>
        BY <1>6, <1>7, <3>1, <4>1
      <4> HIDE DEF v
      <4>3. data[i + 1][1] = "field" /\ data[i + 1][2] = f
        BY <4>2
      <4>5. f # "comment"
        BY DEF Fields
      <4> QED  BY <1>4, <2>1, <4>1, <4>3, <4>5
    <3>2. f \notin Range(u.layout)
      BY <1>11, <3>1
    <3> QED  BY <2>1, <3>2
  <2>2. CASE header[f] # Missing
    <3>1. header[f] = Some(header[f][1])
          /\ \E i \in 1 .. n :
                data[i][1] = "field" /\ data[i][2] = f /\ header[f][1] = data[i][3]
      BY <1>4, <2>2
    <3>2. PICK i \in 1 .. n : data[i][1] = "field" /\ data[i][2] = f /\ header[f][1] = data[i][3]
      BY <3>1
    <3> DEFINE g == u.layout[i - 1]
               v == FieldValue(u, g)
    <3>3. i - 1 \in 1 .. l /\ data[i] = <<"field", g, v>>
      BY <1>12, <3>2
    <3>4. g \in Range(u.layout)
      BY <1>11, <3>3
    <3> HIDE DEF g, v
    <3>5. g = f /\ header[f][1] = v
      BY <3>2, <3>3
    <3>6. v = FieldValue(u, f)
      BY <3>5 DEF v
    <3> QED  BY <3>1, <3>4, <3>5, <3>6
  <2> QED  BY <2>1, <2>2
<1> QED  BY <1>9, <1>10, <1>13 DEF HeaderIs, H

\* What Kdbx4Verified finds.
VerifiedBy(u, key) ==
    /\ u.format = "KDB4" /\ Kdbx4Required \subseteq Range(u.layout)
    /\ HeaderHmacKey(key) = SaveHmacKey(u)
    /\ MasterOf(header["seed"][1], HeaderKdf, HeaderKdfSeed, key) = SaveMaster(u)
    /\ HeaderIs(u) /\ data[1] = VersionCell(u) /\ BeginsWith(data, OuterHeader(u))
    /\ SameParts(dbKey, origin.key) /\ written = WrittenBlocks(u)

\* The checks of decrypt_kdbx4 tell the save that wrote the header, and that the
\* key has the parts of its key.
LEMMA VerifiedHolds ==
    ASSUME FileInv, BodyPhase("KDB4", Kdbx4Fields, Kdbx4Required), Kdbx4Error = "none",
           NEW key, key = Challenged(dbKey, HeaderKdfSeed)
    PROVE  \E u \in Makers(origin) : VerifiedBy(u, key)
<1>1. pos \in Nat \ {0, 1} /\ HeaderRead(pos - 1, Kdbx4Fields) /\ \A f \in Kdbx4Required : header[f] # Missing
  BY DEF BodyPhase, HeaderPhase
<1>2. IsSeq(data) /\ IsKey(dbKey) /\ IsSave(origin) /\ DOMAIN data = 1 .. Len(data)
  BY SavesAre DEF FileInv
<1>3. pos + 1 \in DOMAIN data
      /\ data[pos + 1] = <<"hmac", HeaderMac(HeaderHmacKey(key), HeaderData)>>
  BY DEF Kdbx4Error, ChecksIncorrect, Present
<1> DEFINE c == data[pos + 1]
           m == HeaderMac(HeaderHmacKey(key), HeaderData)
<1>4. Genuine(origin, c)
  BY <1>2, <1>3 DEF FileInv, IsFile
<1>5. c[1] = "hmac" /\ c[2] = m
  BY <1>3
<1>6. m # Damaged
  BY DEF HeaderMac, Hmac, Damaged
<1>7. PICK u \in Makers(origin) : u.format = "KDB4" /\ c = HmacCell(u)
  BY <1>4, <1>5, <1>6 DEF Genuine, GenuineMac
<1>8. IsSave(u) /\ IsKey(u.key) /\ u.key = origin.key
  BY <1>2, <1>7, SavesAre
<1>9. HeaderHmacKey(key) = SaveHmacKey(u) /\ HeaderData = OuterHeader(u)
  <2> DEFINE k == HeaderHmacKey(key)
             l == SaveHmacKey(u)
             H == OuterHeader(u)
             D == HeaderData
  <2>1. Hmac(BlockKey(HeaderIndex, k), D) = Hmac(BlockKey(HeaderIndex, l), H)
    <3>1. HmacCell(u)[2] = HeaderMac(SaveHmacKey(u), OuterHeader(u))
      BY DEF HmacCell
    <3> QED  BY <1>5, <1>7, <3>1 DEF HeaderMac
  <2> HIDE DEF k, l, H, D
  <2>2. BlockKey(HeaderIndex, k) = BlockKey(HeaderIndex, l) /\ D = H
    BY <2>1 DEF Hmac
  <2>3. <<HeaderIndex, k>> = <<HeaderIndex, l>>
    BY <2>2 DEF BlockKey, Sha512
  <2>4. k = l
    BY <2>3
  <2> QED  BY <2>2, <2>4 DEF k, l, H, D
<1>10. HeaderIs(u) /\ BeginsWith(data, OuterHeader(u)) /\ data[1] = VersionCell(u)
  BY <1>1, <1>7, <1>9, HeaderTells
<1>11. Kdbx4Required \subseteq Range(u.layout)
  <2> SUFFICES ASSUME NEW f \in Kdbx4Required PROVE f \in Range(u.layout)
    OBVIOUS
  <2>1. f \in Fields
    BY DEF Fields, Kdbx4Required
  <2> QED  BY <1>1, <1>10, <2>1 DEF HeaderIs
<1>12. written = WrittenBlocks(u)
  <2>1. "seed" \in Range(u.layout)
    BY <1>11 DEF Kdbx4Required
  <2> QED  BY <1>7, <1>10, <2>1, WrittenAre
<1>13. header["seed"][1] = <<"seed", u.n>> /\ HeaderKdfSeed = KdfSeed(u) /\ HeaderKdf = u.kdf
       /\ CompositeKey(key) = CompositeKey(SaveKey(u))
  <2>1. SaveHmacKey(u) = HmacOf(header["seed"][1], HeaderKdf, HeaderKdfSeed, key)
    BY <1>9 DEF HeaderHmacKey
  <2> QED  BY <1>8, <2>1, HmacKeyTells
<1>14. MasterOf(header["seed"][1], HeaderKdf, HeaderKdfSeed, key) = SaveMaster(u)
  <2>1. FieldValue(u, "seed") = <<"seed", u.n>>
    BY FieldValues
  <2> QED  BY <1>13, <2>1 DEF MasterOf, SaveMaster
<1>15. SameParts(dbKey, origin.key)
  <2> DEFINE a == KeyElements(key)
             b == KeyElements(SaveKey(u))
  <2>1. Sha256(a) = Sha256(b)
    BY <1>13 DEF CompositeKey
  <2> HIDE DEF a, b
  <2>2. a = b
    BY <2>1 DEF Sha256
  <2>3. KeyElements(Challenged(dbKey, HeaderKdfSeed)) = KeyElements(Challenged(u.key, KdfSeed(u)))
    BY <2>2 DEF SaveKey, a, b
  <2> QED  BY <1>2, <1>8, <2>3, PartsFromElements
<1> QED  BY <1>7, <1>9, <1>10, <1>11, <1>12, <1>14, <1>15 DEF VerifiedBy

\* The step that makes these checks.
LEMMA Kdbx4VerifiedStep ==
    ASSUME OpeningInv, Kdbx4Verified, UNCHANGED origin PROVE OpeningInv'
<1> DEFINE key == Challenged(dbKey, HeaderKdfSeed)
<1>0. FileInv /\ BodyPhase("KDB4", Kdbx4Fields, Kdbx4Required) /\ Kdbx4Error = "none"
  BY DEF OpeningInv, Phases, Kdbx4Verified
<1>1. /\ Fixed /\ hmacKey' = HeaderHmacKey(key) /\ pc' = "blocks" /\ pos' = pos + 2
      /\ masterKey' = MasterOf(header["seed"][1], HeaderKdf, HeaderKdfSeed, key)
      /\ header' = header /\ out' = out /\ index' = index /\ inner' = inner
      /\ data' = data /\ dbKey' = dbKey /\ written' = written /\ origin' = origin
  BY DEF Fixed, Kdbx4Verified, Proceed
<1>2. PICK u \in Makers(origin) : VerifiedBy(u, key)
  <2>1. key = Challenged(dbKey, HeaderKdfSeed)
    OBVIOUS
  <2> HIDE DEF key
  <2> QED  BY <1>0, <2>1, VerifiedHolds
<1> HIDE DEF key
<1>3. Verified(u)'
  BY <1>1, <1>2 DEF Verified, VerifiedBy, HeaderIs, BeginsWith
<1>4. StreamKeyInv'
  BY <1>1, <1>2 DEF StreamKeyInv, VerifiedBy, BeginsWith
<1>5. FileInv'
  BY <1>0, <1>1, FileInvKept
<1>6. pos' \in Nat \ {0} /\ out' = <<>> /\ index' = 0 /\ (inner = NoInner)'
  BY <1>0, <1>1 DEF BodyPhase, HeaderPhase, Fresh, NoInner
<1>7. IsSeq(out') /\ Len(out') = 0 /\ index' = Len(out') /\ DOMAIN out' = {}
  BY <1>6, TuplesAreSeqs
<1>8. PrefixOfWritten'
  <2>1. IsSave(u) /\ u.format = "KDB4" /\ written' = WrittenBlocks(u)
    BY <1>0, <1>1, <1>2, SavesAre DEF VerifiedBy
  <2>2. Len(written') \in Nat
    BY <2>1, BlocksAre, SeqIs
  <2> QED  BY <1>7, <2>2 DEF PrefixOfWritten
<1>9. u \in Makers(origin')
  BY <1>1
<1>10. BlocksPhase'
  BY <1>3, <1>6, <1>7, <1>8, <1>9 DEF BlocksPhase, IsSeq
<1> QED  BY <1>1, <1>4, <1>5, <1>10 DEF OpeningInv, Phases

----------------------------------------------------------------------------
(* The blocks.                                                             *)

\* What they showed stays.
LEMMA VerifiedKept ==
    ASSUME NEW u, Verified(u), Fixed, hmacKey' = hmacKey, masterKey' = masterKey, header' = header
    PROVE  Verified(u)'
BY DEF Verified, Fixed, HeaderIs, BeginsWith

\* One more block of the stream is read.
LEMMA ReadBlockStep ==
    ASSUME OpeningInv, ReadBlock, UNCHANGED <<op, dbKey, devices, containerVars>>, UNCHANGED origin
    PROVE  OpeningInv'
<1>0. FileInv /\ StreamKeyInv /\ BlocksPhase /\ pc = "blocks"
  BY DEF OpeningInv, Phases, ReadBlock
<1>1. PICK u \in Makers(origin) :
          Verified(u) /\ pos \in Nat \ {0} /\ IsSeq(out) /\ index = Len(out) /\ PrefixOfWritten
          /\ inner = NoInner
  BY <1>0 DEF BlocksPhase
<1>2. /\ Fixed /\ hmacKey' = hmacKey /\ masterKey' = masterKey /\ header' = header /\ inner' = inner
      /\ origin' = origin /\ written' = written /\ pc' = "blocks"
      /\ out' = Added(out, CellsAt(pos)) /\ pos' = pos + 1 + data[pos][3] /\ index' = index + 1
      /\ data[pos][3] \in Nat
  BY <1>0 DEF Fixed, ReadBlock, containerVars, Added, NextIndex, BlockAt
<1>3. index < Len(written) /\ CellsAt(pos) = written[index + 1]
  <2>1. pos \in DOMAIN data /\ BlockAt(pos) /\ Verifies(pos, index) /\ data[pos][3] > 0
    BY DEF ReadBlock, BlockAt
  <2> QED  BY <1>0, <2>1, UnforgedAt
<1>4. FileInv' /\ StreamKeyInv' /\ Verified(u)'
  BY <1>0, <1>1, <1>2, FileInvKept, StreamKeyKept, VerifiedKept
<1>5. /\ IsSeq(out') /\ Len(out') = Len(out) + 1
      /\ \A i \in 1 .. Len(out) : out'[i] = out[i]
      /\ out'[Len(out) + 1] = written[index + 1]
  BY <1>1, <1>2, <1>3, AddedIs
<1>6. Len(written) \in Nat /\ Len(out) \in Nat /\ DOMAIN out = 1 .. Len(out)
      /\ DOMAIN out' = 1 .. Len(out')
  <2>1. IsSave(u) /\ u.format = "KDB4" /\ written = WrittenBlocks(u)
    BY <1>0, <1>1, SavesAre DEF Verified
  <2> QED  BY <1>1, <1>5, <2>1, BlocksAre, SeqIs
<1>7. PrefixOfWritten'
  <2>1. \A i \in 1 .. Len(out) : out[i] = written[i]
    BY <1>1, <1>6 DEF PrefixOfWritten
  <2>2. Len(out') <= Len(written)
    BY <1>1, <1>3, <1>5, <1>6
  <2>3. \A i \in DOMAIN out' : i \in 1 .. Len(out) \/ i = Len(out) + 1
    BY <1>5, <1>6
  <2>4. \A i \in DOMAIN out' : out'[i] = written[i]
    BY <1>1, <1>5, <2>1, <2>3
  <2> QED  BY <1>2, <2>2, <2>4 DEF PrefixOfWritten
<1>8. pos' \in Nat \ {0} /\ index' = Len(out') /\ inner' = NoInner
  BY <1>1, <1>2, <1>5
<1>9. BlocksPhase'
  BY <1>1, <1>2, <1>4, <1>5, <1>7, <1>8 DEF BlocksPhase, IsSeq, NoInner
<1> QED  BY <1>2, <1>4, <1>9 DEF OpeningInv, Phases

\* The stream ends, at its empty block or with the file.
LEMMA StreamEndsStep ==
    ASSUME OpeningInv, LastBlock \/ EndOfStream,
           UNCHANGED <<op, dbKey, devices, containerVars>>, UNCHANGED origin
    PROVE  OpeningInv'
<1>0. FileInv /\ StreamKeyInv /\ BlocksPhase
  BY DEF OpeningInv, Phases, LastBlock, EndOfStream
<1>1. PICK u \in Makers(origin) : Verified(u) /\ IsSeq(out) /\ PrefixOfWritten /\ inner = NoInner
  BY <1>0 DEF BlocksPhase
<1>2. /\ Fixed /\ hmacKey' = hmacKey /\ masterKey' = masterKey /\ header' = header /\ inner' = inner
      /\ origin' = origin /\ written' = written /\ pc' = "decrypt" /\ out' = out
  BY DEF Fixed, LastBlock, EndOfStream, Proceed, containerVars
<1>3. FileInv' /\ StreamKeyInv' /\ Verified(u)'
  BY <1>0, <1>1, <1>2, FileInvKept, StreamKeyKept, VerifiedKept
<1>4. Decrypt4Phase'
  BY <1>1, <1>2, <1>3 DEF Decrypt4Phase, IsSeq, PrefixOfWritten, NoInner
<1> QED  BY <1>2, <1>3, <1>4 DEF OpeningInv, Phases

\* Any step in the stream.
LEMMA Kdbx4BlockStep ==
    ASSUME OpeningInv, Kdbx4Block, UNCHANGED origin PROVE OpeningInv'
<1>1. CASE BrokenBlock
  <2>1. Fixed /\ hmacKey' = hmacKey /\ pc' = "done" /\ result'.kind # "opened"
    BY <1>1 DEF Fixed, BrokenBlock, Kdbx4Block, Fail, Failure
  <2> QED  BY <2>1, Returns
<1>2. CASE ReadBlock
  BY <1>2, ReadBlockStep DEF Kdbx4Block
<1>3. CASE LastBlock \/ EndOfStream
  BY <1>3, StreamEndsStep DEF Kdbx4Block
<1> QED  BY <1>1, <1>2, <1>3 DEF Kdbx4Block, ReadStream

----------------------------------------------------------------------------
(* Deciphering.                                                            *)

\* What a cipher makes of a cell.
LEMMA DecipheredIs ==
    ASSUME NEW cipher, NEW key, NEW iv, NEW cells, IsSeq(cells),
           NEW D, D = Deciphered(cipher, key, iv, cells)
    PROVE  /\ IsSeq(D) /\ Len(D) = Len(cells)
           /\ \A i \in 1 .. Len(cells) :
                D[i] = IF Recovers(cipher, key, iv, cells, i) THEN cells[i][4] ELSE Garbage
<1>1. DOMAIN cells = 1 .. Len(cells) /\ Len(cells) \in Nat
  BY SeqIs
<1>2. PICK n \in Nat : n = Len(cells)
  BY <1>1
<1>3. D = [i \in 1 .. n |-> IF Recovers(cipher, key, iv, cells, i) THEN cells[i][4] ELSE Garbage]
  <2>1. DOMAIN cells = 1 .. n
    BY <1>1, <1>2
  <2> QED  BY <2>1, Zenon DEF Deciphered
<1>4. D = [i \in 1 .. n |-> D[i]]
  BY <1>3
<1>5. IsSeq(D) /\ Len(D) = n
  BY <1>4, FunctionIsSeq
<1> QED  BY <1>2, <1>3, <1>5

\* What may be taken for what was deciphered.
LEMMA PaddingTaken ==
    ASSUME NEW D, IsSeq(D), NEW cipher, NEW q,
           \/ q = D
           \/ Padded(D) /\ q = Unpadded(cipher, D)
           \/ D # <<>> /\ q = Append(Front(D), Garbage)
    PROVE  Near(q, D)
<1>0. Len(D) \in Nat /\ DOMAIN D = 1 .. Len(D)
  BY SeqIs
<1>1. CASE q = D
  BY <1>0, <1>1 DEF Near
<1>2. CASE D # <<>> /\ q # D
  <2>1. Len(D) # 0
    BY <1>2 DEF IsSeq
  <2>a. Len(D) - 1 \in Nat /\ Len(D) - 1 \in 0 .. Len(D)
    BY <1>0, <2>1
  <2>2. PICK n \in Nat : n = Len(D) - 1 /\ n \in 0 .. Len(D)
    BY <2>a
  <2> DEFINE f == Part(D, 1, n)
  <2>3. IsSeq(f) /\ Len(f) = n /\ \A i \in 1 .. n : f[i] = D[i]
    BY <2>2, PartOfBeginning
  <2>4. q = f \/ q = Added(f, Garbage)
    BY <1>2, <2>2 DEF Unpadded, Front, Part, Added
  <2> HIDE DEF f
  <2>5. CASE q = f
    BY <1>0, <2>2, <2>3, <2>5 DEF Near
  <2>6. CASE q = Added(f, Garbage)
    <3>1. /\ IsSeq(q) /\ Len(q) = n + 1 /\ q[n + 1] = Garbage
          /\ \A i \in 1 .. n : q[i] = f[i]
      BY <2>3, <2>6, AddedIs
    <3>2. \A i \in 1 .. n + 1 : i \in 1 .. n \/ i = n + 1
      OBVIOUS
    <3> QED  BY <2>2, <2>3, <3>1, <3>2 DEF Near
  <2> QED  BY <2>4, <2>5, <2>6
<1>3. Padded(D) => D # <<>>
  BY DEF Padded
<1> QED  BY <1>1, <1>2, <1>3

\* Deciphering fails, or leaves the payload but for its last cell.
LEMMA DecipherStep ==
    ASSUME NEW cells, IsSeq(cells), NEW to, Decipher(cells, to), NEW D,
           D = Deciphered(header["cipher"][1][1], masterKey, header["iv"][1], cells)
    PROVE  \/ pc' = "done" /\ result'.kind # "opened"
           \/ pc' = to /\ Near(payload', D)
<1>1. IsSeq(D)
  BY DecipheredIs
<1>2. \/ pc' = "done" /\ result'.kind # "opened"
      \/ pc' = to /\ payload' = D
      \/ pc' = to /\ Padded(D) /\ payload' = Unpadded(header["cipher"][1][1], D)
      \/ pc' = to /\ D # <<>> /\ payload' = Append(Front(D), Garbage)
  BY DEF Decipher, Proceed, Fail, Failure
<1> QED  BY <1>1, <1>2, PaddingTaken

\* The beginning of something whose beginning is deciphered.
LEMMA NearBeginning ==
    ASSUME NEW q, NEW D, Near(q, D), NEW P, IsSeq(D), IsSeq(P), Len(D) <= Len(P),
           \A i \in 1 .. Len(D) : D[i] = P[i]
    PROVE  Near(q, P)
<1>1. IsSeq(q) /\ Len(q) \in Nat /\ Len(D) \in Nat /\ Len(P) \in Nat /\ Len(q) <= Len(D)
      /\ \A i \in 1 .. Len(q) : q[i] = D[i] \/ (i = Len(q) /\ q[i] = Garbage)
  BY SeqIs DEF Near
<1>2. \A i \in 1 .. Len(q) : i \in 1 .. Len(D)
  BY <1>1
<1> QED  BY <1>1, <1>2 DEF Near

\* The blocks that are read, one after another, are the beginning of the ciphertext.
LEMMA OutIsBeginning ==
    ASSUME NEW u, IsSave(u), u.format = "KDB4", NEW q, IsSeq(q),
           Len(q) <= Len(WrittenBlocks(u)), \A i \in 1 .. Len(q) : q[i] = WrittenBlocks(u)[i],
           NEW E, E = Secret(u), NEW cells, cells = FlattenSeq(q)
    PROVE  /\ IsSeq(cells) /\ Len(cells) <= Len(E)
           /\ \A i \in 1 .. Len(cells) : cells[i] = E[i]
<1> DEFINE W == WrittenBlocks(u)
<1>0. IsSeq(E) /\ Len(E) \in Nat /\ Len(q) \in Nat
  <2>1. IsSeq(E)
    BY SecretIs
  <2> QED  BY <2>1, SeqIs
<1>1. IsSeq(W) /\ Len(W) \in Nat /\ \E end : Tiles(W, E, end)
  BY BlocksAre, SeqIs
<1>2. PICK end : Tiles(W, E, end)
  BY <1>1
<1>3. CASE Len(q) = 0
  <2>1. cells = q
    BY <1>3, FlattenIs
  <2> QED  BY <1>0, <1>3, <2>1
<1>4. CASE Len(q) # 0
  <2>1. \A i \in 1 .. Len(q) : i \in 1 .. Len(W) /\ q[i] = W[i]
    BY <1>0, <1>1
  <2>2. Tiles(q, E, end)
    <3> HIDE DEF W
    <3> QED  BY <1>2, <2>1 DEF Tiles
  <2>3. cells = Part(E, 1, end[Len(q)])
    BY <1>0, <1>4, <2>2, TilesFlatten
  <2>4. Len(q) \in 1 .. Len(q)
    BY <1>0, <1>4
  <2>5. PICK n \in 0 .. Len(E) : n = end[Len(q)]
    BY <2>2, <2>4 DEF Tiles
  <2>6. IsSeq(cells) /\ Len(cells) = n /\ \A i \in 1 .. n : cells[i] = E[i]
    BY <1>0, <2>3, <2>5, PartOfBeginning
  <2> QED  BY <1>0, <2>5, <2>6
<1> QED  BY <1>3, <1>4

\* The payload of a KDBX4 file is deciphered.
LEMMA Kdbx4DecryptStep ==
    ASSUME OpeningInv, Kdbx4Decrypt, UNCHANGED origin PROVE OpeningInv'
<1>0. FileInv /\ StreamKeyInv /\ Decrypt4Phase /\ Decipher(FlattenSeq(out), "inflate")
  BY DEF OpeningInv, Phases, Kdbx4Decrypt
<1>1. PICK u \in Makers(origin) : Verified(u) /\ IsSeq(out) /\ PrefixOfWritten /\ inner = NoInner
  BY <1>0 DEF Decrypt4Phase
<1>2. /\ Fixed /\ hmacKey' = hmacKey /\ masterKey' = masterKey /\ header' = header /\ inner' = inner
      /\ origin' = origin
  BY DEF Fixed, Kdbx4Decrypt
<1>3. FileInv' /\ StreamKeyInv' /\ Verified(u)'
  BY <1>0, <1>1, <1>2, FileInvKept, StreamKeyKept, VerifiedKept
<1>4. IsSave(u) /\ u.format = "KDB4" /\ written = WrittenBlocks(u) /\ masterKey = FileMaster(u)
      /\ header["cipher"][1][1] = u.outer /\ header["iv"][1] = FieldValue(u, "iv")
  <2>1. IsSave(u) /\ u.format = "KDB4" /\ written = WrittenBlocks(u) /\ masterKey = SaveMaster(u)
    BY <1>0, <1>1, SavesAre DEF Verified
  <2>2. "cipher" \in Fields /\ "iv" \in Fields /\ "cipher" \in Range(u.layout) /\ "iv" \in Range(u.layout)
    BY <1>1 DEF Verified, Kdbx4Required, Fields
  <2>3. header["cipher"] = Some(FieldValue(u, "cipher")) /\ header["iv"] = Some(FieldValue(u, "iv"))
    BY <1>1, <2>2 DEF Verified, HeaderIs
  <2>a. FieldValue(u, "cipher") = <<u.outer>>
    BY FieldValues
  <2>4. FieldValue(u, "cipher")[1] = u.outer
    BY <2>a
  <2>5. header["cipher"][1][1] = u.outer /\ header["iv"][1] = FieldValue(u, "iv")
    BY <2>3, <2>4 DEF Some
  <2> QED  BY <2>1, <2>5 DEF FileMaster
<1> DEFINE cells == FlattenSeq(out)
           E == Secret(u)
           P == WithPadding(u.outer, FilePayload(u))
           D == Deciphered(u.outer, FileMaster(u), FieldValue(u, "iv"), cells)
<1>5. /\ IsSeq(cells) /\ Len(cells) <= Len(E)
      /\ \A i \in 1 .. Len(cells) : cells[i] = E[i]
  <2>1. DOMAIN out = 1 .. Len(out)
    BY <1>1, SeqIs
  <2>2. Len(out) <= Len(WrittenBlocks(u)) /\ \A i \in 1 .. Len(out) : out[i] = WrittenBlocks(u)[i]
    BY <1>1, <1>4, <2>1 DEF PrefixOfWritten
  <2> QED  BY <1>1, <1>4, <2>2, OutIsBeginning
<1>6. IsSeq(FilePayload(u)) /\ IsSeq(P) /\ Len(E) = Len(P)
  BY <1>4, SecretIs
<1>7. /\ IsSeq(D) /\ Len(D) = Len(cells) /\ \A i \in 1 .. Len(cells) : D[i] = P[i]
  <2>1. E = Encrypted(u.outer, FileMaster(u), FieldValue(u, "iv"), FilePayload(u))
    BY DEF Secret
  <2>2. D = Deciphered(u.outer, FileMaster(u), FieldValue(u, "iv"), cells)
        /\ P = WithPadding(u.outer, FilePayload(u))
    OBVIOUS
  <2> HIDE DEF D, E, P, cells
  <2> QED  BY <1>5, <1>6, <2>1, <2>2, BeginningDeciphered
<1>8. \/ pc' = "done" /\ result'.kind # "opened"
      \/ pc' = "inflate" /\ Near(payload', D)
  <2>1. D = Deciphered(header["cipher"][1][1], masterKey, header["iv"][1], cells)
    BY <1>4
  <2>2. Decipher(cells, "inflate")
    BY <1>0
  <2> HIDE DEF D, cells
  <2> QED  BY <1>5, <2>1, <2>2, DecipherStep
<1>9. CASE pc' = "done" /\ result'.kind # "opened"
  BY <1>2, <1>9, Returns
<1>10. CASE pc' = "inflate" /\ Near(payload', D)
  <2>1. Near(payload', P)
    <3> HIDE DEF D, E, P, cells
    <3> QED  BY <1>5, <1>6, <1>7, <1>10, NearBeginning
  <2>2. Inflate4Phase'
    BY <1>1, <1>2, <1>3, <2>1 DEF Inflate4Phase, NoInner
  <2> QED  BY <1>3, <1>10, <2>2 DEF OpeningInv, Phases
<1> QED  BY <1>8, <1>9, <1>10

----------------------------------------------------------------------------
(* The inner header and the document.                                      *)

\* The two fields of the inner header that say how secrets are enciphered.
IdName == "stream id"
KeyName == "stream key"

\* The fields of the inner header differ.
LEMMA InnerNames ==
    /\ IdName # KeyName /\ IdName # "binary" /\ KeyName # "binary"
    /\ IdName # "end" /\ KeyName # "end"
BY Zenon DEF IdName, KeyName

BodyCell(u) == <<"xml", "body", <<u.db, u.inner, StreamKey(u)>>>>

InnerLaid(u, P, a) ==
    /\ a \in Nat /\ IsSeq(P) /\ Len(P) \in {a + 6, a + 7}
    /\ P[1] = <<"inner", IdName, <<u.inner>>>>
    /\ P[2] = <<"inner", KeyName, StreamKey(u)>>
    /\ \A i \in 1 .. a : P[2 + i] = <<"inner", "binary", u.attachments[i]>>
    /\ P[a + 3] = <<"inner", "end", <<>>>>
    /\ P[a + 4] = <<"xml", "open">> /\ P[a + 5] = BodyCell(u) /\ P[a + 6] = <<"xml", "close">>
    /\ Len(P) = a + 7 => P[a + 7] = Padding

\* The cells of the payload of a KDBX4 file, which end with the padding or not.
LEMMA InnerDocumentIs ==
    ASSUME NEW u, IsSave(u), NEW P, P = InnerDocument(u) \/ P = PaddedDocument(u),
           NEW a, a = Len(u.attachments)
    PROVE  InnerLaid(u, P, a)
<1> DEFINE c1 == <<"inner", IdName, <<u.inner>>>>
           c2 == <<"inner", KeyName, StreamKey(u)>>
           v == <<c1, c2>>
           g == [i \in DOMAIN u.attachments |-> <<"inner", "binary", u.attachments[i]>>]
           c3 == <<"inner", "end", <<>>>>
           e == <<c3>>
           x1 == <<"xml", "open">>
           x2 == BodyCell(u)
           x3 == <<"xml", "close">>
           d == <<x1, x2, x3>>
           r == Joined(v, g)
           t == Joined(r, e)
           D == Joined(t, d)
<1>0. a \in Nat /\ DOMAIN u.attachments = 1 .. a
  BY DEF IsSave
<1>1. P = D \/ P = Added(D, Padding)
  BY DEF InnerDocument, PaddedDocument, InnerHeader, Document, BodyCell, Joined, WithPadding,
           Added, IdName, KeyName
<1>2. IsSeq(v) /\ Len(v) = 2 /\ IsSeq(e) /\ Len(e) = 1 /\ IsSeq(d) /\ Len(d) = 3
  <2> HIDE DEF c1, c2, c3, x1, x2, x3
  <2> QED  BY TuplesAreSeqs
<1>3. v[1] = c1 /\ v[2] = c2 /\ e[1] = c3 /\ d[1] = x1 /\ d[2] = x2 /\ d[3] = x3
  <2> HIDE DEF c1, c2, c3, x1, x2, x3
  <2> QED  OBVIOUS
<1>4. IsSeq(g) /\ Len(g) = a /\ \A i \in 1 .. a : g[i] = <<"inner", "binary", u.attachments[i]>>
  <2>1. g = [i \in 1 .. a |-> g[i]]
    BY <1>0
  <2>2. IsSeq(g) /\ Len(g) = a
    <3> HIDE DEF g
    <3> QED  BY <1>0, <2>1, FunctionIsSeq
  <2>3. \A i \in 1 .. a : g[i] = <<"inner", "binary", u.attachments[i]>>
    BY <1>0
  <2> QED  BY <2>2, <2>3
<1> HIDE DEF v, g, e, d
<1>5. JoinsTo(v, g, r, 2, a)
  <2> HIDE DEF r
  <2>1. r = Joined(v, g)
    BY DEF r
  <2> QED  BY <1>2, <1>4, <2>1, JoinedAt
<1>6. IsSeq(r) /\ Len(r) = 2 + a
  BY <1>5 DEF JoinsTo
<1>7. JoinsTo(r, e, t, 2 + a, 1)
  <2>1. t = Joined(r, e) /\ 2 + a = Len(r) /\ 1 = Len(e)
    BY <1>2, <1>6
  <2> HIDE DEF r, t
  <2> QED  BY <1>2, <1>6, <2>1, JoinedAt
<1>8. IsSeq(t) /\ Len(t) = a + 3
  BY <1>0, <1>7 DEF JoinsTo
<1>9. JoinsTo(t, d, D, a + 3, 3)
  <2>1. D = Joined(t, d) /\ a + 3 = Len(t) /\ 3 = Len(d)
    BY <1>2, <1>8
  <2> HIDE DEF t, D
  <2> QED  BY <1>2, <1>8, <2>1, JoinedAt
<1> HIDE DEF r, t, D
<1>10. IsSeq(D) /\ Len(D) = a + 6
  BY <1>0, <1>9 DEF JoinsTo
<1>11. D[1] = c1 /\ D[2] = c2
  <2>1. 1 \in 1 .. 2 /\ 2 \in 1 .. 2 /\ 1 \in 1 .. 2 + a /\ 2 \in 1 .. 2 + a
        /\ 1 \in 1 .. a + 3 /\ 2 \in 1 .. a + 3
    BY <1>0
  <2>2. r[1] = v[1] /\ r[2] = v[2]
    BY <1>5, <2>1 DEF JoinsTo
  <2>3. t[1] = r[1] /\ t[2] = r[2]
    BY <1>7, <2>1 DEF JoinsTo
  <2>4. D[1] = t[1] /\ D[2] = t[2]
    BY <1>9, <2>1 DEF JoinsTo
  <2> QED  BY <1>3, <2>2, <2>3, <2>4
<1>12. ASSUME NEW i \in 1 .. a PROVE D[2 + i] = <<"inner", "binary", u.attachments[i]>>
  <2>1. 2 + i \in 1 .. 2 + a /\ 2 + i \in 1 .. a + 3
    BY <1>0
  <2>2. r[2 + i] = g[i]
    BY <1>5 DEF JoinsTo
  <2>3. t[2 + i] = r[2 + i]
    BY <1>7, <2>1 DEF JoinsTo
  <2>4. D[2 + i] = t[2 + i]
    BY <1>9, <2>1 DEF JoinsTo
  <2> QED  BY <1>4, <2>2, <2>3, <2>4
<1>13. D[a + 3] = c3
  <2>1. 1 \in 1 .. 1 /\ (2 + a) + 1 = a + 3 /\ a + 3 \in 1 .. a + 3
    BY <1>0
  <2>2. t[(2 + a) + 1] = e[1]
    BY <1>7, <2>1 DEF JoinsTo
  <2>3. D[a + 3] = t[a + 3]
    BY <1>9, <2>1 DEF JoinsTo
  <2> QED  BY <1>3, <2>1, <2>2, <2>3
<1>14. D[a + 4] = x1 /\ D[a + 5] = x2 /\ D[a + 6] = x3
  <2>1. 1 \in 1 .. 3 /\ 2 \in 1 .. 3 /\ 3 \in 1 .. 3
        /\ (a + 3) + 1 = a + 4 /\ (a + 3) + 2 = a + 5 /\ (a + 3) + 3 = a + 6
    BY <1>0
  <2>2. D[(a + 3) + 1] = d[1] /\ D[(a + 3) + 2] = d[2] /\ D[(a + 3) + 3] = d[3]
    BY <1>9, <2>1 DEF JoinsTo
  <2> QED  BY <1>3, <2>1, <2>2
<1> HIDE DEF c1, c2, c3, x1, x2, x3
<1>15. CASE P = D
  <2>1. /\ P[1] = c1 /\ P[2] = c2 /\ P[a + 3] = c3 /\ P[a + 4] = x1 /\ P[a + 5] = x2 /\ P[a + 6] = x3
        /\ \A i \in 1 .. a : P[2 + i] = <<"inner", "binary", u.attachments[i]>>
    BY <1>11, <1>12, <1>13, <1>14, <1>15
  <2>2. IsSeq(P) /\ Len(P) = a + 6 /\ Len(P) # a + 7
    BY <1>0, <1>10, <1>15
  <2> QED  BY <1>0, <2>1, <2>2 DEF InnerLaid, c1, c2, c3, x1, x2, x3
<1>16. CASE P = Added(D, Padding)
  <2>1. IsSeq(P) /\ Len(P) = a + 7 /\ P[a + 7] = Padding /\ \A i \in 1 .. a + 6 : P[i] = D[i]
    <3>1. /\ IsSeq(P) /\ Len(P) = (a + 6) + 1 /\ \A i \in 1 .. a + 6 : P[i] = D[i]
          /\ P[(a + 6) + 1] = Padding
      BY <1>10, <1>16, AddedIs
    <3> QED  BY <1>0, <3>1
  <2>2. /\ 1 \in 1 .. a + 6 /\ 2 \in 1 .. a + 6 /\ a + 3 \in 1 .. a + 6 /\ a + 4 \in 1 .. a + 6
        /\ a + 5 \in 1 .. a + 6 /\ a + 6 \in 1 .. a + 6
        /\ \A i \in 1 .. a : 2 + i \in 1 .. a + 6
    BY <1>0
  <2>3. /\ P[1] = c1 /\ P[2] = c2 /\ P[a + 3] = c3 /\ P[a + 4] = x1 /\ P[a + 5] = x2 /\ P[a + 6] = x3
        /\ \A i \in 1 .. a : P[2 + i] = <<"inner", "binary", u.attachments[i]>>
    BY <1>11, <1>12, <1>13, <1>14, <2>1, <2>2
  <2> QED  BY <1>0, <2>1, <2>3 DEF InnerLaid, c1, c2, c3, x1, x2, x3
<1> QED  BY <1>1, <1>15, <1>16

\* The payload of a KDBX4 file is decompressed.
LEMMA Kdbx4InflateStep ==
    ASSUME OpeningInv, Kdbx4Inflate, UNCHANGED origin PROVE OpeningInv'
<1>0. FileInv /\ StreamKeyInv /\ Inflate4Phase /\ Inflate(payload, "inner")
  BY DEF OpeningInv, Phases, Kdbx4Inflate
<1> DEFINE P(u) == WithPadding(u.outer, FilePayload(u))
<1>1. PICK u \in Makers(origin) : Verified(u) /\ Near(payload, P(u)) /\ inner = NoInner
  BY <1>0 DEF Inflate4Phase
<1>2. /\ Fixed /\ hmacKey' = hmacKey /\ masterKey' = masterKey /\ header' = header /\ inner' = inner
      /\ origin' = origin /\ pos' = 1
  BY DEF Fixed, Kdbx4Inflate
<1>3. FileInv' /\ StreamKeyInv' /\ Verified(u)'
  BY <1>0, <1>1, <1>2, FileInvKept, StreamKeyKept, VerifiedKept
<1>4. IsSave(u) /\ u.format = "KDB4" /\ header["compression"][1][1] = u.compression
      /\ u.compression \in {"None", "GZip"}
  <2>1. IsSave(u) /\ u.format = "KDB4"
    BY <1>0, <1>1, SavesAre DEF Verified
  <2>2. "compression" \in Fields /\ "compression" \in Range(u.layout)
    BY <1>1 DEF Verified, Kdbx4Required, Fields
  <2>3. header["compression"] = Some(FieldValue(u, "compression"))
    BY <1>1, <2>2 DEF Verified, HeaderIs
  <2>4. FieldValue(u, "compression") = <<u.compression>>
    BY FieldValues
  <2>5. header["compression"][1][1] = u.compression
    BY <2>3, <2>4 DEF Some
  <2>6. u.compression \in {"None", "GZip"}
    BY <2>1 DEF IsSave, Compressions
  <2> QED  BY <2>1, <2>5, <2>6
<1>5. \/ pc' = "done" /\ result'.kind # "opened"
      \/ /\ pc' = "inner" /\ Inflates(u.compression, payload)
         /\ payload' = Inflated(u.compression, payload)
  BY <1>0, <1>4 DEF Inflate, Proceed, Fail, Failure
<1>6. CASE pc' = "done" /\ result'.kind # "opened"
  BY <1>2, <1>6, Returns
<1>7. CASE /\ pc' = "inner" /\ Inflates(u.compression, payload)
           /\ payload' = Inflated(u.compression, payload)
  <2> DEFINE I == InnerDocument(u)
             Q == PaddedDocument(u)
             a == Len(u.attachments)
  <2>0. InnerLaid(u, I, a) /\ InnerLaid(u, Q, a)
    <3>1. I = InnerDocument(u) /\ Q = PaddedDocument(u) /\ a = Len(u.attachments)
      OBVIOUS
    <3> HIDE DEF I, Q, a
    <3> QED  BY <1>4, <3>1, InnerDocumentIs
  <2>a. IsSeq(I) /\ IsSeq(Q) /\ a \in Nat
    BY <2>0 DEF InnerLaid
  <2>1. Near(payload', Q)
    <3>1. CASE u.compression = "None"
      <4>1. P(u) = Q
        BY <1>4, <3>1 DEF FilePayload, Compressed, PaddedDocument, InnerDocument
      <4> QED  BY <1>1, <1>7, <3>1, <4>1 DEF Inflated
    <3>2. CASE u.compression = "GZip"
      <4> DEFINE c1 == <<"gzip", 1, I>>
                 c2 == <<"gzip", 2, I>>
                 pp == P(u)
      <4>1. pp = WithPadding(u.outer, <<c1, c2>>)
        BY <1>4, <3>2 DEF FilePayload, Compressed, InnerDocument
      <4>2. pp[1] = c1
        <5> HIDE DEF c1, c2, pp
        <5>1. IsSeq(<<c1, c2>>) /\ Len(<<c1, c2>>) = 2 /\ <<c1, c2>>[1] = c1
          BY TuplesAreSeqs
        <5> DEFINE v == <<c1, c2>>
        <5>2. pp = v \/ pp = Added(v, Padding)
          BY <4>1 DEF WithPadding, Added
        <5> HIDE DEF v
        <5>3. v[1] = c1 /\ IsSeq(v) /\ Len(v) = 2 /\ 1 \in 1 .. Len(v)
          BY <5>1 DEF v
        <5> QED  BY <5>2, <5>3, AddedIs
      <4>3. Len(payload) >= 2 /\ payload[1][1] = "gzip" /\ payload' = payload[1][3]
        BY <1>7, <3>2 DEF Inflates, Inflated
      <4>4. payload[1] = pp[1]
        <5>1. 1 \in 1 .. Len(payload) /\ IsSeq(payload) /\ Len(payload) \in Nat
          BY <1>1, <4>3, SeqIs DEF Near
        <5> HIDE DEF pp
        <5>2. payload[1] = pp[1] \/ payload[1] = Garbage
          BY <1>1, <5>1 DEF Near, pp
        <5> QED  BY <4>3, <5>2 DEF Garbage
      <4>5. payload' = I
        <5>1. payload' = c1[3]
          BY <4>2, <4>3, <4>4
        <5> HIDE DEF I
        <5> QED  BY <5>1
      <4>6. Len(I) <= Len(Q) /\ \A i \in 1 .. Len(I) : I[i] = Q[i]
        <5>1. Q = I \/ Q = Added(I, Padding)
          BY DEF PaddedDocument, WithPadding, Added
        <5> HIDE DEF I, Q
        <5>2. Len(I) \in Nat
          BY <2>a, SeqIs
        <5>3. CASE Q = Added(I, Padding)
          <6>1. Len(Q) = Len(I) + 1 /\ \A i \in 1 .. Len(I) : Q[i] = I[i]
            BY <2>a, <5>3, AddedIs
          <6> QED  BY <5>2, <6>1
        <5> QED  BY <5>1, <5>2, <5>3
      <4> HIDE DEF I, Q
      <4> QED  BY <2>a, <4>5, <4>6 DEF Near
    <3> QED  BY <1>4, <3>1, <3>2
  <2>2. inner' = [id |-> Missing, key |-> Missing, attachments |-> <<>>]
    BY <1>1, <1>2 DEF NoInner
  <2>3. /\ inner'.id = Missing /\ inner'.key = Missing /\ inner'.attachments = <<>>
        /\ inner' = [id |-> inner'.id, key |-> inner'.key, attachments |-> inner'.attachments]
    BY <2>2
  <2>4. IsSeq(inner'.attachments) /\ Len(inner'.attachments) = 0
    BY <2>3, TuplesAreSeqs
  <2>5. pos' - 1 = 0 /\ 0 \in 0 .. a + 2 /\ pos' \in Nat \ {0}
    BY <1>2, <2>a
  <2>6. InnerRead(u, pos - 1)'
    BY <2>3, <2>4, <2>5 DEF InnerRead, IsSeq
  <2>7. InnerPhase'
    BY <1>2, <1>3, <2>1, <2>3, <2>5, <2>6 DEF InnerPhase
  <2> QED  BY <1>3, <1>7, <2>7 DEF OpeningInv, Phases
<1> QED  BY <1>5, <1>6, <1>7

\* What looks like a field of the inner header is one.
LEMMA InnerCellIs ==
    ASSUME NEW u, NEW Q, NEW a, InnerLaid(u, Q, a), Near(payload, Q),
           pos \in Nat \ {0}, pos <= Len(payload), payload[pos][1] = "inner"
    PROVE  pos \in 1 .. a + 3 /\ payload[pos] = Q[pos]
<1>0. a \in Nat /\ Len(Q) \in {a + 6, a + 7} /\ IsSeq(Q) /\ IsSeq(payload)
      /\ Len(payload) \in Nat /\ Len(payload) <= Len(Q)
  BY SeqIs DEF InnerLaid, Near
<1>1. pos \in 1 .. Len(payload) /\ pos \in 1 .. Len(Q)
  BY <1>0
<1>2. payload[pos] = Q[pos]
  BY <1>1 DEF Near, Garbage
<1>3. pos # a + 4
  <2>1. Q[a + 4] = <<"xml", "open">>
    BY DEF InnerLaid
  <2> QED  BY <1>2, <2>1
<1>4. pos # a + 5
  <2>1. Q[a + 5] = BodyCell(u)
    BY DEF InnerLaid
  <2> QED  BY <1>2, <2>1 DEF BodyCell
<1>5. pos # a + 6
  <2>1. Q[a + 6] = <<"xml", "close">>
    BY DEF InnerLaid
  <2> QED  BY <1>2, <2>1
<1>6. pos # a + 7
  <2> SUFFICES ASSUME pos = a + 7 PROVE FALSE
    OBVIOUS
  <2>1. Len(Q) = a + 7
    BY <1>0, <1>1
  <2>2. Q[a + 7] = Padding
    BY <2>1 DEF InnerLaid
  <2> QED  BY <1>2, <2>2 DEF Padding
<1> QED  BY <1>0, <1>1, <1>2, <1>3, <1>4, <1>5, <1>6

\* One more field of the inner header is read (parse_inner_header).
LEMMA InnerFieldStep ==
    ASSUME OpeningInv, InnerField, UNCHANGED origin PROVE OpeningInv'
<1>0. FileInv /\ StreamKeyInv /\ InnerPhase
  BY DEF OpeningInv, Phases, InnerField
<1>1. PICK u \in Makers(origin) :
           Verified(u) /\ Near(payload, PaddedDocument(u)) /\ pos \in Nat \ {0}
           /\ inner = [id |-> inner.id, key |-> inner.key, attachments |-> inner.attachments]
           /\ InnerRead(u, pos - 1)
  BY <1>0 DEF InnerPhase
<1>2. /\ Fixed /\ hmacKey' = hmacKey /\ masterKey' = masterKey /\ header' = header
      /\ payload' = payload /\ origin' = origin /\ pos' = pos + 1 /\ pc' = "inner"
  BY DEF Fixed, InnerField, Advanced
<1>3. FileInv' /\ StreamKeyInv' /\ Verified(u)'
  BY <1>0, <1>1, <1>2, FileInvKept, StreamKeyKept, VerifiedKept
<1> DEFINE Q == PaddedDocument(u)
           a == Len(u.attachments)
           v == payload[pos][3]
<1>4. IsSave(u)
  BY <1>0, SavesAre
<1>5. InnerLaid(u, Q, a)
  <2>1. Q = PaddedDocument(u) /\ a = Len(u.attachments)
    OBVIOUS
  <2> HIDE DEF Q, a
  <2> QED  BY <1>4, <2>1, InnerDocumentIs
<1>6. pos <= Len(payload) /\ payload[pos][1] = "inner"
      /\ payload[pos][2] \in {IdName, KeyName, "binary"}
  <2>1. IsSeq(payload) /\ Len(payload) \in Nat
    BY <1>1, SeqIs DEF Near
  <2>2. InnerHere
    BY DEF InnerField
  <2>3. ~ AtEnd(payload) /\ payload[pos][1] = "inner"
        /\ payload[pos][2] \in {IdName, KeyName, "binary"}
    BY <2>2, Zenon DEF InnerHere, IdName, KeyName
  <2>4. pos <= Len(payload)
    BY <1>1, <2>1, <2>3 DEF AtEnd
  <2> QED  BY <2>3, <2>4
<1>7. pos \in 1 .. a + 3 /\ payload[pos] = Q[pos]
  <2> HIDE DEF Q, a
  <2> QED  BY <1>1, <1>5, <1>6, InnerCellIs DEF Q
<1> DEFINE i == inner.id
           k == inner.key
           t == inner.attachments
<1>8. inner = [id |-> i, key |-> k, attachments |-> t]
  BY <1>1
<1>9. /\ payload[pos][2] = IdName => inner' = [id |-> Some(v), key |-> k, attachments |-> t]
      /\ payload[pos][2] = KeyName => inner' = [id |-> i, key |-> Some(v), attachments |-> t]
      /\ payload[pos][2] = "binary" => inner' = [id |-> i, key |-> k, attachments |-> Added(t, v)]
  <2>1. inner' = CASE payload[pos][2] = IdName -> [inner EXCEPT !.id = Some(v)]
                   [] payload[pos][2] = KeyName -> [inner EXCEPT !.key = Some(v)]
                   [] payload[pos][2] = "binary" -> [inner EXCEPT !.attachments = Added(inner.attachments, v)]
    BY DEF InnerField, Added, IdName, KeyName
  <2> HIDE DEF i, k, t, v
  <2>2. inner.attachments = t
    BY DEF t
  <2> DEFINE w == Added(t, v)
  <2>3. inner' = CASE payload[pos][2] = IdName -> [inner EXCEPT !.id = Some(v)]
                   [] payload[pos][2] = KeyName -> [inner EXCEPT !.key = Some(v)]
                   [] payload[pos][2] = "binary" -> [inner EXCEPT !.attachments = w]
    BY <2>1, <2>2
  <2> HIDE DEF w
  <2>4. /\ payload[pos][2] = IdName => inner' = [id |-> Some(v), key |-> k, attachments |-> t]
        /\ payload[pos][2] = KeyName => inner' = [id |-> i, key |-> Some(v), attachments |-> t]
        /\ payload[pos][2] = "binary" => inner' = [id |-> i, key |-> k, attachments |-> w]
    BY <1>8, <2>3, InnerNames
  <2> QED  BY <2>4 DEF w
<1>10. PICK n \in Nat : n = pos - 1
  BY <1>1
<1>11. /\ n \in 0 .. a + 2
       /\ i = (IF n = 0 THEN Missing ELSE Some(<<u.inner>>))
       /\ k = (IF n \in {0, 1} THEN Missing ELSE Some(StreamKey(u)))
       /\ IsSeq(t) /\ Len(t) = (IF n \in {0, 1} THEN 0 ELSE n - 2)
       /\ \A x \in 1 .. Len(t) : t[x] = u.attachments[x]
  BY <1>1, <1>10 DEF InnerRead
<1>12. a \in Nat
  BY <1>5 DEF InnerLaid
<1>b. Q[1] = <<"inner", IdName, <<u.inner>>>>
  BY <1>5 DEF InnerLaid
<1>c. Q[2] = <<"inner", KeyName, StreamKey(u)>>
  BY <1>5 DEF InnerLaid
<1>d. \A x \in 1 .. a : Q[2 + x] = <<"inner", "binary", u.attachments[x]>>
  BY <1>5 DEF InnerLaid
<1>e. Q[a + 3] = <<"inner", "end", <<>>>>
  BY <1>5 DEF InnerLaid
<1> HIDE DEF Q, a, i, k, t
<1>13. InnerRead(u, n + 1)' /\ inner' = [id |-> inner'.id, key |-> inner'.key, attachments |-> inner'.attachments]
  <2>1. CASE n = 0
    <3>1. pos = 1
      BY <1>1, <1>10, <2>1
    <3>2. payload[pos][2] = IdName /\ v = <<u.inner>>
      <4> DEFINE e == <<u.inner>>
      <4>1. payload[pos] = <<"inner", IdName, e>>
        BY <1>7, <1>b, <3>1
      <4> HIDE DEF e
      <4>2. payload[pos][2] = IdName /\ payload[pos][3] = e
        BY <4>1
      <4> QED  BY <4>2 DEF e
    <3> HIDE DEF v
    <3>3. inner' = [id |-> Some(v), key |-> k, attachments |-> t]
      BY <1>9, <3>2
    <3>4. inner'.id = Some(<<u.inner>>) /\ inner'.key = k /\ inner'.attachments = t
      BY <3>2, <3>3
    <3>5. k = Missing /\ IsSeq(t) /\ Len(t) = 0
      BY <1>11, <2>1
    <3>6. 1 \in 0 .. Len(u.attachments) + 2 /\ n + 1 = 1
      BY <1>12, <2>1 DEF a
    <3> QED  BY <3>3, <3>4, <3>5, <3>6 DEF InnerRead, IsSeq
  <2>2. CASE n = 1
    <3>1. pos = 2
      BY <1>1, <1>10, <2>2
    <3>2. payload[pos][2] = KeyName /\ v = StreamKey(u)
      <4> DEFINE e == StreamKey(u)
      <4>1. payload[pos] = <<"inner", KeyName, e>>
        BY <1>7, <1>c, <3>1
      <4> HIDE DEF e
      <4>2. payload[pos][2] = KeyName /\ payload[pos][3] = e
        BY <4>1
      <4> QED  BY <4>2 DEF e
    <3> HIDE DEF v
    <3>3. inner' = [id |-> i, key |-> Some(v), attachments |-> t]
      BY <1>9, <3>2
    <3>4. inner'.id = i /\ inner'.key = Some(StreamKey(u)) /\ inner'.attachments = t
      BY <3>2, <3>3
    <3>5. i = Some(<<u.inner>>) /\ IsSeq(t) /\ Len(t) = 0
      BY <1>11, <2>2
    <3>6. 2 \in 0 .. Len(u.attachments) + 2 /\ n + 1 = 2
      BY <1>12, <2>2 DEF a
    <3> QED  BY <3>3, <3>4, <3>5, <3>6 DEF InnerRead, IsSeq
  <2>3. CASE n \notin {0, 1}
    <3>1. pos # a + 3
      <4>1. Q[a + 3][2] = "end"
        BY <1>e
      <4> QED  BY <1>6, <1>7, <4>1, InnerNames
    <3>2. PICK x \in 1 .. a : x = n - 1 /\ pos = 2 + x
      <4>1. n - 1 \in 1 .. a /\ pos = 2 + (n - 1)
        BY <1>7, <1>10, <1>12, <2>3, <3>1
      <4> QED  BY <4>1
    <3>3. payload[pos][2] = "binary" /\ v = u.attachments[x]
      <4> DEFINE e == u.attachments[x]
      <4>1. payload[pos] = <<"inner", "binary", e>>
        BY <1>7, <1>d, <3>2
      <4> HIDE DEF e
      <4>2. payload[pos][2] = "binary" /\ payload[pos][3] = e
        BY <4>1
      <4> QED  BY <4>2 DEF e
    <3> HIDE DEF v
    <3> DEFINE w == Added(t, v)
    <3>4. /\ IsSeq(w) /\ Len(w) = Len(t) + 1 /\ w[Len(t) + 1] = v
          /\ \A y \in 1 .. Len(t) : w[y] = t[y]
      <4>1. w = Added(t, v)
        OBVIOUS
      <4> HIDE DEF w
      <4>2. IsSeq(t)
        BY <1>11
      <4> QED  BY <4>1, <4>2, AddedIs
    <3>5. inner' = [id |-> i, key |-> k, attachments |-> w]
      BY <1>9, <3>3
    <3> HIDE DEF w
    <3>6. inner'.id = i /\ inner'.key = k /\ inner'.attachments = w
      BY <3>5
    <3>7. i = Some(<<u.inner>>) /\ k = Some(StreamKey(u)) /\ Len(t) = n - 2
      BY <1>11, <2>3
    <3>8. Len(w) = n - 1 /\ \A y \in 1 .. Len(w) : w[y] = u.attachments[y]
      <4>1. Len(t) + 1 = x /\ Len(w) = x /\ Len(t) \in Nat
        BY <1>10, <3>2, <3>4, <3>7
      <4>2. \A y \in 1 .. Len(w) : y \in 1 .. Len(t) \/ y = x
        BY <4>1
      <4> QED  BY <1>11, <3>2, <3>3, <3>4, <4>1, <4>2
    <3>9. n + 1 \in 0 .. Len(u.attachments) + 2 /\ n + 1 \notin {0, 1} /\ (n + 1) - 2 = n - 1
      BY <1>10, <1>12, <2>3, <3>2 DEF a
    <3> QED  BY <3>4, <3>5, <3>6, <3>7, <3>8, <3>9 DEF InnerRead, IsSeq
  <2> QED  BY <2>1, <2>2, <2>3
<1>14. InnerRead(u, pos - 1)'
  <2>1. pos' - 1 = n + 1
    BY <1>1, <1>2, <1>10
  <2> QED  BY <1>13, <2>1 DEF InnerRead
<1>15. InnerPhase'
  <2>1. pos' \in Nat \ {0}
    BY <1>1, <1>2
  <2> QED  BY <1>1, <1>2, <1>3, <1>13, <1>14, <2>1 DEF InnerPhase
<1> QED  BY <1>2, <1>3, <1>15 DEF OpeningInv, Phases

\* The inner header ends, with all of its fields read.
LEMMA InnerEndsStep ==
    ASSUME OpeningInv, InnerEnds, UNCHANGED origin PROVE OpeningInv'
<1>0. FileInv /\ StreamKeyInv /\ InnerPhase
  BY DEF OpeningInv, Phases, InnerEnds
<1>1. PICK u \in Makers(origin) :
           Verified(u) /\ Near(payload, PaddedDocument(u)) /\ pos \in Nat \ {0}
           /\ inner = [id |-> inner.id, key |-> inner.key, attachments |-> inner.attachments]
           /\ InnerRead(u, pos - 1)
  BY <1>0 DEF InnerPhase
<1>2. /\ Fixed /\ hmacKey' = hmacKey /\ masterKey' = masterKey /\ header' = header
      /\ payload' = payload /\ origin' = origin /\ inner' = inner
      /\ \/ pc' = "xml" /\ pos' = pos + 1
         \/ pc' = "done" /\ result'.kind # "opened"
  BY DEF Fixed, InnerEnds, Proceed, Fail, Failure, containerVars
<1>3. FileInv' /\ StreamKeyInv' /\ Verified(u)'
  BY <1>0, <1>1, <1>2, FileInvKept, StreamKeyKept, VerifiedKept
<1>4. CASE pc' = "done" /\ result'.kind # "opened"
  BY <1>2, <1>4, Returns
<1>5. CASE pc' = "xml" /\ pos' = pos + 1
  <2> DEFINE Q == PaddedDocument(u)
             a == Len(u.attachments)
  <2>1. IsSave(u)
    BY <1>0, SavesAre
  <2>2. InnerLaid(u, Q, a)
    <3>1. Q = PaddedDocument(u) /\ a = Len(u.attachments)
      OBVIOUS
    <3> HIDE DEF Q, a
    <3> QED  BY <2>1, <3>1, InnerDocumentIs
  <2>3. pos <= Len(payload) /\ payload[pos][1] = "inner" /\ payload[pos][2] = "end"
    <3>1. IsSeq(payload) /\ Len(payload) \in Nat
      BY <1>1, SeqIs DEF Near
    <3> QED  BY <1>1, <3>1 DEF InnerEnds, InnerEndHere, AtEnd
  <2>4. pos \in 1 .. a + 3 /\ payload[pos] = Q[pos]
    <3> HIDE DEF Q, a
    <3> QED  BY <1>1, <2>2, <2>3, InnerCellIs DEF Q
  <2>5. a \in Nat
    BY <2>2 DEF InnerLaid
  <2>b. Q[1] = <<"inner", IdName, <<u.inner>>>> /\ Q[2] = <<"inner", KeyName, StreamKey(u)>>
    BY <2>2 DEF InnerLaid
  <2>d. \A x \in 1 .. a : Q[2 + x] = <<"inner", "binary", u.attachments[x]>>
    BY <2>2 DEF InnerLaid
  <2> HIDE DEF Q, a
  <2>6. pos = a + 3
    <3>a. Q[1][2] = IdName
      <4> DEFINE e == <<u.inner>>
      <4>1. Q[1] = <<"inner", IdName, e>>
        BY <2>b
      <4> HIDE DEF e
      <4> QED  BY <4>1
    <3>b. Q[2][2] = KeyName
      <4> DEFINE e == StreamKey(u)
      <4>1. Q[2] = <<"inner", KeyName, e>>
        BY <2>b
      <4> HIDE DEF e
      <4> QED  BY <4>1
    <3>1. pos # 1
      BY <2>3, <2>4, <3>a, InnerNames
    <3>2. pos # 2
      BY <2>3, <2>4, <3>b, InnerNames
    <3>3. ASSUME NEW x \in 1 .. a, pos = 2 + x PROVE FALSE
      <4> DEFINE e == u.attachments[x]
      <4>1. payload[pos] = <<"inner", "binary", e>>
        BY <2>4, <2>d, <3>3
      <4> HIDE DEF e
      <4> QED  BY <2>3, <4>1
    <3>4. pos - 2 \in 1 .. a => FALSE
      <4>1. pos - 2 \in 1 .. a => pos = 2 + (pos - 2)
        BY <2>4, <2>5
      <4> QED  BY <3>3, <4>1
    <3> QED  BY <2>4, <2>5, <3>1, <3>2, <3>4
  <2>7. PICK n \in Nat : n = pos - 1 /\ n = a + 2
    BY <2>5, <2>6
  <2>8. /\ inner.id = Some(<<u.inner>>) /\ inner.key = Some(StreamKey(u))
        /\ IsSeq(inner.attachments) /\ Len(inner.attachments) = a
        /\ \A x \in 1 .. Len(inner.attachments) : inner.attachments[x] = u.attachments[x]
    <3>1. n \notin {0, 1} /\ n # 0 /\ n - 2 = a
      BY <2>5, <2>7
    <3> QED  BY <1>1, <2>7, <3>1 DEF InnerRead
  <2>9. inner.attachments = u.attachments
    <3>1. IsSeq(u.attachments)
      BY <2>1 DEF IsSave, IsSeq
    <3> QED  BY <2>8, <3>1, SeqsEqual DEF a
  <2>10. pos' = Len(u.attachments) + 4
    BY <1>5, <2>5, <2>6 DEF a
  <2>11. Xml4(u)'
    BY <1>1, <1>2, <1>3, <2>8, <2>9, <2>10 DEF Xml4, InnerIs
  <2> QED  BY <1>2, <1>3, <1>5, <2>11 DEF OpeningInv, Phases, XmlPhase
<1> QED  BY <1>2, <1>4, <1>5

----------------------------------------------------------------------------
(* The document.                                                           *)

\* What follows is the document, if it is a document at all.
LEMMA DocumentIs ==
    ASSUME NEW u, NEW Q, NEW a, InnerLaid(u, Q, a), Near(payload, Q), pos = a + 4, IsDocument(Rest)
    PROVE  Body(Rest) = <<u.db, u.inner, StreamKey(u)>>
<1> DEFINE l == Len(payload)
           m == a + 4
           r == Rest
<1>0. a \in Nat /\ IsSeq(payload) /\ l \in Nat /\ Len(r) >= 3
  BY SeqIs DEF InnerLaid, Near, IsDocument
<1>1. r = Part(payload, m, l)
  BY DEF Rest, Part
<1>2. m \in Nat \ {0} /\ l \in 0 .. Len(payload)
  BY <1>0
<1>3. /\ Len(r) = IF m <= l THEN l - m + 1 ELSE 0
      /\ \A i \in 1 .. l - m + 1 : r[i] = payload[m + i - 1]
  <2> HIDE DEF l, m, r
  <2> QED  BY <1>0, <1>1, <1>2, PartIs
<1>4. l \in Nat /\ a \in Nat /\ a + 6 <= l
  <2> HIDE DEF l, r
  <2> QED  BY <1>0, <1>3
<1>5. 2 \in 1 .. l - m + 1 /\ m + 2 - 1 = a + 5 /\ a + 5 \in 1 .. l /\ a + 5 # l
  <2> HIDE DEF l
  <2> QED  BY <1>4
<1>6. r[2] = payload[a + 5]
  BY <1>3, <1>5
<1>7. payload[a + 5] = Q[a + 5]
  BY <1>5 DEF Near
<1>8. Q[a + 5] = BodyCell(u)
  BY DEF InnerLaid
<1> DEFINE d == <<u.db, u.inner, StreamKey(u)>>
<1>9. r[2] = <<"xml", "body", d>>
  BY <1>6, <1>7, <1>8 DEF BodyCell
<1> HIDE DEF d, r
<1>10. r[2] # Garbage /\ r[2][3] = d
  BY <1>9 DEF Garbage
<1> QED  BY <1>10 DEF Body, d, r

\* A key without challenge stays as it is.
LEMMA SameKey ==
    ASSUME NEW k, IsKey(k), KeyError(k) = "none", NEW seed
    PROVE  Challenged(k, seed) = k
<1>1. k.response = Missing
  BY KeyErrorOf
<1>2. k.challenge = Missing
  BY <1>1 DEF KeyError
<1> QED  BY <1>2 DEF Challenged

\* Keys with the same composite have the same parts.
LEMMA CompositeTells ==
    ASSUME NEW k, IsKey(k), KeyError(k) = "none", NEW l, IsKey(l), KeyError(l) = "none",
           CompositeKey(k) = CompositeKey(l)
    PROVE  SameParts(k, l)
<1> DEFINE a == KeyElements(k)
           b == KeyElements(l)
<1>1. Sha256(a) = Sha256(b)
  BY DEF CompositeKey
<1>2. a = b
  <2> HIDE DEF a, b
  <2> QED  BY <1>1 DEF Sha256
<1>3. Challenged(k, 0) = k /\ Challenged(l, 0) = l
  BY SameKey
<1>4. KeyElements(Challenged(k, 0)) = KeyElements(Challenged(l, 0))
  BY <1>2, <1>3
<1> QED  BY <1>4, PartsFromElements

\* What parse_xml makes of it, and of the two headers, is what was saved.
LEMMA Parsed4 ==
    ASSUME FileInv, ParseXml(OpenedKdf), NEW u \in Makers(origin), Xml4(u)
    PROVE  result' = Contents(u)
<1>0. FileInv /\ IsDocument(Rest)
  BY DEF ParseXml
<1>1. IsSave(u) /\ u.format = "KDB4"
  BY <1>0, SavesAre DEF Xml4, Verified
<1>2. result' = Opened(data[1], header["cipher"][1][1], header["compression"][1][1],
                        inner.id[1][1], inner.key[1], OpenedKdf, header["public"],
                        inner.attachments, Body(Rest))
  BY DEF ParseXml
<1> DEFINE Q == PaddedDocument(u)
           a == Len(u.attachments)
<1>3. InnerLaid(u, Q, a)
  <2>1. Q = PaddedDocument(u) /\ a = Len(u.attachments)
    OBVIOUS
  <2> HIDE DEF Q, a
  <2> QED  BY <1>1, <2>1, InnerDocumentIs
<1>4. Body(Rest) = <<u.db, u.inner, StreamKey(u)>>
  <2>1. Near(payload, Q) /\ pos = a + 4
    BY DEF Xml4
  <2> HIDE DEF Q, a
  <2> QED  BY <1>0, <1>3, <2>1, DocumentIs
<1> HIDE DEF Q, a
<1>5. /\ header["cipher"] = Some(FieldValue(u, "cipher"))
      /\ header["compression"] = Some(FieldValue(u, "compression"))
      /\ header["kdf"] = Some(FieldValue(u, "kdf"))
      /\ header["public"] = IF "public" \in Range(u.layout) THEN Some(FieldValue(u, "public"))
                            ELSE Missing
  BY DEF Xml4, Verified, Kdbx4Required, Fields, HeaderIs
<1>6. header["cipher"][1][1] = u.outer /\ header["compression"][1][1] = u.compression
  <2>1. FieldValue(u, "cipher") = <<u.outer>> /\ FieldValue(u, "compression") = <<u.compression>>
    BY FieldValues
  <2> QED  BY <1>5, <2>1 DEF Some
<1>7. OpenedKdf = u.kdf
  <2>1. FieldValue(u, "kdf") = <<"kdf", u.kdf, KdfSeed(u)>>
    BY FieldValues
  <2>2. data[1][2] = "KDB4"
    BY <1>1 DEF Xml4, Verified, VersionCell
  <2>3. FieldValue(u, "kdf")[2] = u.kdf
    <3> DEFINE b == KdfSeed(u)
    <3>1. FieldValue(u, "kdf") = <<"kdf", u.kdf, b>>
      BY <2>1
    <3> HIDE DEF b
    <3> QED  BY <3>1
  <2> QED  BY <1>5, <2>2, <2>3 DEF OpenedKdf, HeaderKdf, Some
<1>8. header["public"] = u.public
  <2>1. FieldValue(u, "public") = u.public[1]
    BY FieldValues
  <2>2. AtMostOne(u.public) /\ ("public" \in Range(u.layout) <=> u.public # Missing)
    BY <1>1 DEF IsSave
  <2> QED  BY <1>5, <2>1, <2>2 DEF AtMostOne
<1>9. inner.id[1][1] = u.inner /\ inner.key[1] = StreamKey(u) /\ inner.attachments = u.attachments
  BY DEF Xml4, InnerIs, Some
<1>10. data[1] = <<"version", u.format, u.minor>>
  BY DEF Xml4, Verified, VersionCell
<1> QED
  <2>1. Contents(u) = Opened(<<"version", u.format, u.minor>>, u.outer, u.compression, u.inner,
                             StreamKey(u), u.kdf, u.public, u.attachments,
                             <<u.db, u.inner, StreamKey(u)>>)
    BY <1>1 DEF Contents
  <2> QED  BY <1>2, <1>4, <1>6, <1>7, <1>8, <1>9, <1>10, <2>1

\* parse_xml returns the database that the KDBX4 file was written with.
LEMMA ParseXml4Step ==
    ASSUME OpeningInv, ParseXml(OpenedKdf), UNCHANGED origin, NEW u \in Makers(origin), Xml4(u)
    PROVE  OpeningInv'
<1>1. FileInv /\ StreamKeyInv
  BY DEF OpeningInv
<1>2. Fixed /\ hmacKey' = hmacKey /\ origin' = origin /\ pc' = "done"
  BY DEF Fixed, ParseXml
<1>3. result' = Contents(u)
  BY <1>1, Parsed4
<1>4. OneOf({origin, Earlier(origin)})'
  BY <1>2, <1>3 DEF OneOf, Makers
<1>5. SameParts(dbKey, origin.key)'
  BY <1>2 DEF Xml4, Verified, Fixed
<1>6. FileInv' /\ StreamKeyInv'
  BY <1>1, <1>2, FileInvKept, StreamKeyKept
<1> QED  BY <1>2, <1>4, <1>5, <1>6 DEF OpeningInv, Phases, DonePhase

\* Two results that differ in nothing that is promised of the older formats.
LEMMA Erased ==
    ASSUME NEW D, NEW r, NEW s, r = [f \in D |-> r[f]], s = [f \in D |-> s[f]], NEW m, NEW n,
           \A f \in D : f \notin {"version", "inner", "legible"} => r[f] = s[f]
    PROVE  [r EXCEPT !.version = m, !.inner = m, !.legible = n] =
           [s EXCEPT !.version = m, !.inner = m, !.legible = n]
OBVIOUS

\* Of the older formats, all is promised but the version and the inner stream.
LEMMA PromisedSame ==
    ASSUME NEW o, NEW c, NEW k, NEW p, NEW a, NEW b,
           NEW v, NEW i, NEW l, NEW w, NEW j, NEW n, NEW r, NEW s,
           r = [kind |-> "opened", version |-> v, outer |-> o, compression |-> c, inner |-> i,
                kdf |-> k, public |-> p, attachments |-> a, db |-> b, legible |-> l],
           s = [kind |-> "opened", version |-> w, outer |-> o, compression |-> c, inner |-> j,
                kdf |-> k, public |-> p, attachments |-> a, db |-> b, legible |-> n],
           v[2] # "KDB4", w[2] # "KDB4"
    PROVE  Promised(r) = Promised(s)
<1> DEFINE D == {"kind", "version", "outer", "compression", "inner", "kdf", "public",
                 "attachments", "db", "legible"}
<1>1. r = [f \in D |-> r[f]] /\ s = [f \in D |-> s[f]]
  OBVIOUS
<1>2. /\ r.kind = s.kind /\ r.outer = s.outer /\ r.compression = s.compression
      /\ r.kdf = s.kdf /\ r.public = s.public /\ r.attachments = s.attachments /\ r.db = s.db
      /\ r.version[2] # "KDB4" /\ s.version[2] # "KDB4"
  BY SMTT(30)
<1>3. \A f \in D : f \notin {"version", "inner", "legible"} => r[f] = s[f]
  BY <1>2
<1> HIDE DEF D
<1>4. [r EXCEPT !.version = Missing, !.inner = Missing, !.legible = TRUE] =
      [s EXCEPT !.version = Missing, !.inner = Missing, !.legible = TRUE]
  BY <1>1, <1>3, Erased
<1> QED  BY <1>2, <1>4 DEF Promised

\* parse_xml returns the database that the KDBX3 file was written with.
LEMMA ParseXml3Step ==
    ASSUME OpeningInv, ParseXml(OpenedKdf), UNCHANGED origin, NEW u \in Makers(origin), Xml3(u)
    PROVE  OpeningInv'
<1>0. FileInv /\ StreamKeyInv /\ IsDocument(Rest)
  BY DEF OpeningInv, ParseXml
<1>1. IsSave(u) /\ u.format = "KDB3" /\ IsKey(u.key) /\ u.key = origin.key /\ IsKey(dbKey)
  <2>1. IsSave(u) /\ u.format = "KDB3" /\ u.key = origin.key
    BY <1>0, SavesAre DEF Xml3, Opened3
  <2> QED  BY <1>0, <2>1 DEF IsSave, FileInv
<1>2. Fixed /\ hmacKey' = hmacKey /\ origin' = origin /\ pc' = "done"
      /\ result' = Opened(data[1], header["cipher"][1][1], header["compression"][1][1],
                        inner.id[1][1], inner.key[1], OpenedKdf, header["public"],
                        inner.attachments, Body(Rest))
  BY DEF Fixed, ParseXml
<1>3. /\ data[1][2] = "KDB3" /\ KeyError(dbKey) = "none" /\ header["public"] = Missing
      /\ inner.attachments = <<>> /\ header["cipher"][1][1] = u.outer /\ FileMaster(u) = masterKey
      /\ pos = 1
  BY DEF Xml3, Derived3, Opened3
<1> DEFINE x1 == <<"xml", "open">>
           d == <<u.db, u.inner, StreamKey(u)>>
           x2 == <<"xml", "body", d>>
           x3 == <<"xml", "close">>
<1>4. Document(u) = <<x1, x2, x3>>
  BY DEF Document
<1> HIDE DEF x1, x2, x3
<1>5. IsSeq(Document(u))
  BY <1>4, TuplesAreSeqs
<1>6. IsSeq(payload)
  BY <1>5 DEF Xml3
<1>7. Rest = payload
  <2>1. Rest = Part(payload, 1, Len(payload))
    BY <1>3 DEF Rest, Part
  <2>2. Len(payload) \in Nat
    BY <1>6, SeqIs
  <2>3. 0 \in 0 .. Len(payload)
    BY <2>2
  <2> QED  BY <1>6, <2>1, <2>3, PartOfBeginning
<1>8. payload = Document(u) /\ header["compression"][1][1] = u.compression
  <2>1. Len(payload) # 2
    <3> DEFINE m == Len(payload)
    <3>1. m >= 3 /\ m \in Nat
      BY <1>0, <1>6, <1>7, SeqIs DEF IsDocument
    <3> SUFFICES m # 2
      OBVIOUS
    <3> HIDE DEF m
    <3> QED  BY <3>1
  <2> QED  BY <2>1 DEF Xml3
<1>9. Body(Rest) = d
  <2>1. Rest[2] = x2
    BY <1>4, <1>7, <1>8
  <2> HIDE DEF d
  <2>2. x2 = <<"xml", "body", d>>
    BY DEF x2
  <2>3. Rest[2] # Garbage /\ Rest[2][3] = d
    BY <2>1, <2>2 DEF Garbage
  <2> QED  BY <2>3 DEF Body
<1> DEFINE ts == header["transform seed"][1]
           sd == header["seed"][1]
           n == header["rounds"][1][2]
<1>10. <<"Aes", n>> = <<"Aes", u.kdf[2]>> /\ CompositeKey(dbKey) = CompositeKey(u.key)
  <2> DEFINE k == <<"Aes", n>>
             x == CompositeKey(dbKey)
  <2>1. FileMaster(u) = MasterKey(sd, TransformKey(k, ts, x))
    BY <1>3 DEF Xml3, Derived3, Kdbx3Master
  <2> HIDE DEF k, x, ts, sd, n
  <2>2. k = <<"Aes", u.kdf[2]>> /\ x = CompositeKey(u.key)
    BY <1>1, <2>1, MasterTells
  <2> QED  BY <2>2 DEF k, x
<1>11. OpenedKdf = u.kdf
  <2>1. u.kdf = <<u.kdf[1], u.kdf[2]>> /\ u.kdf[1] = "Aes"
    BY <1>1 DEF IsSave
  <2>2. OpenedKdf = <<"Aes", n>>
    BY <1>3 DEF OpenedKdf
  <2> HIDE DEF n
  <2> QED  BY <1>10, <2>1, <2>2
<1> HIDE DEF n, ts, sd
<1>12. SameParts(dbKey, origin.key)
  <2>1. KeyError(u.key) = "none"
    BY <1>1 DEF IsSave
  <2> QED  BY <1>1, <1>3, <1>10, <2>1, CompositeTells
<1>13. Promised(result') = Promised(Contents(u))
  <2> DEFINE i == inner.id[1][1]
             k == inner.key[1]
             v == <<"version", u.format, u.minor>>
             same == SameStream(i, k, d[2], d[3])
             same2 == SameStream(u.inner, StreamKey(u), d[2], d[3])
  <2>1. u.public = Missing /\ u.attachments = <<>>
    BY <1>1 DEF IsSave
  <2>2. Contents(u) = Opened(v, u.outer, u.compression, u.inner,
                             StreamKey(u), u.kdf, Missing, <<>>, d)
    BY <1>1, <2>1 DEF Contents
  <2>3. result' = Opened(data[1], u.outer, u.compression, i, k, u.kdf, Missing, <<>>, d)
    BY <1>2, <1>3, <1>8, <1>9, <1>11
  <2>4. v[2] = "KDB3" /\ data[1][2] = "KDB3"
    BY <1>1, <1>3
  <2> DEFINE db == d[1]
  <2>5. Contents(u) = [kind |-> "opened", version |-> v, outer |-> u.outer,
                       compression |-> u.compression, inner |-> u.inner, kdf |-> u.kdf,
                       public |-> Missing, attachments |-> <<>>, db |-> db, legible |-> same2]
    BY <2>2 DEF Opened
  <2>6. result' = [kind |-> "opened", version |-> data[1], outer |-> u.outer,
                       compression |-> u.compression, inner |-> i, kdf |-> u.kdf,
                       public |-> Missing, attachments |-> <<>>, db |-> db, legible |-> same]
    BY <2>3 DEF Opened
  <2> HIDE DEF i, k, v, same, same2, d, db
  <2>7. v[2] # "KDB4" /\ data[1][2] # "KDB4"
    BY <2>4
  <2> QED  BY <2>5, <2>6, <2>7, PromisedSame
<1>14. OneOf({origin, Earlier(origin)})'
  BY <1>2, <1>13 DEF OneOf, Makers
<1>15. SameParts(dbKey, origin.key)'
  BY <1>2, <1>12 DEF Fixed
<1>16. FileInv' /\ StreamKeyInv'
  BY <1>0, <1>2, FileInvKept, StreamKeyKept
<1> QED  BY <1>2, <1>14, <1>15, <1>16 DEF OpeningInv, Phases, DonePhase

\* The last steps of the KDBX readers.
LEMMA XmlStep ==
    ASSUME OpeningInv, GetXml \/ BadXml \/ ParseXml(OpenedKdf), UNCHANGED origin PROVE OpeningInv'
<1>1. CASE GetXml \/ BadXml
  <2>1. Fixed /\ hmacKey' = hmacKey /\ pc' = "done" /\ result'.kind # "opened"
    BY <1>1 DEF Fixed, GetXml, BadXml, Fail, Failure
  <2> QED  BY <2>1, Returns
<1>2. CASE ParseXml(OpenedKdf)
  <2>1. XmlPhase
    BY <1>2 DEF OpeningInv, Phases, ParseXml
  <2> QED  BY <1>2, <2>1, ParseXml3Step, ParseXml4Step DEF XmlPhase
<1> QED  BY <1>1, <1>2

----------------------------------------------------------------------------
(* KDBX3: nothing but the cells of the ciphertext tells where they are from. *)

\* The keys of a KDBX3 file are derived.
LEMMA Kdbx3DeriveStep ==
    ASSUME OpeningInv, Kdbx3Derive, UNCHANGED origin PROVE OpeningInv'
<1>0. FileInv /\ StreamKeyInv /\ BodyPhase("KDB3", Kdbx3Fields, Kdbx3Fields)
  BY DEF OpeningInv, Phases, Kdbx3Derive
<1>1. /\ Fixed /\ hmacKey' = hmacKey /\ header' = header /\ out' = out /\ origin' = origin
      /\ data' = data /\ dbKey' = dbKey /\ pos' = pos
      /\ pc' = "decrypt3" /\ KeyError(dbKey) = "none"
      /\ masterKey' = Kdbx3Master(header["seed"][1], header["rounds"][1][2],
                                  header["transform seed"][1], dbKey)
      /\ inner' = [NoInner EXCEPT !.id = header["inner cipher"], !.key = header["stream key"]]
  BY DEF Fixed, Kdbx3Derive, Proceed
<1>2. FileInv' /\ StreamKeyInv'
  BY <1>0, <1>1, FileInvKept, StreamKeyKept
<1>3. /\ data[1][2] = "KDB3" /\ out = <<>> /\ pos \in Nat \ {0}
      /\ \A f \in Kdbx3Fields : header[f] # Missing
  BY <1>0 DEF BodyPhase, HeaderPhase, Fresh
<1>4. inner'.attachments = <<>>
  <2> DEFINE i == header["inner cipher"]
             k == header["stream key"]
  <2>1. inner' = [NoInner EXCEPT !.id = i, !.key = k]
    BY <1>1
  <2> HIDE DEF i, k
  <2> QED  BY <2>1 DEF NoInner
<1>5. PICK n \in Nat : n = pos - 1
  BY <1>3
<1>6. /\ n \in 0 .. Len(data)
      /\ \A f \in Fields :
           \/ header[f] = Missing
           \/ /\ f \in Kdbx3Fields /\ Legible(f, header[f][1])
              /\ \E i \in 1 .. n :
                    data[i][1] = "field" /\ data[i][2] = f /\ header[f][1] = data[i][3]
  BY <1>0, <1>5 DEF BodyPhase, HeaderPhase, HeaderRead
<1>7. \A i \in 1 .. n : Genuine(origin, data[i])
  <2>1. Len(data) \in Nat
    BY <1>0, SavesAre
  <2>2. \A i \in 1 .. n : i \in 1 .. Len(data)
    BY <1>6, <2>1
  <2> QED  BY <1>0, <2>2 DEF FileInv, IsFile
<1>8. ASSUME NEW f \in Kdbx3Fields \cap Numbered
      PROVE  header[f][1] = Damaged \/ \E u \in Makers(origin) : header[f][1] = FieldValue(u, f)
  <2>1. f \in Fields
    BY DEF Numbered, Fields
  <2>2. PICK i \in 1 .. n : data[i][1] = "field" /\ data[i][2] = f /\ header[f][1] = data[i][3]
    BY <1>3, <1>6, <2>1
  <2> QED  BY <1>7, <2>2 DEF Genuine, GenuineField
<1>9. "iv" \in Kdbx3Fields \cap Numbered /\ "stream start" \in Kdbx3Fields \cap Numbered
  BY DEF Kdbx3Fields, Numbered
<1>10. header["compression"][1][1] \in Compressions
  <2>1. "compression" \in Kdbx3Fields /\ "compression" \in Fields
    BY DEF Kdbx3Fields, Fields
  <2>2. Legible("compression", header["compression"][1])
    BY <1>3, <1>6, <2>1
  <2> QED  BY <2>2 DEF Legible
<1>11. header["public"] = Missing
  <2>1. "public" \notin Kdbx3Fields /\ "public" \in Fields
    BY DEF Kdbx3Fields, Fields
  <2> QED  BY <1>6, <2>1
<1>12. Derived3'
  <2> DEFINE iv == header["iv"][1]
             st == header["stream start"][1]
  <2>1. iv = Damaged \/ \E u \in Makers(origin) : iv = FieldValue(u, "iv")
    BY <1>8, <1>9
  <2>2. st = Damaged \/ \E u \in Makers(origin) : st = FieldValue(u, "stream start")
    BY <1>8, <1>9
  <2> QED  BY <1>1, <1>3, <1>4, <1>10, <1>11, <2>1, <2>2 DEF Derived3
<1>13. Decrypt3Phase'
  BY <1>1, <1>3, <1>12 DEF Decrypt3Phase
<1> QED  BY <1>1, <1>2, <1>13 DEF OpeningInv, Phases

\* What comes out of a cipher is told: each cell up to the first garbage is the
\* one a save with this cipher and key put in.
LEMMA ToldFrom ==
    ASSUME FileInv, NEW m \in Nat \ {0}, NEW cells, cells = Part(data, m, Len(data)),
           NEW cipher, NEW key, NEW iv,
           iv = Damaged \/ \E u \in Makers(origin) : iv = FieldValue(u, "iv"),
           NEW D, D = Deciphered(cipher, key, iv, cells), NEW q, Near(q, D)
    PROVE  Told(cipher, key, q)
<1>0. IsSave(origin) /\ IsSeq(data) /\ Len(data) \in Nat
  BY SavesAre
<1>1. IsSeq(cells) /\ \A i \in 1 .. Len(cells) : Genuine(origin, cells[i])
  <2> DEFINE l == Len(data)
  <2>1. l \in 0 .. l /\ l \in Nat
    BY <1>0
  <2>2. /\ IsSeq(cells) /\ Len(cells) = IF m <= l THEN l - m + 1 ELSE 0
        /\ \A i \in 1 .. l - m + 1 : cells[i] = data[m + i - 1]
    <3>1. l = Len(data)
      OBVIOUS
    <3> HIDE DEF l
    <3> QED  BY <1>0, <2>1, <3>1, PartIs
  <2>3. ASSUME NEW i \in 1 .. Len(cells) PROVE i \in 1 .. l - m + 1 /\ m + i - 1 \in 1 .. l
    <3> HIDE DEF l
    <3>1. m <= l
      BY <2>1, <2>2
    <3> QED  BY <2>1, <2>2, <3>1
  <2>4. \A i \in 1 .. l : Genuine(origin, data[i])
    BY DEF FileInv, IsFile
  <2> HIDE DEF l
  <2> QED  BY <2>2, <2>3, <2>4
<1>2. /\ IsSeq(D) /\ Len(D) = Len(cells)
      /\ \A i \in 1 .. Len(cells) :
           D[i] = IF Recovers(cipher, key, iv, cells, i) THEN cells[i][4] ELSE Garbage
  BY <1>1, DecipheredIs
<1>3. IsSeq(q) /\ Len(q) <= Len(D) /\ Len(q) \in Nat /\ Len(D) \in Nat
      /\ \A i \in 1 .. Len(q) : q[i] = D[i] \/ (i = Len(q) /\ q[i] = Garbage)
  BY <1>2, SeqIs DEF Near
<1>4. iv[1] \notin {"cbc", "stream"}
  <2>1. CASE iv = Damaged
    BY <2>1 DEF Damaged
  <2>2. CASE \E u \in Makers(origin) : iv = FieldValue(u, "iv")
    <3>1. PICK u \in Makers(origin) : iv = FieldValue(u, "iv")
      BY <2>2
    <3>2. iv = <<"iv", u.n>>
      BY <3>1, FieldValues
    <3> QED  BY <3>2
  <2> QED  BY <2>1, <2>2
<1>5. ASSUME NEW i \in 1 .. Len(cells), cells[i][1] \in {"cbc", "stream"}, cells[i][2] = <<cipher, key>>
      PROVE  \E u \in Makers(origin) : cells[i] \in Range(Secret(u))
  <2>1. cells[i][2] # Damaged
    BY <1>5 DEF Damaged
  <2> QED  BY <1>1, <1>5, <2>1 DEF Genuine, GenuineSecret
<1>6. ASSUME NEW n \in 1 .. Len(q), \A i \in 1 .. n : q[i] # Garbage
      PROVE  \E u \in Makers(origin) :
                /\ u.outer = cipher /\ FileMaster(u) = key
                /\ n <= Len(WithPadding(u.outer, FilePayload(u)))
                /\ \A i \in 1 .. n : q[i] = WithPadding(u.outer, FilePayload(u))[i]
  <2>1. n \in 1 .. Len(cells) /\ \A i \in 1 .. n : i \in 1 .. Len(q) /\ i \in 1 .. Len(cells)
    BY <1>2, <1>3
  <2>2. \A i \in 1 .. n : q[i] = D[i]
    BY <1>3, <1>6, <2>1
  <2>3. \A i \in 1 .. n : Recovers(cipher, key, iv, cells, i) /\ q[i] = cells[i][4]
    BY <1>2, <1>6, <2>1, <2>2
  <2> DEFINE U == Makers(origin)
  <2>4. (\A u \in U : IsSave(u)) /\ \A u, v \in U : FileMaster(u) = FileMaster(v) => u = v
    BY <1>0, MakersAre, MastersDiffer
  <2>5. \A i \in 1 .. Len(cells) :
              cells[i][1] \in {"cbc", "stream"} /\ cells[i][2] = <<cipher, key>> =>
                 \E u \in U : cells[i] \in Range(Secret(u))
    BY <1>5
  <2>6. \A i \in 1 .. n : Recovers(cipher, key, iv, cells, i)
    BY <2>3
  <2> HIDE DEF U
  <2>7. OwnPayload(U, cells, cipher, key, n)
    <3>1. IsSeq(cells)
      BY <1>1
    <3>2. Owned(U, cells, cipher, key, iv)
      BY <1>4, <2>4, <2>5, <3>1 DEF Owned
    <3>3. n \in 1 .. Len(cells)
      BY <2>1
    <3> QED  BY <2>6, <3>2, <3>3, Recovered
  <2>8. PICK u \in U :
              /\ u.outer = cipher /\ FileMaster(u) = key
              /\ n <= Len(WithPadding(u.outer, FilePayload(u)))
              /\ \A i \in 1 .. n : cells[i][4] = WithPadding(u.outer, FilePayload(u))[i]
    BY <2>7 DEF OwnPayload
  <2>9. \A i \in 1 .. n : q[i] = WithPadding(u.outer, FilePayload(u))[i]
    BY <2>3, <2>8
  <2> QED  BY <2>8, <2>9 DEF U
<1> QED  BY <1>3, <1>6 DEF Told

\* The payload of a KDBX3 file is deciphered.
LEMMA Kdbx3DecryptStep ==
    ASSUME OpeningInv, Kdbx3Decrypt, UNCHANGED origin PROVE OpeningInv'
<1>0. FileInv /\ StreamKeyInv /\ Decrypt3Phase
  BY DEF OpeningInv, Phases, Kdbx3Decrypt
<1>1. /\ Fixed /\ hmacKey' = hmacKey /\ masterKey' = masterKey /\ header' = header /\ inner' = inner
      /\ origin' = origin /\ pos' = 2 /\ out' = out /\ data' = data /\ dbKey' = dbKey
  BY DEF Fixed, Kdbx3Decrypt
<1>2. FileInv' /\ StreamKeyInv'
  BY <1>0, <1>1, FileInvKept, StreamKeyKept
<1> DEFINE cells == Part(data, pos, Len(data))
           cipher == header["cipher"][1][1]
           iv == header["iv"][1]
           D == Deciphered(cipher, masterKey, iv, cells)
<1>3. pos \in Nat \ {0} /\ out = <<>> /\ Derived3
  BY <1>0 DEF Decrypt3Phase
<1>4. IsSeq(cells)
  <2>1. IsSeq(data) /\ Len(data) \in 0 .. Len(data)
    BY <1>0, SavesAre
  <2> QED  BY <1>3, <2>1, PartIs
<1>5. \/ pc' = "done" /\ result'.kind # "opened"
      \/ pc' = "stream start" /\ Near(payload', D)
  <2>1. D = Deciphered(header["cipher"][1][1], masterKey, header["iv"][1], cells)
        /\ Decipher(cells, "stream start")
    BY DEF Kdbx3Decrypt, Part
  <2> HIDE DEF D, cells
  <2>2. \A to : Decipher(cells, to) =>
          \/ pc' = "done" /\ result'.kind # "opened"
          \/ pc' = to /\ Near(payload', D)
    BY <1>4, <2>1, DecipherStep
  <2> QED  BY <2>1, <2>2
<1>6. CASE pc' = "done" /\ result'.kind # "opened"
  BY <1>1, <1>6, Returns
<1>7. CASE pc' = "stream start" /\ Near(payload', D)
  <2>1. Told(cipher, masterKey, payload')
    <3> DEFINE q == payload'
               k == masterKey
               m == pos
    <3>1. iv = Damaged \/ \E u \in Makers(origin) : iv = FieldValue(u, "iv")
      BY <1>3 DEF Derived3
    <3>2. cells = Part(data, m, Len(data)) /\ D = Deciphered(cipher, k, iv, cells) /\ Near(q, D)
          /\ m \in Nat \ {0}
      BY <1>3, <1>7
    <3> HIDE DEF cells, cipher, iv, D, q, k, m
    <3>3. Told(cipher, k, q)
      BY <1>0, <3>1, <3>2, ToldFrom
    <3> QED  BY <3>3 DEF k, q
  <2>2. Told3'
    BY <1>1, <2>1 DEF Told3, Told
  <2>3. Derived3'
    BY <1>1, <1>3 DEF Derived3
  <2>4. Start3Phase'
    BY <1>1, <1>3, <2>2, <2>3 DEF Start3Phase
  <2> QED  BY <1>2, <1>7, <2>4 DEF OpeningInv, Phases
<1> QED  BY <1>5, <1>6, <1>7

----------------------------------------------------------------------------
(* The payload of a KDBX3 file.                                            *)

StartName == "stream start"

\* The payload P of a KDBX3 save, whose document is kept in the l cells C.
Payload3Laid(u, P, C, l) ==
    /\ l \in {2, 3} /\ IsSeq(C) /\ Len(C) = l /\ IsSeq(P) /\ Len(P) \in {l + 4, l + 5}
    /\ P[1] = <<StartName, u.n>>
    /\ P[2] = <<"hashed", 0, Sha256(Part(C, 1, 1)), 1>>
    /\ P[3] = C[1]
    /\ P[4] = <<"hashed", 1, Sha256(Part(C, 2, l)), l - 1>>
    /\ \A i \in 1 .. l - 1 : P[4 + i] = C[1 + i]
    /\ P[l + 4] = <<"hashed", 2, <<>>, 0>>
    /\ \A i \in 1 .. l : C[i] # Garbage

\* The document of a KDBX3 file is kept in two or three cells.
LEMMA Cells3Are ==
    ASSUME NEW u, IsSave(u), NEW C, C = Cells3(u), NEW l, l = Len(C)
    PROVE  l \in {2, 3} /\ IsSeq(C) /\ \A i \in 1 .. l : C[i] # Garbage
<1> DEFINE x1 == <<"xml", "open">>
           x2 == BodyCell(u)
           x3 == <<"xml", "close">>
           d == Document(u)
           g1 == <<"gzip", 1, d>>
           g2 == <<"gzip", 2, d>>
<1>1. d = <<x1, x2, x3>>
  BY DEF Document, BodyCell
<1>2. x1 # Garbage /\ x2 # Garbage /\ x3 # Garbage /\ g1 # Garbage /\ g2 # Garbage
  BY DEF BodyCell, Garbage
<1>3. CASE u.compression = "None"
  <2>1. C = <<x1, x2, x3>>
    BY <1>1, <1>3 DEF Cells3, Compressed
  <2> HIDE DEF x1, x2, x3
  <2>2. IsSeq(C) /\ l = 3
    BY <2>1, TuplesAreSeqs
  <2>3. C[1] = x1 /\ C[2] = x2 /\ C[3] = x3
    BY <2>1
  <2> QED  BY <1>2, <2>2, <2>3
<1>4. CASE u.compression # "None"
  <2>1. C = <<g1, g2>>
    BY <1>4 DEF Cells3, Compressed
  <2> HIDE DEF g1, g2
  <2>2. IsSeq(C) /\ l = 2
    BY <2>1, TuplesAreSeqs
  <2>3. C[1] = g1 /\ C[2] = g2
    BY <2>1
  <2> QED  BY <1>2, <2>2, <2>3
<1> QED  BY <1>3, <1>4

\* The cells of the payload of a KDBX3 file.
LEMMA Payload3Is ==
    ASSUME NEW u, IsSave(u), u.format = "KDB3", NEW P, P = Payload3(u) \/ P = FilePayload(u),
           NEW C, C = Cells3(u), NEW l, l = Len(C)
    PROVE  Payload3Laid(u, P, C, l)
<1> DEFINE c1 == <<StartName, u.n>>
           s == <<c1>>
           p1 == Part(C, 1, 1)
           p2 == Part(C, 2, l)
           h1 == <<"hashed", 0, Sha256(p1), Len(p1)>>
           h2 == <<"hashed", 1, Sha256(p2), Len(p2)>>
           h3 == <<"hashed", 2, <<>>, 0>>
           k1 == <<h1>>
           k2 == <<h2>>
           e == <<h3>>
           b1 == Joined(k1, p1)
           b2 == Joined(k2, p2)
           r == Joined(s, b1)
           t == Joined(r, b2)
           D == Joined(t, e)
<1>0. l \in {2, 3} /\ IsSeq(C) /\ Len(C) = l /\ \A i \in 1 .. l : C[i] # Garbage
  BY Cells3Are
<1>1. P = D \/ P = Added(D, Padding)
  <2>1. FieldValue(u, StartName) = c1
    BY FieldValues DEF StartName
  <2>2. FilePayload(u) = Kdbx3Payload(u)
    BY DEF FilePayload
  <2>3. Kdbx3Payload(u) = <<FieldValue(u, StartName)>> \o HashedBlock(0, SubSeq(C, 1, 1))
             \o HashedBlock(1, SubSeq(C, 2, Len(C))) \o <<<<"hashed", 2, <<>>, 0>>>>
    BY Zenon DEF Kdbx3Payload, Cells3, StartName
  <2>4. Kdbx3Payload(u) = D
    BY <2>1, <2>3 DEF HashedBlock, Joined, Part
  <2> HIDE DEF D
  <2> QED  BY <2>2, <2>4 DEF Payload3, WithPadding, Added
<1>2. IsSeq(s) /\ Len(s) = 1 /\ IsSeq(k1) /\ Len(k1) = 1 /\ IsSeq(k2) /\ Len(k2) = 1
      /\ IsSeq(e) /\ Len(e) = 1
  <2> HIDE DEF c1, h1, h2, h3
  <2> QED  BY TuplesAreSeqs
<1>3. s[1] = c1 /\ k1[1] = h1 /\ k2[1] = h2 /\ e[1] = h3
  <2> HIDE DEF c1, h1, h2, h3
  <2> QED  OBVIOUS
<1>4. IsSeq(p1) /\ Len(p1) = 1 /\ p1[1] = C[1]
  <2>1. 1 \in 0 .. Len(C)
    BY <1>0
  <2> HIDE DEF p1
  <2>2. p1 = Part(C, 1, 1)
    BY DEF p1
  <2>3. 1 \in 1 .. 1
    OBVIOUS
  <2> QED  BY <1>0, <2>1, <2>2, <2>3, PartOfBeginning
<1>5. IsSeq(p2) /\ Len(p2) = l - 1 /\ \A i \in 1 .. l - 1 : p2[i] = C[1 + i]
  <2>1. l \in 0 .. Len(C) /\ 2 <= l /\ l - 2 + 1 = l - 1 /\ \A i \in Int : 2 + i - 1 = 1 + i
    BY <1>0
  <2> DEFINE q == Part(C, 2, l)
  <2>2. IsSeq(q) /\ Len(q) = l - 2 + 1 /\ \A i \in 1 .. l - 2 + 1 : q[i] = C[2 + i - 1]
    <3>1. q = Part(C, 2, l) /\ 2 \in Nat \ {0}
      OBVIOUS
    <3> HIDE DEF q
    <3>2. /\ IsSeq(q) /\ Len(q) = IF 2 <= l THEN l - 2 + 1 ELSE 0
          /\ \A i \in 1 .. l - 2 + 1 : q[i] = C[2 + i - 1]
      BY <1>0, <2>1, <3>1, PartIs
    <3> QED  BY <2>1, <3>2
  <2> HIDE DEF q
  <2>3. p2 = q
    BY DEF q
  <2> HIDE DEF p2
  <2>4. Len(p2) = l - 1
    BY <2>1, <2>2, <2>3
  <2> QED  BY <2>1, <2>2, <2>3, <2>4
<1>5a. h1 = <<"hashed", 0, Sha256(p1), 1>> /\ h2 = <<"hashed", 1, Sha256(p2), l - 1>>
  BY <1>4, <1>5
<1> HIDE DEF s, k1, k2, e, p1, p2, h1, h2, h3, c1
<1>6. JoinsTo(k1, p1, b1, 1, 1)
  <2>1. b1 = Joined(k1, p1)
    BY DEF b1
  <2> HIDE DEF b1
  <2> QED  BY <1>2, <1>4, <2>1, JoinedAt
<1>7. JoinsTo(k2, p2, b2, 1, l - 1)
  <2>1. b2 = Joined(k2, p2)
    BY DEF b2
  <2> HIDE DEF b2
  <2> QED  BY <1>2, <1>5, <2>1, JoinedAt
<1>8. IsSeq(b1) /\ Len(b1) = 2 /\ IsSeq(b2) /\ Len(b2) = l
  <2> HIDE DEF b1, b2
  <2> QED  BY <1>0, <1>6, <1>7 DEF JoinsTo
<1>9. JoinsTo(s, b1, r, 1, 2)
  <2>1. r = Joined(s, b1)
    BY DEF r
  <2> HIDE DEF b1, r
  <2> QED  BY <1>2, <1>8, <2>1, JoinedAt
<1>10. IsSeq(r) /\ Len(r) = 3
  <2> HIDE DEF r, b1
  <2> QED  BY <1>9 DEF JoinsTo
<1>11. JoinsTo(r, b2, t, 3, l)
  <2>1. t = Joined(r, b2)
    BY DEF t
  <2> HIDE DEF b2, r, t
  <2> QED  BY <1>8, <1>10, <2>1, JoinedAt
<1>12. IsSeq(t) /\ Len(t) = l + 3
  <2> HIDE DEF t, r, b2
  <2> QED  BY <1>0, <1>11 DEF JoinsTo
<1>13. JoinsTo(t, e, D, l + 3, 1)
  <2>1. D = Joined(t, e)
    BY DEF D
  <2> HIDE DEF t, D
  <2> QED  BY <1>2, <1>12, <2>1, JoinedAt
<1> HIDE DEF b1, b2, r, t, D
<1>14. IsSeq(D) /\ Len(D) = l + 4
  BY <1>0, <1>13 DEF JoinsTo
<1>15. D[1] = c1 /\ D[2] = h1 /\ D[3] = C[1]
  <2>1. /\ 1 \in 1 .. 1 /\ 1 \in 1 .. 2 /\ 2 \in 1 .. 2 /\ 1 \in 1 .. 3 /\ 2 \in 1 .. 3 /\ 3 \in 1 .. 3
        /\ 1 \in 1 .. l + 3 /\ 2 \in 1 .. l + 3 /\ 3 \in 1 .. l + 3 /\ 1 + 1 = 2 /\ 1 + 2 = 3
    BY <1>0
  <2>2. b1[1] = k1[1] /\ b1[1 + 1] = p1[1]
    BY <1>6, <2>1 DEF JoinsTo
  <2>3. r[1] = s[1] /\ r[1 + 1] = b1[1] /\ r[1 + 2] = b1[2]
    BY <1>9, <2>1 DEF JoinsTo
  <2>4. t[1] = r[1] /\ t[2] = r[2] /\ t[3] = r[3]
    BY <1>11, <2>1 DEF JoinsTo
  <2>5. D[1] = t[1] /\ D[2] = t[2] /\ D[3] = t[3]
    BY <1>13, <2>1 DEF JoinsTo
  <2> QED  BY <1>3, <1>4, <2>1, <2>2, <2>3, <2>4, <2>5
<1>16. D[4] = h2
  <2>1. 1 \in 1 .. 1 /\ 1 \in 1 .. l /\ 4 \in 1 .. l + 3 /\ 3 + 1 = 4
    BY <1>0
  <2>2. b2[1] = k2[1]
    BY <1>7, <2>1 DEF JoinsTo
  <2>3. t[3 + 1] = b2[1]
    BY <1>11, <2>1 DEF JoinsTo
  <2>4. D[4] = t[4]
    BY <1>13, <2>1 DEF JoinsTo
  <2> QED  BY <1>3, <2>1, <2>2, <2>3, <2>4
<1>17. ASSUME NEW i \in 1 .. l - 1 PROVE D[4 + i] = C[1 + i]
  <2>1. 1 + i \in 1 .. l /\ 4 + i \in 1 .. l + 3 /\ 3 + (1 + i) = 4 + i
    BY <1>0
  <2>2. b2[1 + i] = p2[i]
    BY <1>7 DEF JoinsTo
  <2>3. t[3 + (1 + i)] = b2[1 + i]
    BY <1>11, <2>1 DEF JoinsTo
  <2>4. D[4 + i] = t[4 + i]
    BY <1>13, <2>1 DEF JoinsTo
  <2> QED  BY <1>5, <2>1, <2>2, <2>3, <2>4
<1>18. D[l + 4] = h3
  <2>1. 1 \in 1 .. 1 /\ (l + 3) + 1 = l + 4
    BY <1>0
  <2>2. D[(l + 3) + 1] = e[1]
    BY <1>13, <2>1 DEF JoinsTo
  <2> QED  BY <1>3, <2>1, <2>2
<1>19. /\ IsSeq(P) /\ Len(P) \in {l + 4, l + 5}
       /\ \A i \in 1 .. l + 4 : P[i] = D[i]
  <2>1. CASE P = D
    BY <1>14, <2>1
  <2>2. CASE P = Added(D, Padding)
    <3>1. /\ IsSeq(P) /\ Len(P) = (l + 4) + 1 /\ \A i \in 1 .. l + 4 : P[i] = D[i]
      BY <1>14, <2>2, AddedIs
    <3> QED  BY <1>0, <3>1
  <2> QED  BY <1>1, <2>1, <2>2
<1>20. /\ 1 \in 1 .. l + 4 /\ 2 \in 1 .. l + 4 /\ 3 \in 1 .. l + 4 /\ 4 \in 1 .. l + 4
       /\ l + 4 \in 1 .. l + 4 /\ \A i \in 1 .. l - 1 : 4 + i \in 1 .. l + 4
  BY <1>0
<1>21. /\ P[1] = c1 /\ P[2] = h1 /\ P[3] = C[1] /\ P[4] = h2 /\ P[l + 4] = h3
       /\ \A i \in 1 .. l - 1 : P[4 + i] = C[1 + i]
  BY <1>15, <1>16, <1>17, <1>18, <1>19, <1>20
<1>22. /\ P[1] = <<StartName, u.n>>
       /\ P[2] = <<"hashed", 0, Sha256(Part(C, 1, 1)), 1>>
       /\ P[4] = <<"hashed", 1, Sha256(Part(C, 2, l)), l - 1>>
       /\ P[l + 4] = <<"hashed", 2, <<>>, 0>>
  BY <1>5a, <1>21 DEF c1, h3, p1, p2
<1> QED  BY <1>0, <1>19, <1>21, <1>22 DEF Payload3Laid

\* The cells of a part of a sequence.
LEMMA CellsOfPart ==
    ASSUME NEW w, IsSeq(w), NEW m \in Nat \ {0}, NEW e \in 0 .. Len(w), NEW q, q = Part(w, m, e)
    PROVE  \A i \in 1 .. e - m + 1 : q[i] = w[m + i - 1]
BY PartIs

\* The block that is at p in the payload P, of the cells a to b of C, and that
\* what was read there is that.
HashedAt(P, C, p, a, b) ==
    /\ IsSeq(C) /\ a \in Nat \ {0} /\ b \in Nat /\ a <= b /\ b <= Len(C)
    /\ IsSeq(payload) /\ p \in Nat \ {0} /\ p = pos
    /\ payload[p][3] = Sha256(Part(C, a, b)) /\ payload[p][4] = b - a + 1
    /\ \A i \in 1 .. b - a + 1 : P[p + i] = C[a + i - 1]

HashedRead(P, C, p, a, b) ==
    /\ HashedCells = Part(C, a, b) /\ p + (b - a + 1) <= Len(payload)
    /\ \A i \in 1 .. b - a + 1 : payload[p + i] = P[p + i]

\* A block whose hash is right is the one that was written there.
LEMMA HashedBlockIs ==
    ASSUME NEW P, NEW C, NEW p, NEW a, NEW b, HashedAt(P, C, p, a, b),
           HashedBlockHere, HashMatches(HashedCells, payload[pos][3])
    PROVE  HashedRead(P, C, p, a, b)
<1> DEFINE n == b - a + 1
           w == Part(C, a, b)
           q == Part(payload, p + 1, p + n)
           l == Len(payload)
<1>0. /\ IsSeq(C) /\ a \in Nat \ {0} /\ b \in Nat /\ a <= b /\ b <= Len(C)
      /\ IsSeq(payload) /\ p \in Nat \ {0} /\ p = pos
      /\ payload[p][3] = Sha256(w) /\ payload[p][4] = n
      /\ \A i \in 1 .. n : P[p + i] = C[a + i - 1]
  BY DEF HashedAt
<1>1. n \in Nat /\ l \in Nat /\ payload[p][4] = n /\ payload[p][3] = Sha256(w)
  BY <1>0, SeqIs
<1>2. HashedCells = q
  BY <1>0, <1>1 DEF HashedCells, Part
<1>3. p + n <= l
  BY <1>0, <1>1 DEF HashedBlockHere
<1>4. q = w
  <2>1. Sha256(w) = Sha256(q)
    BY <1>0, <1>1, <1>2 DEF HashMatches
  <2> HIDE DEF w, q
  <2> QED  BY <2>1 DEF Sha256
<1>5. \A i \in 1 .. n : q[i] = payload[p + i]
  <2> DEFINE m == p + 1
             e == p + n
  <2> HIDE DEF n, l
  <2>1. e \in 0 .. l /\ m \in Nat \ {0} /\ e - m + 1 = n /\ \A i \in Int : m + i - 1 = p + i
    BY <1>0, <1>1, <1>3
  <2>2. q = Part(payload, m, e) /\ l = Len(payload) /\ \A i \in 1 .. n : i \in Int
    BY DEF l
  <2> HIDE DEF q, m, e
  <2>3. \A i \in 1 .. e - m + 1 : q[i] = payload[m + i - 1]
    BY <1>0, <2>1, <2>2, CellsOfPart
  <2> QED  BY <2>1, <2>2, <2>3
<1>6. \A i \in 1 .. n : w[i] = C[a + i - 1]
  <2>1. b \in 0 .. Len(C) /\ w = Part(C, a, b)
    BY <1>0, SeqIs
  <2> HIDE DEF w
  <2> QED  BY <1>0, <2>1, PartIs
<1> HIDE DEF q, w
<1>7. \A i \in 1 .. n : payload[p + i] = P[p + i]
  BY <1>0, <1>4, <1>5, <1>6
<1> QED  BY <1>2, <1>3, <1>4, <1>7 DEF w, HashedRead

\* What the payload of a file that is deciphered with the key of u is, as far
\* as it was told.
LEMMA ToldIs ==
    ASSUME FileInv, NEW cipher, NEW key, Told(cipher, key, payload),
           NEW u \in Makers(origin), FileMaster(u) = key, NEW P, P = Payload3(u),
           NEW n \in 1 .. Len(payload), \A i \in 1 .. n : payload[i] # Garbage
    PROVE  n <= Len(P) /\ \A i \in 1 .. n : payload[i] = P[i]
<1>1. PICK v \in Makers(origin) :
         /\ FileMaster(v) = key /\ n <= Len(WithPadding(v.outer, FilePayload(v)))
         /\ \A i \in 1 .. n : payload[i] = WithPadding(v.outer, FilePayload(v))[i]
  BY DEF Told
<1>2. IsSave(origin)
  BY SavesAre
<1>3. v = u
  BY <1>1, <1>2, MastersDiffer
<1> QED  BY <1>1, <1>3 DEF Payload3

\* A sequence that is not empty has a first element.
LEMMA NotEmpty ==
    ASSUME NEW q, IsSeq(q), q # <<>>
    PROVE  Len(q) \in Nat /\ Len(q) >= 1 /\ 1 \in 1 .. Len(q)
<1>1. Len(q) \in Nat
  BY SeqIs
<1>2. Len(q) # 0
  <2>1. SUFFICES ASSUME Len(q) = 0 PROVE FALSE
    OBVIOUS
  <2>2. IsSeq(<<>>) /\ Len(<<>>) = 0
    BY TuplesAreSeqs
  <2>3. q = <<>>
    BY <2>1, <2>2, SeqsEqual
  <2> QED  BY <2>3
<1> DEFINE l == Len(q)
<1>3. l \in Nat /\ l # 0
  BY <1>1, <1>2
<1> HIDE DEF l
<1>4. l \in Nat /\ l >= 1 /\ 1 \in 1 .. l
  BY <1>3
<1> QED  BY <1>4 DEF l

\* The bytes a KDBX3 payload begins with are nothing else.
LEMMA StartNames == StartName \notin {"inner", "gzip", "fields", "padding", "garbage", "damaged"}
BY Zenon DEF StartName

\* Only the payload of a KDBX3 file begins with the bytes its header names.
LEMMA OtherBeginnings ==
    ASSUME NEW u, IsSave(u), u.format # "KDB3", NEW P, P = WithPadding(u.outer, FilePayload(u)),
           1 <= Len(P)
    PROVE  P[1][1] \in {"inner", "gzip", "fields", "padding"}
<1> DEFINE F == FilePayload(u)
<1>1. IsSeq(F) /\ IsSeq(P) /\ Len(P) \in Nat
  <2> DEFINE E == Secret(u)
  <2>1. IsSeq(F) /\ IsSeq(P)
    BY SecretIs
  <2> QED  BY <2>1, SeqIs
<1>2. P = F \/ P = Added(F, Padding)
  BY DEF WithPadding, Added
<1>3. F = <<>> => P[1] = Padding \/ P = <<>>
  <2>1. SUFFICES ASSUME F = <<>>, P = Added(F, Padding) PROVE P[1] = Padding
    BY <1>2
  <2> HIDE DEF F
  <2>2. P[Len(F) + 1] = Padding /\ Len(F) = 0
    BY <1>1, <2>1, AddedIs, TuplesAreSeqs
  <2> QED  BY <2>2
<1>4. P # <<>>
  <2>1. Len(<<>>) = 0
    BY TuplesAreSeqs
  <2> QED  BY <2>1
<1>5. F # <<>> => P[1] = F[1]
  <2>1. SUFFICES ASSUME F # <<>>, P = Added(F, Padding) PROVE P[1] = F[1]
    BY <1>2
  <2> HIDE DEF F
  <2>2. 1 \in 1 .. Len(F)
    BY <1>1, <2>1, NotEmpty
  <2>3. \A i \in 1 .. Len(F) : P[i] = F[i]
    BY <1>1, <2>1, AddedIs
  <2> QED  BY <2>2, <2>3
<1>6. F # <<>> => F[1][1] \in {"inner", "gzip", "fields"}
  <2>1. SUFFICES ASSUME F # <<>> PROVE F[1][1] \in {"inner", "gzip", "fields"}
    OBVIOUS
  <2>2. CASE u.format = "KDB4"
    <3> DEFINE I == InnerDocument(u)
               a == Len(u.attachments)
    <3>1. F = Compressed(u.compression, I)
      BY <2>2 DEF FilePayload, InnerDocument
    <3>2. InnerLaid(u, I, a)
      BY InnerDocumentIs
    <3>3. I[1][1] = "inner"
      BY <3>2 DEF InnerLaid
    <3> HIDE DEF I, F
    <3> QED  BY <3>1, <3>3 DEF Compressed
  <2>3. CASE u.format = "KDB"
    <3>1. F = KdbPayload(u)
      BY <2>3 DEF FilePayload
    <3>2. F = <<>> \/ F = <<<<"fields", u.db>>, <<"end field">>>>
      BY <3>1 DEF KdbPayload
    <3> DEFINE x == <<"fields", u.db>>
               y == <<"end field">>
    <3>3. F = <<x, y>>
      BY <2>1, <3>2
    <3> HIDE DEF x, y, F
    <3>4. F[1] = x
      BY <3>3
    <3> QED  BY <3>4 DEF x
  <2> QED  BY <2>2, <2>3 DEF IsSave
<1>7. Padding[1] = "padding"
  BY DEF Padding
<1> HIDE DEF F
<1> QED  BY <1>3, <1>4, <1>5, <1>6, <1>7

\* What is known of a KDBX3 header stays,
LEMMA Derived3Kept ==
    ASSUME Derived3, Fixed, header' = header, masterKey' = masterKey,
           inner'.attachments = inner.attachments
    PROVE  Derived3'
BY DEF Derived3, Fixed, Makers

\* The payload begins with the bytes the header names: it is one of KDBX3.
LEMMA Kdbx3StartStep ==
    ASSUME OpeningInv, Kdbx3Start, UNCHANGED origin PROVE OpeningInv'
<1>0. FileInv /\ StreamKeyInv /\ Start3Phase
  BY DEF OpeningInv, Phases, Kdbx3Start
<1>1. /\ Fixed /\ hmacKey' = hmacKey /\ masterKey' = masterKey /\ header' = header /\ inner' = inner
      /\ origin' = origin /\ pos' = pos /\ out' = out /\ data' = data /\ dbKey' = dbKey
      /\ payload' = payload
  BY DEF Fixed, Kdbx3Start, containerVars
<1>2. FileInv' /\ StreamKeyInv'
  BY <1>0, <1>1, FileInvKept, StreamKeyKept
<1> DEFINE st == header[StartName][1]
<1>3. \/ \E e : Fail(e)
      \/ pc' = "hashed blocks" /\ payload # <<>> /\ payload[1] = st
  <2> DEFINE P == Proceed("hashed blocks")
  <2>1. \/ Fail("UnexpectedEof") \/ Fail("IncorrectKey")
        \/ P /\ payload # <<>> /\ payload[1] = st
    BY Zenon DEF Kdbx3Start, StartName
  <2>2. P => pc' = "hashed blocks"
    BY DEF Proceed
  <2> HIDE DEF P, st
  <2> QED  BY <2>1, <2>2
<1>4. CASE \E e : Fail(e)
  <2>1. pc' = "done" /\ result'.kind # "opened"
    BY <1>4, FailReturns
  <2> QED  BY <1>1, <2>1, Returns
<1>5. CASE pc' = "hashed blocks" /\ payload # <<>> /\ payload[1] = st
  <2>1. Derived3 /\ Told3 /\ pos = 2 /\ out = <<>>
    BY <1>0 DEF Start3Phase
  <2>2. st = Damaged \/ \E u \in Makers(origin) : st = <<StartName, u.n>>
    <3>1. st = Damaged \/ \E u \in Makers(origin) : st = FieldValue(u, StartName)
      BY <2>1, Zenon DEF Derived3, StartName
    <3>2. \A u : FieldValue(u, StartName) = <<StartName, u.n>>
      BY FieldValues, Zenon DEF StartName
    <3> HIDE DEF st
    <3> QED  BY <3>1, <3>2
  <2> HIDE DEF st
  <2>3. st[1] \in {"damaged", StartName}
    BY <2>2 DEF Damaged
  <2>4. payload[1] # Garbage
    <3>1. Garbage[1] = "garbage"
      BY DEF Garbage
    <3>2. st[1] # "garbage"
      BY <2>3, StartNames
    <3> QED  BY <1>5, <3>1, <3>2
  <2>5. IsSeq(payload) /\ 1 \in 1 .. Len(payload)
    BY <1>5, <2>1, NotEmpty DEF Told3, Told
  <2>6. PICK u \in Makers(origin) :
            /\ u.outer = header["cipher"][1][1] /\ FileMaster(u) = masterKey
            /\ 1 <= Len(WithPadding(u.outer, FilePayload(u)))
            /\ payload[1] = WithPadding(u.outer, FilePayload(u))[1]
    <3> DEFINE k == header["cipher"][1][1]
    <3>1. Told(k, masterKey, payload)
      BY <2>1 DEF Told3
    <3>2. \A i \in 1 .. 1 : payload[i] # Garbage
      BY <2>4
    <3> HIDE DEF k
    <3>3. PICK u \in Makers(origin) :
            /\ u.outer = k /\ FileMaster(u) = masterKey
            /\ 1 <= Len(WithPadding(u.outer, FilePayload(u)))
            /\ \A i \in 1 .. 1 : payload[i] = WithPadding(u.outer, FilePayload(u))[i]
      BY <2>5, <3>1, <3>2 DEF Told
    <3> QED  BY <3>3 DEF k
  <2>7. IsSave(u)
    BY <1>0, SavesAre
  <2>8. u.format = "KDB3"
    <3>1. SUFFICES ASSUME u.format # "KDB3" PROVE FALSE
      OBVIOUS
    <3>2. payload[1][1] \in {"inner", "gzip", "fields", "padding"}
      BY <2>6, <2>7, <3>1, OtherBeginnings
    <3> QED  BY <1>5, <2>3, <3>2, StartNames
  <2>9. payload[1] = Payload3(u)[1] /\ Opened3(u)
    BY <2>6, <2>8 DEF Payload3, Opened3
  <2>10. Derived3' /\ Told3'
    BY <1>1, <2>1, Derived3Kept DEF Told3, Told
  <2>11. Blocks3Phase'
    <3>1. Opened3(u)'
      BY <1>1, <2>9 DEF Opened3
    <3>2. pos' - 1 <= Len(payload') /\ \A i \in 1 .. pos' - 1 : payload'[i] = Payload3(u)[i]
      <4> DEFINE l == Len(payload)
      <4>1. l \in Nat /\ 1 \in 1 .. l
        BY <2>5, SeqIs
      <4> HIDE DEF l
      <4>2. 1 <= l
        BY <4>1
      <4>3. pos' = 2 /\ payload' = payload
        BY <1>1, <2>1
      <4> USE DEF l
      <4> QED  BY <2>9, <4>2, <4>3
    <3>3. pos' = 2 /\ out' = <<>> /\ u \in Makers(origin')
      BY <1>1, <2>1
    <3> QED  BY <2>10, <3>1, <3>2, <3>3 DEF Blocks3Phase
  <2> QED  BY <1>2, <1>5, <2>11 DEF OpeningInv, Phases
<1> QED  BY <1>3, <1>4, <1>5

\* Where a block may begin, in a payload of which the blocks q were taken.
BlocksTaken(C, l, p, q) ==
    \/ p = 2 /\ q = <<>>
    \/ p = 4 /\ q = <<Part(C, 1, 1)>>
    \/ p = l + 4 /\ q = <<Part(C, 1, 1), Part(C, 2, l)>>

\* The beginning of the payload is that of u, up to the block at p, and so is
\* the cell that is there.
LEMMA BlockHere ==
    ASSUME FileInv, Told3, NEW u \in Makers(origin), Opened3(u), HashedBlockHere,
           NEW P, P = Payload3(u), NEW C, C = Cells3(u), NEW l, l = Len(C),
           NEW p \in Nat \ {0}, p = pos, BlocksTaken(C, l, p, out),
           \A i \in 1 .. p - 1 : payload[i] = P[i]
    PROVE  Payload3Laid(u, P, C, l) /\ IsSeq(payload) /\ payload[p] = P[p]
<1>1. IsSave(u) /\ u.format = "KDB3" /\ FileMaster(u) = masterKey
  BY SavesAre DEF Opened3
<1>2. Payload3Laid(u, P, C, l)
  BY <1>1, Payload3Is
<1>3. IsSeq(payload) /\ Len(payload) \in Nat
  BY SeqIs DEF Told3, Told
<1>4. p <= Len(payload) /\ payload[p][1] = "hashed"
  BY DEF HashedBlockHere
<1>5. payload[p] # Garbage
  BY <1>4 DEF Garbage
<1>6. l \in {2, 3} /\ p \in {2, 4, l + 4}
  BY <1>2 DEF Payload3Laid, BlocksTaken
<1>7. ASSUME NEW i \in 1 .. p - 1 PROVE P[i] # Garbage
  <2>1. \/ i = 1 \/ i = 2 \/ i = 3 \/ i = 4 \/ \E j \in 1 .. l - 1 : i = 4 + j
    <3>1. i \in 1 .. l + 3 /\ i \in Nat
      BY <1>6
    <3>2. i <= 4 \/ (i - 4 \in 1 .. l - 1 /\ i = 4 + (i - 4))
      BY <1>6, <3>1
    <3> QED  BY <3>1, <3>2
  <2>2. P[1] # Garbage /\ P[2] # Garbage /\ P[4] # Garbage
    <3>1. P[1][1] = StartName /\ P[2][1] = "hashed" /\ P[4][1] = "hashed"
      BY <1>2 DEF Payload3Laid
    <3>2. Garbage[1] = "garbage"
      BY DEF Garbage
    <3> QED  BY <3>1, <3>2, StartNames
  <2>3. P[3] # Garbage
    <3>1. 1 \in 1 .. l
      BY <1>6
    <3> QED  BY <1>2, <3>1 DEF Payload3Laid
  <2>4. \A j \in 1 .. l - 1 : P[4 + j] # Garbage
    <3>1. \A j \in 1 .. l - 1 : 1 + j \in 1 .. l
      BY <1>6
    <3> QED  BY <1>2, <3>1 DEF Payload3Laid
  <2> QED  BY <2>1, <2>2, <2>3, <2>4
<1>8. \A i \in 1 .. p : payload[i] # Garbage
  <2>1. \A i \in 1 .. p : i = p \/ i \in 1 .. p - 1
    OBVIOUS
  <2> QED  BY <1>5, <1>7, <2>1
<1>9. \A i \in 1 .. p : payload[i] = P[i]
  <2> DEFINE k == header["cipher"][1][1]
  <2>1. Told(k, masterKey, payload)
    BY DEF Told3
  <2>2. p \in 1 .. Len(payload)
    BY <1>3, <1>4
  <2> HIDE DEF k
  <2> QED  BY <1>1, <1>8, <2>1, <2>2, ToldIs
<1> QED  BY <1>2, <1>3, <1>9

\* Appending to a sequence of one.
LEMMA AddedToOne == ASSUME NEW a, NEW b PROVE Append(<<a>>, b) = <<a, b>>
<1> DEFINE q == <<a>>
           r == Added(q, b)
           t == <<a, b>>
<1>1. IsSeq(q) /\ Len(q) = 1 /\ q[1] = a
  BY TuplesAreSeqs
<1>2. IsSeq(t) /\ Len(t) = 2 /\ t[1] = a /\ t[2] = b
  BY TuplesAreSeqs
<1> HIDE DEF q, t
<1>3. IsSeq(r) /\ Len(r) = Len(q) + 1 /\ r[Len(q) + 1] = b /\ \A i \in 1 .. Len(q) : r[i] = q[i]
  BY <1>1, AddedIs
<1>4. Len(r) = 2 /\ r[1] = a /\ r[2] = b
  BY <1>1, <1>3
<1>5. r = t
  <2> HIDE DEF r
  <2>1. \A i \in 1 .. Len(r) : i = 1 \/ i = 2
    BY <1>4
  <2> QED  BY <1>2, <1>3, <1>4, <2>1, SeqsEqual
<1> QED  BY <1>5 DEF r, q, t, Added

\* and so does what was told of the payload.
LEMMA Told3Kept ==
    ASSUME Told3, header' = header, masterKey' = masterKey, payload' = payload, origin' = origin
    PROVE  Told3'
BY DEF Told3, Told

\* One more hashed block is read.
LEMMA Kdbx3BlockStep ==
    ASSUME OpeningInv, Kdbx3Block, UNCHANGED origin PROVE OpeningInv'
<1>0. FileInv /\ StreamKeyInv /\ Blocks3Phase
  BY DEF OpeningInv, Phases, Kdbx3Block
<1>1. /\ Fixed /\ hmacKey' = hmacKey /\ masterKey' = masterKey /\ header' = header /\ inner' = inner
      /\ origin' = origin /\ data' = data /\ dbKey' = dbKey /\ payload' = payload
      /\ pc = "hashed blocks" /\ pc' = pc
      /\ out' = Added(out, HashedCells) /\ pos' = pos + 1 + payload[pos][4]
      /\ HashedBlockHere /\ payload[pos][4] > 0 /\ HashMatches(HashedCells, payload[pos][3])
  BY DEF Fixed, Kdbx3Block, containerVars, Added
<1>2. FileInv' /\ StreamKeyInv'
  BY <1>0, <1>1, FileInvKept, StreamKeyKept
<1>3. Derived3' /\ Told3'
  <2>1. Derived3 /\ Told3
    BY <1>0 DEF Blocks3Phase
  <2>2. Derived3'
    BY <1>1, <2>1, Derived3Kept
  <2>3. Told3'
    BY <1>1, <2>1, Told3Kept
  <2> QED  BY <2>2, <2>3
<1>4. PICK u \in Makers(origin) :
         /\ Opened3(u)
         /\ pos - 1 <= Len(payload) /\ \A i \in 1 .. pos - 1 : payload[i] = Payload3(u)[i]
         /\ BlocksTaken(Cells3(u), Len(Cells3(u)), pos, out)
  BY <1>0 DEF Blocks3Phase, BlocksTaken, Part
<1> DEFINE C == Cells3(u)
           P == Payload3(u)
           l == Len(C)
<1>5. l \in {2, 3} /\ IsSeq(C)
  <2>1. IsSave(u)
    BY <1>0, SavesAre
  <2> HIDE DEF C
  <2>2. C = Cells3(u)
    BY DEF C
  <2> QED  BY <2>1, <2>2, Cells3Are
<1>6. PICK p \in Nat \ {0} : p = pos
  BY <1>4, <1>5 DEF BlocksTaken
<1>6a. PICK z : z = payload[p][4]
  OBVIOUS
<1>6b. pos' = p + 1 + z /\ z > 0 /\ HashMatches(HashedCells, payload[pos][3]) /\ HashedBlockHere
  BY <1>1, <1>6, <1>6a
<1> HIDE DEF C, P, l
<1>7. Payload3Laid(u, P, C, l) /\ IsSeq(payload) /\ payload[p] = P[p] /\ BlocksTaken(C, l, p, out)
      /\ \A i \in 1 .. p - 1 : payload[i] = P[i]
  <2>1. P = Payload3(u) /\ C = Cells3(u) /\ l = Len(C)
    BY DEF C, P, l
  <2>2. BlocksTaken(C, l, p, out)
    BY <1>4, <1>6, <2>1
  <2>3. \A i \in 1 .. p - 1 : payload[i] = P[i]
    BY <1>4, <1>6, <2>1
  <2>4. Told3
    BY <1>0 DEF Blocks3Phase
  <2>5. Payload3Laid(u, P, C, l) /\ IsSeq(payload) /\ payload[p] = P[p]
    BY <1>0, <1>1, <1>4, <1>6, <2>1, <2>2, <2>3, <2>4, BlockHere
  <2> QED  BY <2>2, <2>3, <2>5
<1>8. CASE p = 2 /\ out = <<>>
  <2>1. payload[p] = <<"hashed", 0, Sha256(Part(C, 1, 1)), 1>> /\ P[3] = C[1] /\ Len(C) = l
    BY <1>7, <1>8 DEF Payload3Laid
  <2>2. HashedCells = Part(C, 1, 1) /\ p + 1 <= Len(payload) /\ payload[3] = P[3]
    <3> DEFINE b == 1
    <3>1. payload[p][3] = Sha256(Part(C, 1, b)) /\ payload[p][4] = b - 1 + 1
      BY <2>1
    <3>2. \A i \in 1 .. b - 1 + 1 : P[p + i] = C[1 + i - 1]
      BY <1>8, <2>1
    <3>3. b \in Nat /\ 1 <= b /\ b <= Len(C)
      BY <1>5, <2>1
    <3> HIDE DEF b
    <3>4. HashedCells = Part(C, 1, b) /\ p + (b - 1 + 1) <= Len(payload)
          /\ \A i \in 1 .. b - 1 + 1 : payload[p + i] = P[p + i]
      <4>1. HashedAt(P, C, p, 1, b)
        BY <1>5, <1>6, <1>7, <3>1, <3>2, <3>3 DEF HashedAt
      <4>2. HashedRead(P, C, p, 1, b)
        BY <1>6b, <4>1, HashedBlockIs
      <4> QED  BY <4>2 DEF HashedRead
    <3>5. b = 1 /\ 1 \in 1 .. 1 - 1 + 1 /\ 2 + 1 = 3 /\ 1 - 1 + 1 = 1
      BY DEF b
    <3> QED  BY <1>8, <3>4, <3>5
  <2>3. out' = <<Part(C, 1, 1)>>
    <3> DEFINE a == Part(C, 1, 1)
    <3>1. out' = Append(<<>>, a)
      BY <1>1, <1>8, <2>2 DEF Added
    <3> HIDE DEF a
    <3>2. out' = <<a>>
      BY <3>1
    <3> QED  BY <3>2 DEF a
  <2>4. pos' = 4
    <3>1. z = 1
      BY <1>6a, <2>1
    <3> QED  BY <1>6b, <1>8, <3>1
  <2>5. \A i \in 1 .. 3 : payload[i] = P[i]
    <3>1. \A i \in 1 .. 3 : i \in 1 .. p - 1 \/ i = p \/ i = 3
      BY <1>8
    <3> QED  BY <1>7, <2>2, <3>1
  <2>6. pos' - 1 <= Len(payload) /\ \A i \in 1 .. pos' - 1 : payload[i] = P[i]
    <3> DEFINE m == Len(payload)
    <3>1. 3 <= m
      BY <1>8, <2>2
    <3> HIDE DEF m
    <3>2. 4 - 1 <= m /\ 4 - 1 = 3
      BY <3>1
    <3> USE DEF m
    <3> QED  BY <2>4, <2>5, <3>2
  <2>7. BlocksTaken(C, l, pos', out')
    BY <2>3, <2>4 DEF BlocksTaken
  <2>8. Blocks3Phase'
    <3>1. Opened3(u)' /\ u \in Makers(origin')
      BY <1>1, <1>4 DEF Opened3
    <3>2. BlocksTaken(Cells3(u), Len(Cells3(u)), pos', out') /\ pos' - 1 <= Len(payload')
          /\ \A i \in 1 .. pos' - 1 : payload'[i] = Payload3(u)[i]
      BY <1>1, <2>6, <2>7 DEF C, P, l
    <3> QED  BY <1>3, <3>1, <3>2 DEF Blocks3Phase, BlocksTaken, Part
  <2> QED  BY <1>1, <1>2, <2>8 DEF OpeningInv, Phases
<1>9. CASE p = 4 /\ out = <<Part(C, 1, 1)>>
  <2>1. payload[p] = <<"hashed", 1, Sha256(Part(C, 2, l)), l - 1>> /\ Len(C) = l
        /\ \A i \in 1 .. l - 1 : P[4 + i] = C[1 + i]
    BY <1>7, <1>9 DEF Payload3Laid
  <2>2. HashedCells = Part(C, 2, l) /\ p + (l - 1) <= Len(payload)
        /\ \A i \in 1 .. l - 1 : payload[p + i] = P[p + i]
    <3>0. l - 2 + 1 = l - 1 /\ \A i \in Int : 2 + i - 1 = 1 + i
      BY <1>5
    <3>1. payload[p][3] = Sha256(Part(C, 2, l)) /\ payload[p][4] = l - 2 + 1
      BY <2>1, <3>0
    <3>2. \A i \in 1 .. l - 2 + 1 : P[p + i] = C[2 + i - 1]
      BY <1>9, <2>1, <3>0
    <3>3. l \in Nat /\ 2 <= l /\ l <= Len(C) /\ 2 \in Nat \ {0}
      BY <1>5, <2>1
    <3>4. HashedCells = Part(C, 2, l) /\ p + (l - 2 + 1) <= Len(payload)
          /\ \A i \in 1 .. l - 2 + 1 : payload[p + i] = P[p + i]
      <4>1. HashedAt(P, C, p, 2, l)
        BY <1>5, <1>6, <1>7, <3>1, <3>2, <3>3 DEF HashedAt
      <4>2. HashedRead(P, C, p, 2, l)
        BY <1>6b, <4>1, HashedBlockIs
      <4> QED  BY <4>2 DEF HashedRead
    <3> QED  BY <3>0, <3>4
  <2>3. out' = <<Part(C, 1, 1), Part(C, 2, l)>>
    <3> DEFINE a == Part(C, 1, 1)
               b == Part(C, 2, l)
    <3>1. out' = Append(<<a>>, b)
      BY <1>1, <1>9, <2>2 DEF Added
    <3> HIDE DEF a, b
    <3>2. out' = <<a, b>>
      BY <3>1, AddedToOne
    <3> QED  BY <3>2 DEF a, b
  <2>4. pos' = l + 4
    <3>1. z = l - 1
      BY <1>6a, <2>1
    <3> QED  BY <1>5, <1>6b, <1>9, <3>1
  <2>5. \A i \in 1 .. l + 3 : payload[i] = P[i]
    <3>1. \A i \in 1 .. l + 3 : i \in 1 .. p - 1 \/ i = p \/ (i - 4 \in 1 .. l - 1 /\ i = p + (i - 4))
      BY <1>5, <1>9
    <3> QED  BY <1>7, <2>2, <3>1
  <2>6. pos' - 1 <= Len(payload) /\ \A i \in 1 .. pos' - 1 : payload[i] = P[i]
    <3> DEFINE m == Len(payload)
    <3>1. 4 + (l - 1) <= m /\ m \in Nat
      BY <1>7, <1>9, <2>2, SeqIs
    <3> HIDE DEF m
    <3>2. l + 4 - 1 <= m /\ l + 4 - 1 = l + 3
      BY <1>5, <3>1
    <3>3. pos' - 1 = l + 3
      BY <1>5, <2>4
    <3> USE DEF m
    <3> QED  BY <2>5, <3>2, <3>3
  <2>7. BlocksTaken(C, l, pos', out')
    BY <2>3, <2>4 DEF BlocksTaken
  <2>8. Blocks3Phase'
    <3>1. Opened3(u)' /\ u \in Makers(origin')
      BY <1>1, <1>4 DEF Opened3
    <3>2. BlocksTaken(Cells3(u), Len(Cells3(u)), pos', out') /\ pos' - 1 <= Len(payload')
          /\ \A i \in 1 .. pos' - 1 : payload'[i] = Payload3(u)[i]
      BY <1>1, <2>6, <2>7 DEF C, P, l
    <3> QED  BY <1>3, <3>1, <3>2 DEF Blocks3Phase, BlocksTaken, Part
  <2> QED  BY <1>1, <1>2, <2>8 DEF OpeningInv, Phases
<1>10. p # l + 4
  <2>1. SUFFICES ASSUME p = l + 4 PROVE FALSE
    OBVIOUS
  <2>2. payload[p] = <<"hashed", 2, <<>>, 0>>
    BY <1>7, <2>1 DEF Payload3Laid
  <2>3. z = 0 /\ z > 0
    BY <1>6a, <1>6b, <2>2
  <2> QED  BY <2>3
<1> QED  BY <1>7, <1>8, <1>9, <1>10 DEF BlocksTaken

\* The first cell and the rest make the whole.
LEMMA TwoParts ==
    ASSUME NEW C, IsSeq(C), NEW l, l = Len(C), l \in {2, 3}
    PROVE  FlattenSeq(<<Part(C, 1, 1), Part(C, 2, l)>>) = C
<1> DEFINE a == Part(C, 1, 1)
           b == Part(C, 2, l)
           q == <<a, b>>
           end == [i \in 0 .. 2 |-> IF i = 0 THEN 0 ELSE IF i = 1 THEN 1 ELSE l]
<1>1. IsSeq(q) /\ Len(q) = 2 /\ q[1] = a /\ q[2] = b
  <2> HIDE DEF a, b
  <2> QED  BY TuplesAreSeqs
<1>2. end[0] = 0 /\ end[1] = 1 /\ end[2] = l
  OBVIOUS
<1> HIDE DEF q, end
<1>3. Tiles(q, C, end)
  <2>1. \A i \in 1 .. Len(q) : i = 1 \/ i = 2
    BY <1>1
  <2>2. /\ end[1 - 1] \in 0 .. Len(C) /\ end[1] \in 0 .. Len(C) /\ end[1 - 1] <= end[1]
        /\ q[1] = Part(C, end[1 - 1] + 1, end[1])
    <3>1. 1 - 1 = 0 /\ 0 + 1 = 1 /\ 0 \in 0 .. Len(C) /\ 1 \in 0 .. Len(C) /\ 0 <= 1
      OBVIOUS
    <3> QED  BY <1>1, <1>2, <3>1
  <2>3. /\ end[2 - 1] \in 0 .. Len(C) /\ end[2] \in 0 .. Len(C) /\ end[2 - 1] <= end[2]
        /\ q[2] = Part(C, end[2 - 1] + 1, end[2])
    <3>1. 2 - 1 = 1 /\ 1 + 1 = 2 /\ l \in 0 .. Len(C) /\ 1 \in 0 .. Len(C) /\ 1 <= l
      OBVIOUS
    <3> QED  BY <1>1, <1>2, <3>1
  <2> QED  BY <1>2, <2>1, <2>2, <2>3 DEF Tiles
<1>4. FlattenSeq(q) = Part(C, 1, end[Len(q)])
  <2>1. Len(q) # 0
    BY <1>1
  <2> QED  BY <1>1, <1>3, <2>1, TilesFlatten
<1>5. Part(C, 1, Len(C)) = C
  <2>1. Len(C) \in 0 .. Len(C)
    OBVIOUS
  <2> QED  BY <2>1, PartOfBeginning
<1>6. FlattenSeq(q) = C
  BY <1>1, <1>2, <1>4, <1>5
<1> QED  BY <1>6 DEF q

\* What a KDBX3 reader makes of the cells that the document of u is kept in.
LEMMA Cells3Inflated ==
    ASSUME NEW u, IsSave(u), NEW c \in Compressions, Inflates(c, Cells3(u)),
           NEW q, q = Inflated(c, Cells3(u))
    PROVE  \/ q = Document(u) /\ c = u.compression
           \/ IsSeq(q) /\ Len(q) = 2
<1> DEFINE C == Cells3(u)
           d == Document(u)
           g1 == <<"gzip", 1, d>>
           g2 == <<"gzip", 2, d>>
           x1 == <<"xml", "open">>
           x2 == BodyCell(u)
           x3 == <<"xml", "close">>
<1>1. u.compression \in Compressions /\ Compressions = {"None", "GZip"}
  BY DEF IsSave, Compressions
<1>2. u.compression = "None" => C = d
  BY DEF Cells3, Compressed
<1>3. u.compression # "None" => C = <<g1, g2>>
  BY DEF Cells3, Compressed
<1>4. d = <<x1, x2, x3>>
  BY DEF Document, BodyCell
<1>5. x1[1] = "xml" /\ g1[3] = d
  OBVIOUS
<1>6. c = "None" => q = C
  BY DEF Inflated
<1>7. c # "None" => C[1][1] = "gzip" /\ q = C[1][3]
  BY DEF Inflates, Inflated
<1> HIDE DEF x1, x2, x3, g1, g2, d, C
<1>8. d[1] = x1
  BY <1>4
<1>9. u.compression # "None" => IsSeq(C) /\ Len(C) = 2 /\ C[1] = g1
  BY <1>3, TuplesAreSeqs
<1>10. CASE u.compression = "None"
  <2>1. c = "None"
    BY <1>2, <1>5, <1>7, <1>8, <1>10
  <2> QED  BY <1>2, <1>6, <1>10, <2>1 DEF d
<1>11. CASE u.compression = "GZip" /\ c = "None"
  BY <1>6, <1>9, <1>11
<1>12. CASE u.compression = "GZip" /\ c = "GZip"
  BY <1>5, <1>7, <1>9, <1>12 DEF d
<1> QED  BY <1>1, <1>10, <1>11, <1>12

\* The document of a KDBX3 file is decompressed.
LEMMA Kdbx3InflateStep ==
    ASSUME OpeningInv, Kdbx3Inflate, UNCHANGED origin PROVE OpeningInv'
<1>0. FileInv /\ StreamKeyInv /\ Blocks3Phase
  BY DEF OpeningInv, Phases, Kdbx3Inflate
<1>1. /\ Fixed /\ hmacKey' = hmacKey /\ masterKey' = masterKey /\ header' = header /\ inner' = inner
      /\ origin' = origin /\ data' = data /\ dbKey' = dbKey /\ pos' = 1
      /\ HashedBlockHere /\ payload[pos][4] = 0
      /\ Inflate(FlattenSeq(out), "xml")
  BY DEF Fixed, Kdbx3Inflate
<1>2. FileInv' /\ StreamKeyInv'
  BY <1>0, <1>1, FileInvKept, StreamKeyKept
<1>3. PICK u \in Makers(origin) :
         /\ Opened3(u)
         /\ pos - 1 <= Len(payload) /\ \A i \in 1 .. pos - 1 : payload[i] = Payload3(u)[i]
         /\ BlocksTaken(Cells3(u), Len(Cells3(u)), pos, out)
  BY <1>0 DEF Blocks3Phase, BlocksTaken, Part
<1> DEFINE C == Cells3(u)
           P == Payload3(u)
           l == Len(C)
           c == header["compression"][1][1]
<1>4. l \in {2, 3} /\ IsSeq(C) /\ IsSave(u)
  <2>1. IsSave(u)
    BY <1>0, SavesAre
  <2> HIDE DEF C
  <2>2. C = Cells3(u)
    BY DEF C
  <2> QED  BY <2>1, <2>2, Cells3Are
<1>5. PICK p \in Nat \ {0} : p = pos
  BY <1>3, <1>4 DEF BlocksTaken
<1> HIDE DEF C, P, l
<1>6. Payload3Laid(u, P, C, l) /\ payload[p] = P[p] /\ BlocksTaken(C, l, p, out)
  <2>1. P = Payload3(u) /\ C = Cells3(u) /\ l = Len(C)
    BY DEF C, P, l
  <2>2. BlocksTaken(C, l, p, out)
    BY <1>3, <1>5, <2>1
  <2>3. \A i \in 1 .. p - 1 : payload[i] = P[i]
    BY <1>3, <1>5, <2>1
  <2>4. Told3
    BY <1>0 DEF Blocks3Phase
  <2>5. Payload3Laid(u, P, C, l) /\ payload[p] = P[p]
    BY <1>0, <1>1, <1>3, <1>5, <2>1, <2>2, <2>3, <2>4, BlockHere
  <2> QED  BY <2>2, <2>5
<1>7. p # 2 /\ p # 4
  <2>1. P[2][4] = 1 /\ P[4][4] = l - 1
    BY <1>6 DEF Payload3Laid
  <2>2. P[p][4] = 0
    BY <1>1, <1>5, <1>6
  <2>3. l - 1 # 0
    BY <1>4
  <2> QED  BY <2>1, <2>2, <2>3
<1>8. FlattenSeq(out) = C
  <2>1. out = <<Part(C, 1, 1), Part(C, 2, l)>>
    BY <1>6, <1>7 DEF BlocksTaken
  <2>2. l = Len(C)
    BY DEF l
  <2>3. FlattenSeq(<<Part(C, 1, 1), Part(C, 2, l)>>) = C
    BY <1>4, <2>2, TwoParts
  <2> QED  BY <2>1, <2>3
<1>9. \/ Inflates(c, C) /\ payload' = Inflated(c, C) /\ pc' = "xml"
      \/ Fail("Compression")
  BY <1>1, <1>8 DEF Inflate, Proceed
<1>10. CASE Fail("Compression")
  <2>1. pc' = "done" /\ result'.kind # "opened"
    BY <1>10, FailReturns
  <2> QED  BY <1>1, <2>1, Returns
<1>11. CASE Inflates(c, C) /\ payload' = Inflated(c, C) /\ pc' = "xml"
  <2>1. Derived3 /\ c \in Compressions
    BY <1>0 DEF Blocks3Phase, Derived3
  <2>2. \/ payload' = Document(u) /\ c = u.compression
        \/ IsSeq(payload') /\ Len(payload') = 2
    <3> DEFINE q == payload'
               k == c
    <3>1. q = Inflated(k, C) /\ Inflates(k, C) /\ k \in Compressions /\ C = Cells3(u)
      BY <1>11, <2>1 DEF C
    <3> HIDE DEF q, k, c
    <3>2. (q = Document(u) /\ k = u.compression) \/ (IsSeq(q) /\ Len(q) = 2)
      BY <1>4, <3>1, Cells3Inflated
    <3> QED  BY <3>2 DEF q, k
  <2>3. Derived3'
    BY <1>1, <2>1, Derived3Kept
  <2>4. Opened3(u)' /\ u \in Makers(origin')
    BY <1>1, <1>3 DEF Opened3
  <2>5. Xml3(u)'
    BY <1>1, <2>2, <2>3, <2>4 DEF Xml3
  <2>6. XmlPhase'
    BY <2>4, <2>5 DEF XmlPhase
  <2> QED  BY <1>2, <1>11, <2>6 DEF OpeningInv, Phases
<1> QED  BY <1>9, <1>10, <1>11

----------------------------------------------------------------------------
(* The KDB container.                                                      *)

\* The header of a KDB file that the cell c is one of is that of t, but for
\* what is damaged.
HeaderOf(t, h) ==
    /\ t.format = "KDB" /\ h.fields = t.db /\ h.rounds = t.kdf[2] /\ h.transformSeed = KdfSeed(t)
    /\ h.hash = Damaged \/ h.hash = Sha256(KdbPayload(t))
    /\ h.iv = Damaged \/ h.iv = FieldValue(t, "iv")

\* The header of a KDB file is that of a save, but for what is damaged.
LEMMA KdbHeaderIs ==
    ASSUME FileInv, 2 \in DOMAIN data, data[2][1] = "kdb header"
    PROVE  \E t \in Makers(origin) : HeaderOf(t, data[2][2])
<1>1. 2 \in 1 .. Len(data)
  BY SavesAre
<1>2. Genuine(origin, data[2])
  BY <1>1 DEF FileInv, IsFile
<1> QED  BY <1>2 DEF Genuine, GenuineHeader, HeaderOf

\* The payload of a KDB file is deciphered.
LEMMA KdbDecryptStep ==
    ASSUME OpeningInv, KdbDecrypt, UNCHANGED origin PROVE OpeningInv'
<1>0. FileInv /\ StreamKeyInv /\ KdbPhase
  BY DEF OpeningInv, Phases, KdbDecrypt
<1>1. /\ Fixed /\ hmacKey' = hmacKey /\ origin' = origin /\ data' = data /\ dbKey' = dbKey /\ pos' = pos
  BY DEF Fixed, KdbDecrypt
<1>2. FileInv' /\ StreamKeyInv'
  BY <1>0, <1>1, FileInvKept, StreamKeyKept
<1> DEFINE h == data[2][2]
           k == KdbMaster(h, dbKey)
           c == h.outer
           iv == h.iv
           cells == Part(data, 3, Len(data))
           D == Deciphered(c, k, iv, cells)
           q == payload'
<1>3. pos = 2
  BY <1>0 DEF KdbPhase
<1>4. 2 \in DOMAIN data /\ data[2][1] = "kdb header" /\ KeyError(dbKey) = "none"
      /\ c \in {"AES256", "Twofish"}
  <2>1. KdbError = "none"
    BY DEF KdbDecrypt
  <2> QED  BY <1>3, <2>1 DEF KdbError, Panic, Present
<1>5. IsSeq(D)
  <2>1. IsSeq(data) /\ Len(data) \in 0 .. Len(data)
    BY <1>0, SavesAre
  <2>2. IsSeq(cells)
    BY <2>1, PartIs
  <2> HIDE DEF cells, c, k, iv
  <2> QED  BY <2>2, DecipheredIs
<1>6. \/ \E e : Fail(e)
      \/ Near(q, D) /\ pc' = "KDB padding"
  <2>1. \/ Padded(D) /\ q = Unpadded(c, D) /\ Proceed("KDB padding")
        \/ Fail("Padding")
        \/ D # <<>> /\ q = Append(Front(D), Garbage) /\ Proceed("KDB padding")
    <3>1. pos + 1 = 3
      BY <1>3
    <3> QED  BY <1>3, <3>1, Zenon DEF KdbDecrypt, Part
  <2> DEFINE R == Proceed("KDB padding")
  <2>2. R => pc' = "KDB padding"
    BY DEF Proceed
  <2> HIDE DEF R, D, q, c
  <2>3. (Padded(D) /\ q = Unpadded(c, D)) \/ (D # <<>> /\ q = Append(Front(D), Garbage)) => Near(q, D)
    BY <1>5, PaddingTaken
  <2> QED  BY <2>1, <2>2, <2>3 DEF R
<1>7. CASE \E e : Fail(e)
  <2>1. pc' = "done" /\ result'.kind # "opened"
    BY <1>7, FailReturns
  <2> QED  BY <1>1, <2>1, Returns
<1>8. CASE Near(q, D) /\ pc' = "KDB padding"
  <2>1. iv = Damaged \/ \E u \in Makers(origin) : iv = FieldValue(u, "iv")
    <3>1. PICK t \in Makers(origin) : HeaderOf(t, h)
      BY <1>0, <1>4, KdbHeaderIs
    <3> HIDE DEF h
    <3> QED  BY <3>1 DEF HeaderOf
  <2>2. Told(c, k, q)
    <3>1. cells = Part(data, 3, Len(data)) /\ D = Deciphered(c, k, iv, cells) /\ 3 \in Nat \ {0}
      OBVIOUS
    <3> HIDE DEF cells, D, iv, k, c, q
    <3> QED  BY <1>0, <1>8, <2>1, <3>1, ToldFrom
  <2>3. Told(data[2][2].outer, KdbMaster(data[2][2], dbKey), payload)'
    BY <1>1, <2>2 DEF Told
  <2>4. KdbPaddingPhase'
    <3>1. KdbPhase'
      BY <1>0, <1>1 DEF KdbPhase
    <3> QED  BY <1>1, <1>4, <2>3, <3>1 DEF KdbPaddingPhase
  <2> QED  BY <1>2, <1>8, <2>4 DEF OpeningInv, Phases
<1> QED  BY <1>6, <1>7, <1>8

\* If the payload without its padding is that of a save, its first cell came
\* out of the cipher.
LEMMA FirstIsTold ==
    ASSUME NEW t, NEW q, IsSeq(q), q # <<>>, WithoutPadding(q) = KdbPayload(t)
    PROVE  q[1] # Garbage
<1> DEFINE x == <<"fields", t.db>>
           y == <<"end field">>
           w == WithoutPadding(q)
           l == Len(q)
<1>1. w = <<>> \/ w = <<x, y>>
  BY DEF KdbPayload
<1>2. x # Garbage /\ Padding # Garbage
  BY DEF Garbage, Padding
<1>3. l \in Nat /\ l >= 1
  BY NotEmpty
<1>4. w = <<>> \/ w[1] = x
  <2> HIDE DEF x, y, w
  <2> QED  BY <1>1
<1>5. CASE q[l] = Padding
  <2>1. w = Part(q, 1, l - 1)
    BY <1>5 DEF WithoutPadding, Last, Front, Part
  <2>2. CASE l = 1
    BY <1>2, <1>5, <2>2
  <2>3. CASE l # 1
    <3> DEFINE n == l - 1
    <3>0. n \in 0 .. l /\ 1 \in 1 .. n
      <4> HIDE DEF l
      <4> QED  BY <1>3, <2>3
    <3>1. w = Part(q, 1, n) /\ l = Len(q)
      BY <2>1
    <3> HIDE DEF n, w, l
    <3>2. IsSeq(w) /\ Len(w) = n /\ \A i \in 1 .. n : w[i] = q[i]
      BY <3>0, <3>1, PartOfBeginning
    <3>3. w[1] = q[1] /\ w # <<>>
      <4>1. Len(<<>>) = 0
        BY TuplesAreSeqs
      <4>2. n # 0
        BY <3>0
      <4> QED  BY <3>0, <3>2, <4>1, <4>2
    <3> QED  BY <1>2, <1>4, <3>3
  <2> QED  BY <2>2, <2>3
<1>6. CASE q[l] # Padding
  <2>1. w = q
    BY <1>6 DEF WithoutPadding, Last
  <2> HIDE DEF w, x
  <2> QED  BY <1>2, <1>4, <2>1
<1> QED  BY <1>5, <1>6

\* The padding is taken off and the hash compared: it is the payload of the
\* save whose header was read, and the key that of this save.
LEMMA KdbPaddingStep ==
    ASSUME OpeningInv, KdbPadding, UNCHANGED origin PROVE OpeningInv'
<1>0. FileInv /\ StreamKeyInv /\ KdbPaddingPhase
  BY DEF OpeningInv, Phases, KdbPadding
<1>1. /\ Fixed /\ hmacKey' = hmacKey /\ origin' = origin /\ data' = data /\ dbKey' = dbKey /\ pos' = pos
  BY DEF Fixed, KdbPadding
<1>2. FileInv' /\ StreamKeyInv'
  BY <1>0, <1>1, FileInvKept, StreamKeyKept
<1> DEFINE h == data[2][2]
           c == h.outer
           k == KdbMaster(h, dbKey)
           w == WithoutPadding(payload)
<1>3. KdbPhase /\ pos = 2 /\ 2 \in DOMAIN data /\ data[2][1] = "kdb header" /\ KeyError(dbKey) = "none"
      /\ Told(c, k, payload)
  BY <1>0 DEF KdbPaddingPhase, KdbPhase
<1>4. \/ \E e : Fail(e)
      \/ payload # <<>> /\ Sha256(w) = h.hash /\ pc' = "KDB fields"
  <2> DEFINE R == Proceed("KDB fields")
  <2>1. \/ \E e : Fail(e)
        \/ payload # <<>> /\ Sha256(w) = h.hash /\ R
    BY <1>3, Zenon DEF KdbPadding
  <2>2. R => pc' = "KDB fields"
    BY DEF Proceed
  <2> HIDE DEF R, w, h
  <2> QED  BY <2>1, <2>2
<1>5. CASE \E e : Fail(e)
  <2>1. pc' = "done" /\ result'.kind # "opened"
    BY <1>5, FailReturns
  <2> QED  BY <1>1, <2>1, Returns
<1>6. CASE payload # <<>> /\ Sha256(w) = h.hash /\ pc' = "KDB fields"
  <2>1. PICK t \in Makers(origin) : HeaderOf(t, h)
    BY <1>0, <1>3, KdbHeaderIs
  <2>2. w = KdbPayload(t)
    <3> DEFINE v == KdbPayload(t)
    <3>1. Sha256(w) = Damaged \/ Sha256(w) = Sha256(v)
      BY <1>6, <2>1 DEF HeaderOf
    <3> HIDE DEF w, v
    <3>2. Sha256(w) # Damaged
      BY DEF Sha256, Damaged
    <3>3. w = v
      BY <3>1, <3>2 DEF Sha256
    <3> QED  BY <3>3 DEF v
  <2>3. IsSeq(payload) /\ 1 \in 1 .. Len(payload)
    BY <1>3, <1>6, NotEmpty DEF Told
  <2>4. payload[1] # Garbage
    BY <1>6, <2>2, <2>3, FirstIsTold
  <2>5. PICK u \in Makers(origin) : u.outer = c /\ FileMaster(u) = k
    <3>1. \A i \in 1 .. 1 : payload[i] # Garbage
      BY <2>4
    <3> HIDE DEF c, k
    <3> QED  BY <1>3, <2>3, <3>1 DEF Told
  <2>6. IsSave(u) /\ u.format = origin.format /\ u.key = origin.key
        /\ IsSave(origin) /\ u.format = t.format /\ IsKey(origin.key) /\ IsKey(dbKey)
    BY <1>0, SavesAre DEF FileInv
  <2>7. u.format = "KDB"
    BY <2>1, <2>6 DEF HeaderOf
  <2>8. h.transformSeed = KdfSeed(u) /\ KdbComposite(dbKey) = KdbComposite(u.key)
    <3> DEFINE a == <<"Aes", h.rounds>>
               x == KdbComposite(dbKey)
               sd == h.seed
               ts == h.transformSeed
    <3>1. FileMaster(u) = MasterKey(sd, TransformKey(a, ts, x))
      BY <2>5 DEF KdbMaster
    <3> HIDE DEF a, x, sd, ts
    <3>2. ts = KdfSeed(u) /\ x = KdbComposite(u.key)
      BY <2>6, <2>7, <3>1, MasterTells
    <3> QED  BY <3>2 DEF ts, x
  <2>9. u = t
    <3>1. KdfSeed(u) = KdfSeed(t)
      BY <2>1, <2>8 DEF HeaderOf
    <3>2. u.n = t.n
      BY <3>1, Zenon DEF KdfSeed
    <3> QED  BY <2>6, <3>2, MakersAre
  <2>10. SameParts(dbKey, origin.key)
    <3>1. KeyError(origin.key) = "none"
      BY <2>6, <2>7 DEF IsSave
    <3> QED  BY <1>3, <2>6, <2>8, <3>1, KdbCompositeTells
  <2>11. KdbFieldsPhase'
    <3>1. KdbPhase'
      BY <1>1, <1>3 DEF KdbPhase
    <3>2. u.format = "KDB" /\ h.outer = u.outer /\ h.rounds = u.kdf[2] /\ h.fields = u.db
      BY <2>1, <2>5, <2>9 DEF HeaderOf
    <3>3. u \in Makers(origin')
      BY <1>1, <2>5
    <3> QED  BY <1>1, <2>10, <3>1, <3>2, <3>3 DEF KdbFieldsPhase
  <2> QED  BY <1>2, <1>6, <2>11 DEF OpeningInv, Phases
<1> QED  BY <1>4, <1>5, <1>6

\* parse_kdb returns what the header of the file announces.
LEMMA KdbEndsStep ==
    ASSUME OpeningInv, KdbEnds, UNCHANGED origin PROVE OpeningInv'
<1>0. FileInv /\ StreamKeyInv /\ KdbFieldsPhase
  BY DEF OpeningInv, Phases, KdbEnds
<1>1. /\ Fixed /\ hmacKey' = hmacKey /\ origin' = origin /\ data' = data /\ dbKey' = dbKey /\ pos = 2
      /\ pc' = "done"
  BY <1>0 DEF Fixed, KdbEnds, KdbFieldsPhase, KdbPhase
<1>2. FileInv' /\ StreamKeyInv'
  BY <1>0, <1>1, FileInvKept, StreamKeyKept
<1> DEFINE h == data[2][2]
<1>3. \/ result' = Failure("Kdb")
      \/ result' = Opened(data[1], h.outer, "None", "Plain", <<>>,
                             <<"Aes", h.rounds>>, Missing, <<>>, <<h.fields, "Plain", <<>>>>)
  BY <1>1 DEF KdbEnds
<1>4. CASE result' = Failure("Kdb")
  <2>1. result'.kind # "opened"
    BY <1>4 DEF Failure
  <2> QED  BY <1>1, <2>1, Returns
<1>5. CASE result' = Opened(data[1], h.outer, "None", "Plain", <<>>,
                             <<"Aes", h.rounds>>, Missing, <<>>, <<h.fields, "Plain", <<>>>>)
  <2>1. PICK u \in Makers(origin) :
          u.format = "KDB" /\ h.outer = u.outer /\ h.rounds = u.kdf[2] /\ h.fields = u.db
    BY <1>0 DEF KdbFieldsPhase
  <2>2. IsSave(u)
    BY <1>0, SavesAre
  <2>3. u.public = Missing /\ u.attachments = <<>> /\ u.compression = "None"
        /\ u.kdf = <<u.kdf[1], u.kdf[2]>> /\ u.kdf[1] = "Aes"
    BY <2>1, <2>2 DEF IsSave
  <2> DEFINE v == <<"version", u.format, u.minor>>
             same == SameStream("Plain", <<>>, "Plain", <<>>)
             k == StreamKey(u)
             same2 == SameStream(u.inner, k, u.inner, k)
             d1 == <<h.fields, "Plain", <<>>>>
             d2 == <<u.db, u.inner, k>>
  <2>4. <<"Aes", h.rounds>> = u.kdf
    BY <2>1, <2>3
  <2>5. data[1][2] = "KDB" /\ v[2] = "KDB"
    BY <1>0, <2>1 DEF KdbFieldsPhase, KdbPhase
  <2>6. result' = Opened(data[1], u.outer, "None", "Plain", <<>>, u.kdf, Missing, <<>>, d1)
    BY <1>5, <2>1, <2>4
  <2>7. Contents(u) = Opened(v, u.outer, "None", u.inner, k, u.kdf, Missing, <<>>, d2)
    BY <2>1, <2>3 DEF Contents
  <2>8. d1[1] = u.db /\ d1[2] = "Plain" /\ d1[3] = <<>> /\ d2[1] = u.db /\ d2[2] = u.inner /\ d2[3] = k
    BY <2>1
  <2> DEFINE i == u.inner
             o == u.outer
             f == u.kdf
             b == u.db
             plain == "Plain"
  <2>9. Contents(u) = [kind |-> "opened", version |-> v, outer |-> o, compression |-> "None",
                       inner |-> i, kdf |-> f, public |-> Missing, attachments |-> <<>>,
                       db |-> b, legible |-> same2]
    BY <2>7, <2>8 DEF Opened
  <2>10. result' = [kind |-> "opened", version |-> data[1], outer |-> o, compression |-> "None",
                       inner |-> plain, kdf |-> f, public |-> Missing, attachments |-> <<>>,
                       db |-> b, legible |-> same]
    BY <2>6, <2>8 DEF Opened
  <2> HIDE DEF v, same, same2, d1, d2, k, i, o, f, b, plain
  <2>11. v[2] # "KDB4" /\ data[1][2] # "KDB4"
    BY <2>5
  <2>12. Promised(result') = Promised(Contents(u))
    BY <2>9, <2>10, <2>11, PromisedSame
  <2>13. OneOf({origin, Earlier(origin)})'
    BY <1>1, <2>12 DEF OneOf, Makers
  <2>14. SameParts(dbKey, origin.key)'
    BY <1>0, <1>1 DEF KdbFieldsPhase
  <2> QED  BY <1>1, <1>2, <2>13, <2>14 DEF OpeningInv, Phases, DonePhase
<1> QED  BY <1>3, <1>4, <1>5

\* Reading its fields changes nothing else.
LEMMA KdbReadStep ==
    ASSUME OpeningInv, KdbStart \/ KdbField, UNCHANGED origin PROVE OpeningInv'
<1>0. FileInv /\ StreamKeyInv /\ KdbFieldsPhase
  BY DEF OpeningInv, Phases, KdbStart, KdbField
<1>1. UNCHANGED readerVars /\ pc = "KDB fields"
  BY DEF KdbStart, KdbField
<1>2. /\ Fixed /\ hmacKey' = hmacKey /\ origin' = origin /\ data' = data /\ dbKey' = dbKey /\ pos' = pos
      /\ pc' = "KDB fields"
  BY <1>1 DEF Fixed, readerVars, blockVars
<1>3. FileInv' /\ StreamKeyInv'
  BY <1>0, <1>2, FileInvKept, StreamKeyKept
<1>4. KdbFieldsPhase'
  BY <1>0, <1>2 DEF KdbFieldsPhase, KdbPhase
<1> QED  BY <1>2, <1>3, <1>4 DEF OpeningInv, Phases

----------------------------------------------------------------------------
(* Every step.                                                             *)

\* The steps that return an error, or the version.
LEMMA FailStep ==
    ASSUME OpeningInv, UNCHANGED origin,
           \/ BadVersion \/ GetVersion \/ Unsupported
           \/ Kdbx4HeaderFails \/ Kdbx4Refused \/ InnerFails
           \/ Kdbx3HeaderFails \/ Kdbx3Refused \/ Kdbx3BlockFails
           \/ KdbRefused
    PROVE  OpeningInv'
<1>1. Fixed /\ hmacKey' = hmacKey
  BY DEF Fixed, BadVersion, GetVersion, Unsupported, Kdbx4HeaderFails, HeaderFails, Kdbx4Refused,
         InnerFails, Kdbx3HeaderFails, Kdbx3Refused, Kdbx3BlockFails, KdbRefused
<1>2. (\E e : Fail(e)) \/ GetVersion
  BY Zenon DEF BadVersion, Unsupported, Kdbx4HeaderFails, HeaderFails, Kdbx4Refused,
         InnerFails, Kdbx3HeaderFails, Kdbx3Refused, Kdbx3BlockFails, KdbRefused
<1>3. pc' = "done" /\ result'.kind # "opened"
  <2>1. CASE \E e : Fail(e)
    BY <2>1, FailReturns
  <2>2. CASE GetVersion
    BY <2>2 DEF GetVersion
  <2> QED  BY <1>2, <2>1, <2>2
<1> QED  BY <1>1, <1>3, Returns

\* The fields of the formats are fields.
LEMMA KnownFields == Kdbx4Fields \in SUBSET Fields /\ Kdbx3Fields \in SUBSET Fields
BY Zenon DEF Kdbx4Fields, Kdbx4Required, Kdbx3Fields, Fields

\* The steps of the outer header.
LEMMA HeaderStep ==
    ASSUME OpeningInv, UNCHANGED origin,
           Kdbx4Field \/ Kdbx3Field \/ Kdbx4HeaderEnds \/ Kdbx3HeaderEnds
    PROVE  OpeningInv'
<1>1. FileInv /\ StreamKeyInv
  BY DEF OpeningInv
<1>2. Fixed /\ hmacKey' = hmacKey
  BY DEF Fixed, Kdbx4Field, Kdbx3Field, Kdbx4HeaderEnds, Kdbx3HeaderEnds, HeaderField, HeaderEnds
<1>3. FileInv' /\ StreamKeyInv'
  BY <1>1, <1>2, FileInvKept, StreamKeyKept
<1>4. CASE Kdbx4Field
  <2>1. HeaderField("KDB4", Kdbx4Fields) /\ pc = "KDB4" /\ pc' = "KDB4"
    BY <1>4 DEF Kdbx4Field, HeaderField
  <2>2. HeaderPhase("KDB4", Kdbx4Fields)
    BY <2>1 DEF OpeningInv, Phases
  <2>3. HeaderPhase("KDB4", Kdbx4Fields)'
    BY <1>1, <2>1, <2>2, KnownFields, HeaderFieldStep
  <2> QED  BY <1>3, <2>1, <2>3 DEF OpeningInv, Phases
<1>5. CASE Kdbx3Field
  <2>1. HeaderField("KDB3", Kdbx3Fields) /\ pc = "KDB3" /\ pc' = "KDB3"
    BY <1>5 DEF Kdbx3Field, HeaderField
  <2>2. HeaderPhase("KDB3", Kdbx3Fields)
    BY <2>1 DEF OpeningInv, Phases
  <2>3. HeaderPhase("KDB3", Kdbx3Fields)'
    BY <1>1, <2>1, <2>2, KnownFields, HeaderFieldStep
  <2> QED  BY <1>3, <2>1, <2>3 DEF OpeningInv, Phases
<1>6. ASSUME NEW format, NEW required, NEW to, HeaderEnds(format, required, to), to # "done"
      PROVE  pc' # "done" \/ (pc' = "done" /\ result'.kind # "opened")
  <2>1. CASE Fail("Incomplete")
    BY <2>1, FailReturns
  <2>2. CASE Proceed(to)
    BY <1>6, <2>2 DEF Proceed
  <2>3. Fail("Incomplete") \/ Proceed(to)
    BY <1>6, Zenon DEF HeaderEnds
  <2> QED  BY <2>1, <2>2, <2>3
<1>7. CASE Kdbx4HeaderEnds
  <2>1. HeaderEnds("KDB4", Kdbx4Required, "KDB4 body") /\ pc = "KDB4"
    BY <1>7 DEF Kdbx4HeaderEnds, HeaderEnds
  <2>2. HeaderPhase("KDB4", Kdbx4Fields)
    BY <2>1 DEF OpeningInv, Phases
  <2>3. CASE pc' = "done" /\ result'.kind # "opened"
    BY <1>2, <2>3, Returns
  <2>4. CASE pc' # "done"
    <3>1. BodyPhase("KDB4", Kdbx4Fields, Kdbx4Required)' /\ pc' = "KDB4 body"
      BY <1>1, <2>1, <2>2, <2>4, HeaderEndsStep
    <3> QED  BY <1>3, <3>1 DEF OpeningInv, Phases
  <2>5. "KDB4 body" # "done"
    BY Zenon
  <2>6. pc' # "done" \/ (pc' = "done" /\ result'.kind # "opened")
    BY <1>6, <2>1, <2>5, Zenon
  <2> QED  BY <2>3, <2>4, <2>6
<1>8. CASE Kdbx3HeaderEnds
  <2>1. HeaderEnds("KDB3", Kdbx3Fields, "KDB3 body") /\ pc = "KDB3"
    BY <1>8 DEF Kdbx3HeaderEnds, HeaderEnds
  <2>2. HeaderPhase("KDB3", Kdbx3Fields)
    BY <2>1 DEF OpeningInv, Phases
  <2>3. CASE pc' = "done" /\ result'.kind # "opened"
    BY <1>2, <2>3, Returns
  <2>4. CASE pc' # "done"
    <3>1. BodyPhase("KDB3", Kdbx3Fields, Kdbx3Fields)' /\ pc' = "KDB3 body"
      BY <1>1, <2>1, <2>2, <2>4, HeaderEndsStep
    <3> QED  BY <1>3, <3>1 DEF OpeningInv, Phases
  <2>5. "KDB3 body" # "done"
    BY Zenon
  <2>6. pc' # "done" \/ (pc' = "done" /\ result'.kind # "opened")
    BY <1>6, <2>1, <2>5, Zenon
  <2> QED  BY <2>3, <2>4, <2>6
<1> QED  BY <1>4, <1>5, <1>7, <1>8

\* Nothing changes,
LEMMA Stutters ==
    ASSUME OpeningInv, UNCHANGED vars PROVE OpeningInv'
<1>1. /\ Fixed /\ hmacKey' = hmacKey /\ pc' = pc /\ pos' = pos /\ out' = out /\ index' = index
      /\ inner' = inner /\ header' = header /\ masterKey' = masterKey /\ payload' = payload
      /\ result' = result /\ data' = data /\ dbKey' = dbKey /\ origin' = origin /\ written' = written
  BY DEF vars, readerVars, blockVars, containerVars, Fixed
<1>2. FileInv' /\ StreamKeyInv'
  BY <1>1, FileInvKept, StreamKeyKept DEF OpeningInv
<1>3. ASSUME NEW format, NEW known, HeaderPhase(format, known) PROVE HeaderPhase(format, known)'
  BY <1>1, <1>3 DEF HeaderPhase, HeaderRead, Fresh
<1>4. ASSUME NEW format, NEW known, NEW required, BodyPhase(format, known, required)
      PROVE  BodyPhase(format, known, required)'
  <2>1. HeaderPhase(format, known)'
    BY <1>3, <1>4 DEF BodyPhase
  <2> QED  BY <1>1, <1>4, <2>1 DEF BodyPhase
<1>5. ASSUME NEW u, Verified(u) PROVE Verified(u)'
  BY <1>1, <1>5, VerifiedKept
<1>6. BlocksPhase => BlocksPhase'
  BY <1>1, <1>5 DEF BlocksPhase, PrefixOfWritten
<1>7. Decrypt4Phase => Decrypt4Phase'
  BY <1>1, <1>5 DEF Decrypt4Phase, PrefixOfWritten
<1>8. Inflate4Phase => Inflate4Phase'
  BY <1>1, <1>5 DEF Inflate4Phase
<1>9. InnerPhase => InnerPhase'
  BY <1>1, <1>5 DEF InnerPhase, InnerRead
<1>10. Derived3 => Derived3'
  BY <1>1, Derived3Kept
<1>11. Told3 => Told3'
  BY <1>1, Told3Kept
<1>12. ASSUME NEW u, Opened3(u) PROVE Opened3(u)'
  BY <1>1, <1>12 DEF Opened3
<1>13. Decrypt3Phase => Decrypt3Phase'
  BY <1>1, <1>10 DEF Decrypt3Phase
<1>14. Start3Phase => Start3Phase'
  BY <1>1, <1>10, <1>11 DEF Start3Phase
<1>15. Blocks3Phase => Blocks3Phase'
  BY <1>1, <1>10, <1>11, <1>12 DEF Blocks3Phase
<1>16. XmlPhase => XmlPhase'
  <2>1. ASSUME NEW u, Xml4(u) PROVE Xml4(u)'
    BY <1>1, <1>5, <2>1 DEF Xml4, InnerIs
  <2>2. ASSUME NEW u, Xml3(u) PROVE Xml3(u)'
    BY <1>1, <1>10, <1>12, <2>2 DEF Xml3
  <2> QED  BY <1>1, <2>1, <2>2 DEF XmlPhase
<1>17. KdbPhase => KdbPhase'
  BY <1>1 DEF KdbPhase
<1>18. KdbPaddingPhase => KdbPaddingPhase'
  BY <1>1, <1>17 DEF KdbPaddingPhase, Told
<1>19. KdbFieldsPhase => KdbFieldsPhase'
  BY <1>1, <1>17 DEF KdbFieldsPhase
<1>20. DonePhase => DonePhase'
  BY <1>1 DEF DonePhase, OneOf
<1>21. (VersionPhase => VersionPhase')
  BY <1>1 DEF VersionPhase, Fresh
<1>22. Phases'
  <2>1. Phases
    BY DEF OpeningInv
  <2>2. /\ HeaderPhase("KDB4", Kdbx4Fields) => HeaderPhase("KDB4", Kdbx4Fields)'
        /\ HeaderPhase("KDB3", Kdbx3Fields) => HeaderPhase("KDB3", Kdbx3Fields)'
    BY <1>3
  <2>3. /\ BodyPhase("KDB4", Kdbx4Fields, Kdbx4Required) => BodyPhase("KDB4", Kdbx4Fields, Kdbx4Required)'
        /\ BodyPhase("KDB3", Kdbx3Fields, Kdbx3Fields) => BodyPhase("KDB3", Kdbx3Fields, Kdbx3Fields)'
    BY <1>4
  <2>4. pc' = pc
    BY <1>1
  <2>5. /\ pc' = "version" => VersionPhase'
        /\ pc' = "KDB4" => HeaderPhase("KDB4", Kdbx4Fields)'
        /\ pc' = "KDB4 body" => BodyPhase("KDB4", Kdbx4Fields, Kdbx4Required)'
        /\ pc' = "blocks" => BlocksPhase'
        /\ pc' = "decrypt" => Decrypt4Phase'
        /\ pc' = "inflate" => Inflate4Phase'
    BY <1>6, <1>7, <1>8, <1>21, <2>2, <2>3, <2>1, <2>4, Zenon DEF Phases
  <2>6. /\ pc' = "inner" => InnerPhase'
        /\ pc' = "KDB3" => HeaderPhase("KDB3", Kdbx3Fields)'
        /\ pc' = "KDB3 body" => BodyPhase("KDB3", Kdbx3Fields, Kdbx3Fields)'
        /\ pc' = "decrypt3" => Decrypt3Phase'
        /\ pc' = "stream start" => Start3Phase'
        /\ pc' = "hashed blocks" => Blocks3Phase'
    BY <1>9, <1>13, <1>14, <1>15, <2>2, <2>3, <2>1, <2>4, Zenon DEF Phases
  <2>7. /\ pc' = "xml" => XmlPhase'
        /\ pc' = "KDB" => KdbPhase'
        /\ pc' = "KDB padding" => KdbPaddingPhase'
        /\ pc' = "KDB fields" => KdbFieldsPhase'
        /\ pc' = "done" => DonePhase'
    BY <1>16, <1>17, <1>18, <1>19, <1>20, <2>1, <2>4, Zenon DEF Phases
  <2> QED  BY <2>5, <2>6, <2>7, Zenon DEF Phases
<1> QED  BY <1>2, <1>22 DEF OpeningInv

\* and every step keeps the invariant.
LEMMA NextStep ==
    ASSUME OpeningInv, [Next]_vars PROVE OpeningInv'
<1>1. CASE UNCHANGED vars
  BY <1>1, Stutters
<1>2. CASE Next
  <2> USE <1>2
  <2>0. UNCHANGED origin
    BY DEF Next
  <2>1. \/ BadVersion \/ GetVersion \/ Unsupported \/ Dispatch
        \/ Kdbx4Next \/ Kdbx3Next
        \/ GetXml \/ BadXml \/ ParseXml(OpenedKdf)
        \/ KdbRefused \/ KdbDecrypt \/ KdbPadding \/ KdbStart \/ KdbField \/ KdbEnds
    BY DEF Next, OpeningStep, ContainerStep
  <2>2. CASE BadVersion \/ GetVersion \/ Unsupported \/ KdbRefused
    BY <2>0, <2>2, FailStep
  <2>3. CASE Dispatch
    BY <2>0, <2>3, DispatchStep
  <2>4. CASE Kdbx4Next
    <3>1. CASE Kdbx4Field \/ Kdbx4HeaderEnds
      BY <2>0, <3>1, HeaderStep
    <3>2. CASE Kdbx4HeaderFails \/ Kdbx4Refused \/ InnerFails
      BY <2>0, <3>2, FailStep
    <3>3. CASE Kdbx4Verified
      BY <2>0, <3>3, Kdbx4VerifiedStep
    <3>4. CASE Kdbx4Block
      BY <2>0, <3>4, Kdbx4BlockStep
    <3>5. CASE Kdbx4Decrypt
      BY <2>0, <3>5, Kdbx4DecryptStep
    <3>6. CASE Kdbx4Inflate
      BY <2>0, <3>6, Kdbx4InflateStep
    <3>7. CASE InnerField
      BY <2>0, <3>7, InnerFieldStep
    <3>8. CASE InnerEnds
      BY <2>0, <3>8, InnerEndsStep
    <3> QED  BY <2>4, <3>1, <3>2, <3>3, <3>4, <3>5, <3>6, <3>7, <3>8 DEF Kdbx4Next
  <2>5. CASE Kdbx3Next
    <3>1. CASE Kdbx3Field \/ Kdbx3HeaderEnds
      BY <2>0, <3>1, HeaderStep
    <3>2. CASE Kdbx3HeaderFails \/ Kdbx3Refused \/ Kdbx3BlockFails
      BY <2>0, <3>2, FailStep
    <3>3. CASE Kdbx3Derive
      BY <2>0, <3>3, Kdbx3DeriveStep
    <3>4. CASE Kdbx3Decrypt
      BY <2>0, <3>4, Kdbx3DecryptStep
    <3>5. CASE Kdbx3Start
      BY <2>0, <3>5, Kdbx3StartStep
    <3>6. CASE Kdbx3Block
      BY <2>0, <3>6, Kdbx3BlockStep
    <3>7. CASE Kdbx3Inflate
      BY <2>0, <3>7, Kdbx3InflateStep
    <3> QED  BY <2>5, <3>1, <3>2, <3>3, <3>4, <3>5, <3>6, <3>7 DEF Kdbx3Next
  <2>6. CASE GetXml \/ BadXml \/ ParseXml(OpenedKdf)
    BY <2>0, <2>6, XmlStep
  <2>7. CASE KdbDecrypt
    BY <2>0, <2>7, KdbDecryptStep
  <2>8. CASE KdbPadding
    BY <2>0, <2>8, KdbPaddingStep
  <2>9. CASE KdbStart \/ KdbField
    BY <2>0, <2>9, KdbReadStep
  <2>10. CASE KdbEnds
    BY <2>0, <2>10, KdbEndsStep
  <2> QED  BY <2>1, <2>2, <2>3, <2>4, <2>5, <2>6, <2>7, <2>8, <2>9, <2>10
<1> QED  BY <1>1, <1>2

----------------------------------------------------------------------------
(* What was proved.                                                        *)

\* At each step of a call, what was read so far is what one save wrote, up to
\* where the reader is.
THEOREM OpeningInvariant == Spec => []OpeningInv
<1>1. Init => OpeningInv
  BY InvInit
<1>2. OpeningInv /\ [Next]_vars => OpeningInv'
  BY NextStep
<1> QED  BY <1>1, <1>2, PTL DEF Spec

\* Whatever has become of a file, and with whatever key, a database that opens
\* is one that was written to it as a whole, and the key has the parts of the
\* one it was written with.
THEOREM OpenedAsWritten == Spec => []OpenedIsWritten
<1>1. OpeningInv => OpenedIsWritten
  <2>1. SUFFICES ASSUME OpeningInv PROVE OpenedIsWritten
    OBVIOUS
  <2>2. pc = "done" => DonePhase
    BY <2>1 DEF OpeningInv, Phases
  <2> QED  BY <2>2 DEF OpenedIsWritten, IsOpened, DonePhase
<1> QED  BY <1>1, OpeningInvariant, PTL

\* A block that the reader of a stream takes is the one that was written there.
THEOREM NothingForged == Spec => []Unforged
<1>1. OpeningInv => Unforged
  BY UnforgedHolds DEF OpeningInv
<1> QED  BY <1>1, OpeningInvariant, PTL

=============================================================================
