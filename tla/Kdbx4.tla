-------------------------------- MODULE Kdbx4 --------------------------------
(***************************************************************************)
(* The KDBX4 container (src/src/format/kdbx4): how dump_kdbx4 writes a     *)
(* file and in which pieces, and how decrypt_kdbx4 takes one apart.        *)
(***************************************************************************)
EXTENDS Reader

\* Field types of the outer header; all but "public" are required.
Kdbx4Required == {"cipher", "compression", "seed", "iv", "kdf"}
Kdbx4Fields == Kdbx4Required \cup {"public"}

MasterOf(seed, kdf, kdfSeed, key) == MasterKey(seed, TransformKey(kdf, kdfSeed, CompositeKey(key)))
HmacOf(seed, kdf, kdfSeed, key) == HmacKey(seed, TransformKey(kdf, kdfSeed, CompositeKey(key)))

HeaderMac(key, cells) == Hmac(BlockKey(HeaderIndex, key), cells)

----------------------------------------------------------------------------
(* The writer.                                                             *)

\* KDBX4OuterHeader::dump; other programs write other layouts.
OwnLayout(s) ==
    <<"cipher", "compression", "iv", "seed", "kdf">>
    \o (IF s.public = Missing THEN <<>> ELSE <<"public">>)

OuterHeader(s) ==
    <<<<"version", s.format, s.minor>>>>
    \o [i \in DOMAIN s.layout |-> <<"field", s.layout[i], FieldValue(s, s.layout[i])>>]
    \o <<<<"end">>>>

InnerHeader(s) ==
    <<<<"inner", "stream id", <<s.inner>>>>, <<"inner", "stream key", StreamKey(s)>>>>
    \o [i \in DOMAIN s.attachments |-> <<"inner", "binary", s.attachments[i]>>]
    \o <<<<"inner", "end", <<>>>>>>

\* The key of a save, after the challenge, and the keys derived from it
SaveKey(s) == Challenged(s.key, KdfSeed(s))
SaveMaster(s) == MasterOf(FieldValue(s, "seed"), s.kdf, KdfSeed(s), SaveKey(s))
SaveHmacKey(s) == HmacOf(FieldValue(s, "seed"), s.kdf, KdfSeed(s), SaveKey(s))

Ciphertext(s) ==
    Encrypted(s.outer, SaveMaster(s), FieldValue(s, "iv"),
              Compressed(s.compression, InnerHeader(s) \o Document(s)))

\* The blocks of a save: s.blocks cells each, all in one if that is none.
Chunks(cells, size) ==
    IF size = 0 THEN BlocksOf(cells)
    ELSE [i \in 1 .. (Len(cells) + size - 1) \div size |->
            SubSeq(cells, (i - 1) * size + 1,
                   IF i * size < Len(cells) THEN i * size ELSE Len(cells))]

WrittenBlocks(s) == Chunks(Ciphertext(s), s.blocks)

\* dump_kdbx4 refuses any version but 4.1, then a challenge that fails, before
\* it writes; no key element and a key derivation that fails come after the
\* header.
RefusedAtOnce(s, plugged) ==
    IF s.format # "KDB4" \/ s.minor # 1 THEN "UnsupportedVersion"
    ELSE IF ChallengeFails(s.key, plugged) THEN "ChallengeResponse"
    ELSE "none"

RefusedLater(s) ==
    IF KeyError(SaveKey(s)) # "none" THEN KeyError(SaveKey(s))
    ELSE IF ~KdfWorks(s.kdf) THEN "Kdf"
    ELSE "none"

\* What is written before and after that.
HeaderPart(s) == OuterHeader(s) \o <<<<"sha256", Sha256(OuterHeader(s))>>>>
BodyPart(s) ==
    <<<<"hmac", HeaderMac(SaveHmacKey(s), OuterHeader(s))>>>>
    \o Stream(WrittenBlocks(s), SaveHmacKey(s))

Kdbx4File(s) == HeaderPart(s) \o BodyPart(s)

----------------------------------------------------------------------------
(* The reader.                                                             *)

Kdbx4Field == HeaderField("KDB4", Kdbx4Fields)
Kdbx4HeaderFails == HeaderFails("KDB4", Kdbx4Fields)
Kdbx4HeaderEnds == HeaderEnds("KDB4", Kdbx4Required, "KDB4 body")

HeaderData == SubSeq(data, 1, pos - 1)
HeaderKdf == header["kdf"][1][2]
HeaderKdfSeed == header["kdf"][1][3]
HeaderHmacKey(key) == HmacOf(header["seed"][1], HeaderKdf, HeaderKdfSeed, key)

ChecksIncorrect_Never(key) == FALSE
ChecksIncorrect(key) ==
    data[pos + 1] # <<"hmac", HeaderMac(HeaderHmacKey(key), HeaderData)>>

\* The checks of the header and the key, in the order of decrypt_kdbx4.
Kdbx4Error ==
    LET key == Challenged(dbKey, HeaderKdfSeed)
    IN IF ~Present(pos) \/ ~Present(pos + 1) THEN "UnexpectedEof"
       ELSE IF data[pos] # <<"sha256", Sha256(HeaderData)>> THEN "HeaderHashMismatch"
       ELSE IF ChallengeFails(dbKey, devices) THEN "ChallengeResponse"
       ELSE IF KeyError(key) # "none" THEN KeyError(key)
       ELSE IF ~KdfWorks(HeaderKdf) THEN "Kdf"
       ELSE IF ChecksIncorrect(key) THEN "IncorrectKey"
       ELSE "none"

Kdbx4Refused ==
    /\ pc = "KDB4 body" /\ Kdbx4Error # "none"
    /\ Fail(Kdbx4Error)
    /\ UNCHANGED <<data, pos, index, out, hmacKey, written, op, dbKey, devices, containerVars>>

Kdbx4Verified ==
    /\ pc = "KDB4 body" /\ Kdbx4Error = "none"
    /\ LET key == Challenged(dbKey, HeaderKdfSeed)
       IN /\ hmacKey' = HeaderHmacKey(key)
          /\ masterKey' = MasterOf(header["seed"][1], HeaderKdf, HeaderKdfSeed, key)
    /\ Proceed("blocks") /\ pos' = pos + 2
    /\ UNCHANGED <<data, index, out, written, op, dbKey, devices, header, payload, inner>>

Kdbx4Block ==
    ReadStream /\ UNCHANGED <<op, dbKey, devices, containerVars>>

Kdbx4Decrypt ==
    /\ pc = "decrypt"
    /\ Decipher(FlattenSeq(out), "inflate")
    /\ UNCHANGED <<data, pos, index, out, hmacKey, written, op, dbKey, devices,
                   header, masterKey, inner>>

Kdbx4Inflate ==
    /\ pc = "inflate"
    /\ Inflate(payload, "inner") /\ pos' = 1
    /\ UNCHANGED <<data, index, out, hmacKey, written, op, dbKey, devices,
                   header, masterKey, inner>>

\* parse_inner_header, an entry at a time; an empty attachment has no flags.
InnerHere ==
    /\ ~AtEnd(payload) /\ payload[pos][1] = "inner"
    /\ payload[pos][2] \in {"stream id", "stream key", "binary"}
    /\ payload[pos][2] = "stream id" => Legible("inner cipher", payload[pos][3])
    /\ payload[pos][2] = "binary" => payload[pos][3] # <<>>

InnerField ==
    /\ pc = "inner" /\ InnerHere
    /\ inner' = LET v == payload[pos][3]
                IN CASE payload[pos][2] = "stream id" -> [inner EXCEPT !.id = Some(v)]
                     [] payload[pos][2] = "stream key" -> [inner EXCEPT !.key = Some(v)]
                     [] payload[pos][2] = "binary" -> [inner EXCEPT !.attachments = Append(@, v)]
    /\ pos' = Advanced(pos)
    /\ UNCHANGED <<pc, data, index, out, result, hmacKey, written, op, dbKey, devices,
                   header, masterKey, payload>>

InnerEndHere == ~AtEnd(payload) /\ payload[pos][1] = "inner" /\ payload[pos][2] = "end"

\* The id of the stream is an integer too; garbage may be anything.
InnerErrors ==
    IF AtEnd(payload) THEN {"InnerHeader"}
    ELSE IF payload[pos] = <<"inner", "stream id", Short>> THEN {Panic}
    ELSE IF payload[pos] = Garbage THEN {"InnerHeader", Panic} ELSE {"InnerHeader"}

InnerFails ==
    /\ pc = "inner" /\ ~InnerHere
    /\ ~InnerEndHere
    /\ \E e \in InnerErrors : Fail(e)
    /\ UNCHANGED <<data, pos, index, out, hmacKey, written, op, dbKey, devices, containerVars>>

InnerEnds ==
    /\ pc = "inner" /\ InnerEndHere
    /\ IF inner.id # Missing /\ inner.key # Missing
         THEN Proceed("xml") /\ pos' = pos + 1
         ELSE Fail("Incomplete") /\ UNCHANGED pos
    /\ UNCHANGED <<data, index, out, hmacKey, written, op, dbKey, devices, containerVars>>

Kdbx4Next ==
    \/ Kdbx4Field \/ Kdbx4HeaderFails \/ Kdbx4HeaderEnds
    \/ Kdbx4Refused \/ Kdbx4Verified \/ Kdbx4Block
    \/ Kdbx4Decrypt \/ Kdbx4Inflate
    \/ InnerField \/ InnerFails \/ InnerEnds
=============================================================================
