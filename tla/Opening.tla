------------------------------- MODULE Opening -------------------------------
(***************************************************************************)
(* Database::open, get_xml and get_version (src/src/db/open.rs): one call  *)
(* on a file of any of the formats, step by step, with whatever key and    *)
(* whatever has become of the file since it was written.  The KDB          *)
(* container is here too; the fields of its payload are read by Kdb.       *)
(***************************************************************************)
EXTENDS Kdbx4, Kdbx3, Kdb

NoFields == [groups |-> 0, entries |-> 0, fields |-> 0]

KdbIdle ==
    /\ kdbPc = "idle" /\ kdbHeader = NoFields /\ kdbLeft = 0
    /\ branch = <<Root>> /\ gidMap = Put(EmptyMap, RootGid, Root)
    /\ groups = <<>> /\ levels = <<>> /\ group = NoGroup
    /\ entry = NoEntry /\ entries = <<>> /\ section = NoSection

----------------------------------------------------------------------------
(* The KDB container.  A key of one element is not hashed again.           *)

KdbComposite(key) ==
    IF Len(KeyElements(key)) = 1 THEN KeyElements(key)[1] ELSE CompositeKey(key)

KdbMaster(h, key) ==
    MasterKey(h.seed, TransformKey(<<"Aes", h.rounds>>, h.transformSeed, KdbComposite(key)))

\* The payload ends with the empty end field of the last group or entry, if
\* there is one: its last byte is zero.
KdbPayload(s) ==
    IF s.db.groups + s.db.entries = 0 THEN <<>> ELSE <<<<"fields", s.db>>, <<"end field">>>>

KdbHeader(s) ==
    [outer |-> s.outer, seed |-> FieldValue(s, "seed"), iv |-> FieldValue(s, "iv"),
     fields |-> s.db, hash |-> Sha256(KdbPayload(s)),
     transformSeed |-> KdfSeed(s), rounds |-> s.kdf[2]]

KdbFile(s) ==
    <<<<"version", s.format, s.minor>>, <<"kdb header", KdbHeader(s)>>>>
    \o Encrypted(s.outer, KdbMaster(KdbHeader(s), s.key), FieldValue(s, "iv"), KdbPayload(s))

\* The 124 bytes of the header are there, the key has elements, and a single one
\* has 32 bytes ("guaranteed", kdb.rs).
KdbError ==
    IF ~Present(pos) THEN "UnexpectedEof"
    ELSE IF KeyError(dbKey) # "none" THEN KeyError(dbKey)
    ELSE IF IsOddKey(dbKey) THEN Panic
    ELSE IF data[pos][1] # "kdb header" \/ data[pos][2].outer \notin {"AES256", "Twofish"}
      THEN "InvalidFixedCipherID"
    ELSE "none"

KdbRefused ==
    /\ pc = "KDB" /\ KdbError # "none"
    /\ Fail(KdbError)
    /\ UNCHANGED <<data, pos, index, out, hmacKey, written, op, dbKey, devices, containerVars>>

KdbDecrypt ==
    /\ pc = "KDB" /\ KdbError = "none"
    /\ LET h == data[pos][2]
           cells == SubSeq(data, pos + 1, Len(data))
           plain == Deciphered(h.outer, KdbMaster(h, dbKey), h.iv, cells)
       IN \/ Padded(plain) /\ payload' = Unpadded(h.outer, plain) /\ Proceed("KDB padding")
          \/ ~Padded(plain) /\ UNCHANGED payload /\ Fail("Padding")
          \/ /\ ~Padded(plain) /\ plain # <<>>      \* accepted by accident
             /\ payload' = Append(Front(plain), Garbage) /\ Proceed("KDB padding")
    /\ UNCHANGED <<data, pos, index, out, hmacKey, written, op, dbKey, devices,
                   header, masterKey, inner>>

\* The reader takes the last byte for the length of a padding that it cuts off:
\* what Twofish left of it, and nothing after AES, whose padding is gone and
\* whose last byte then is the zero of the end field.  Garbage stays garbage.
WithoutPadding_Always(cells) == Front(cells)
WithoutPadding(cells) == IF Last(cells) = Padding THEN Front(cells) ELSE cells

KdbPadding ==
    /\ pc = "KDB padding"
    /\ \/ payload = <<>> /\ UNCHANGED payload /\ Fail("UnexpectedEof")
       \/ /\ payload # <<>>
          /\ LET cells == WithoutPadding(payload)
             IN IF Sha256(cells) = data[pos][2].hash
                  THEN payload' = cells /\ Proceed("KDB fields")
                  ELSE UNCHANGED payload /\ Fail("IncorrectKey")
       \/ \* after AES the last byte may be more than the length: the difference
          \* overflows, which a build checks or not
          /\ payload # <<>> /\ Last(payload) = Garbage /\ data[pos][2].outer = "AES256"
          /\ UNCHANGED payload
          /\ \E e \in {Panic, "UnexpectedEof"} : Fail(e)
    /\ UNCHANGED <<data, pos, index, out, hmacKey, written, op, dbKey, devices,
                   header, masterKey, inner>>

KdbStart ==
    /\ pc = "KDB fields" /\ kdbPc = "idle"
    /\ kdbPc' = "groups"
    /\ kdbHeader' = data[pos][2].fields /\ kdbLeft' = kdbHeader'.fields
    /\ UNCHANGED <<readerVars, branch, gidMap, groups, levels, group, entry, entries, section>>

KdbField == pc = "KDB fields" /\ KdbNext /\ UNCHANGED readerVars

KdbEnds ==
    /\ pc = "KDB fields" /\ kdbPc \in {"ok", "error"}
    /\ pc' = "done"
    /\ result' = IF kdbPc = "error" THEN Failure("Kdb")
                 ELSE Opened(data[1], data[pos][2].outer, "None", "Plain", <<>>,
                             <<"Aes", data[pos][2].rounds>>, Missing, <<>>,
                             <<data[pos][2].fields, "Plain", <<>>>>)
    /\ UNCHANGED <<data, pos, index, out, hmacKey, written, op, dbKey, devices,
                   containerVars, kdbVars>>

----------------------------------------------------------------------------
\* The key derivation of a KDBX3 file is in a field of its own.
OpenedKdf ==
    IF data[1][2] = "KDB3" THEN <<"Aes", header["rounds"][1][2]>> ELSE HeaderKdf

ContainerStep ==
    \/ BadVersion \/ GetVersion \/ Unsupported \/ Dispatch
    \/ Kdbx4Next \/ Kdbx3Next
    \/ GetXml \/ BadXml \/ ParseXml(OpenedKdf)
    \/ KdbRefused \/ KdbDecrypt \/ KdbPadding

OpeningStep ==
    \/ ContainerStep /\ UNCHANGED kdbVars
    \/ KdbStart \/ KdbField \/ KdbEnds

----------------------------------------------------------------------------
(* The file of a save, and the blocks its payload was written in.          *)

FileOf(s) ==
    CASE s.format = "KDB3" -> Kdbx3File(s)
      [] s.format = "KDB" -> KdbFile(s)
      [] OTHER -> Kdbx4File(s)

BlocksIn(s) ==
    CASE s.format = "KDB4" -> WrittenBlocks(s)
      [] s.format = "KDB3" ->
           LET cells == Compressed(s.compression, Document(s))
           IN <<SubSeq(cells, 1, 1), SubSeq(cells, 2, Len(cells))>>
      [] OTHER -> <<>>

\* Keys and saves: what a key and the configuration of a database can be.  Each
\* part of a key is there or not; a keyfile is a pair, and nobody's password is
\* what a device answers.
AtMostOne(x) == x = Missing \/ x = Some(x[1])

IsKey(k) ==
    /\ k = [password |-> k.password, keyfile |-> k.keyfile, challenge |-> k.challenge,
            response |-> Missing]
    /\ AtMostOne(k.password) /\ AtMostOne(k.keyfile) /\ AtMostOne(k.challenge)
    /\ k.password # Missing => k.password[1][1] # "hmac sha1"
    /\ k.keyfile # Missing => k.keyfile[1] = <<k.keyfile[1][1], k.keyfile[1][2]>>

\* A file is written with a key that has elements; only the KDBX4 writer performs
\* the challenge.  The two older formats derive their keys with AES and keep no
\* attachments beside the document, and KDB knows two ciphers and no compression.
IsSave(s) ==
    /\ s = [n |-> s.n, format |-> s.format, minor |-> s.minor, outer |-> s.outer,
            compression |-> s.compression, inner |-> s.inner, kdf |-> s.kdf, key |-> s.key,
            db |-> s.db, attachments |-> s.attachments, public |-> s.public,
            blocks |-> s.blocks, layout |-> s.layout]
    /\ s.n \in Nat /\ s.blocks \in Nat /\ IsKey(s.key)
    /\ s.outer \in OuterCiphers /\ s.compression \in Compressions
    /\ s.inner \in InnerCiphers \cup {"short"}
    /\ s.kdf = <<s.kdf[1], s.kdf[2]>>
    /\ s.layout \in Seq(Fields \cup {"comment"})
    /\ s.attachments \in Seq(Range(s.attachments))
    /\ AtMostOne(s.public) /\ s.public \notin {Some(Damaged), Some(Short)}
    /\ "public" \in Range(s.layout) <=> s.public # Missing
    /\ \/ s.format = "KDB4" /\ KeyError(SaveKey(s)) = "none"
       \/ /\ s.format \in {"KDB", "KDB3"} /\ KeyError(s.key) = "none"
          /\ s.kdf[1] = "Aes" /\ s.attachments = <<>> /\ s.public = Missing
    /\ s.format = "KDB" =>
          /\ s.outer \in {"AES256", "Twofish"} /\ s.compression = "None" /\ s.inner = "Plain"
          /\ ~IsOddKey(s.key)
          /\ s.db \in [groups : Nat, entries : Nat, fields : Nat]

----------------------------------------------------------------------------
(* What a call promises.                                                   *)

IsOpened == pc = "done" /\ result.kind = "opened"

\* Nothing covers the header of a KDB or KDBX3 file: it may name another minor
\* version, and another stream for the protected values, which then come out
\* wrong.
Promised(r) ==
    IF r.version[2] = "KDB4" THEN r
    ELSE [r EXCEPT !.version = Missing, !.inner = Missing, !.legible = TRUE]

\* What was opened is what one of these saves wrote, all of it.
OneOf(saves) == \E s \in saves : Promised(result) = Promised(Contents(s))

\* The same password, keyfile and secret, wherever they come from
SameParts(k1, k2) ==
    /\ k1.password = k2.password
    /\ {KeyfileElement(f) : f \in Range(k1.keyfile)} = {KeyfileElement(f) : f \in Range(k2.keyfile)}
    /\ {SecretOf(c) : c \in Range(k1.challenge)} = {SecretOf(c) : c \in Range(k2.challenge)}

\* A key is the one of the save, and can be had with these devices.
Opens(key, s, plugged) ==
    /\ SameParts(key, s.key)
    /\ ~ChallengeFails(key, plugged)
    /\ s.format \in {"KDB", "KDB3"} => key.challenge = Missing

\* The reader knows what is in the file.
Readable(s) ==
    /\ s.inner \in InnerCiphers /\ s.db \notin Unsound
    /\ s.format = "KDB4" =>
          /\ KdfWorks(s.kdf)
          /\ Kdbx4Required \subseteq Range(s.layout)
          /\ Range(s.layout) \subseteq Kdbx4Fields \cup {"comment"}
          /\ \A i \in DOMAIN s.attachments : s.attachments[i] # <<>>
=============================================================================
