------------------------------- MODULE Reader -------------------------------
(***************************************************************************)
(* What the readers of the containers share: the arguments of the call,    *)
(* the header, the derived keys, and what a whole database is.  A save is  *)
(* a record of all that went into a file; its random numbers are terms     *)
(* with its number n.                                                      *)
(***************************************************************************)
EXTENDS HmacBlockStream, Keys, SequencesExt

CONSTANT Unsound    \* databases whose document makes the reader panic

VARIABLES
    op,         \* "open", "get_xml" or "get_version"
    dbKey,      \* the key given
    devices,    \* the YubiKeys that are plugged in
    header,     \* the fields of the outer header read so far
    masterKey,
    payload,    \* what was taken out of the file
    inner       \* the inner header: id and key of the stream, attachments

containerVars == <<header, masterKey, payload, inner>>
readerVars == <<blockVars, op, dbKey, devices, containerVars>>

Damaged == <<"damaged">>
Short == <<"short">>    \* with an integer of fewer bytes than its type has

Fields == {"cipher", "compression", "seed", "iv", "kdf", "public",
           "transform seed", "rounds", "stream key", "stream start", "inner cipher"}
NoHeader == [f \in Fields |-> Missing]
NoInner == [id |-> Missing, key |-> Missing, attachments |-> <<>>]

AtEnd(cells) == pos > Len(cells)
\* A cell that the file has, and all of it.
Torn == <<"torn">>
Present(p) == p \in DOMAIN data /\ data[p] # Torn

----------------------------------------------------------------------------
(* The random numbers of a save, and the values of its header fields.      *)

StreamKey(s) == <<"stream key", s.n>>
KdfSeed(s) == <<"kdf seed", s.n>>

FieldValue(s, f) ==
    CASE f = "cipher" -> <<s.outer>>
      [] f = "compression" -> <<s.compression>>
      [] f = "inner cipher" -> <<s.inner>>
      [] f = "kdf" -> <<"kdf", s.kdf, KdfSeed(s)>>
      [] f = "rounds" -> <<"rounds", s.kdf[2]>>
      [] f = "transform seed" -> KdfSeed(s)
      [] f = "stream key" -> StreamKey(s)
      [] f = "public" -> s.public[1]
      [] OTHER -> <<f, s.n>>

\* try_from of the ciphers and the compression, and the variant dictionaries:
\* the reader knows the value.
Legible(f, v) ==
    CASE f = "cipher" -> v[1] \in OuterCiphers
      [] f = "compression" -> v[1] \in Compressions
      [] f = "inner cipher" -> v[1] \in InnerCiphers
      [] f = "rounds" -> v # Short
      [] f \in {"kdf", "public"} -> v \notin {Damaged, Short}
      [] OTHER -> TRUE

\* LittleEndian::read_u32 and read_u64 are called on it, without a look at its
\* length.
HoldsInteger(f) == f \in {"compression", "inner cipher", "rounds", "kdf", "public"}
TooShort(f, v) == HoldsInteger(f) /\ v = Short

----------------------------------------------------------------------------
(* The XML document, of which the root element opens and closes.  Every    *)
(* protected value in it went through the stream of the inner cipher.      *)

Document(s) ==
    <<<<"xml", "open">>, <<"xml", "body", <<s.db, s.inner, StreamKey(s)>>>>, <<"xml", "close">>>>

\* In its middle, garbage may be taken for the text of a value.
IsDocument(cells) ==
    /\ Len(cells) >= 3
    /\ cells[1] = <<"xml", "open">> /\ cells[3] = <<"xml", "close">>
    /\ cells[2] = Garbage \/ (cells[2][1] = "xml" /\ cells[2][2] = "body")

\* Of a time that is Base64 the first eight bytes are taken, however few there
\* are; a history under the uuid of no entry is a panic too.
UnsoundBody(cells) ==
    /\ Len(cells) >= 2 /\ cells[1] = <<"xml", "open">>
    /\ cells[2] # Garbage /\ cells[2][1] = "xml" /\ cells[2][2] = "body"
    /\ cells[2][3][1] \in Unsound

Body(cells) ==
    IF cells[2] = Garbage THEN <<"garbage", "garbage", Garbage>> ELSE cells[2][3]

\* The database that parse_xml makes of it with the inner cipher of the header;
\* the configuration is that of the headers.
Opened(version, outer, compression, id, key, kdf, public, attachments, doc) ==
    [kind |-> "opened", version |-> version, outer |-> outer, compression |-> compression,
     inner |-> id, kdf |-> kdf, public |-> public, attachments |-> attachments,
     db |-> doc[1], legible |-> SameStream(id, key, doc[2], doc[3])]

Contents(s) ==
    Opened(<<"version", s.format, s.minor>>, s.outer, s.compression, s.inner, StreamKey(s),
           s.kdf, IF s.format = "KDB4" THEN s.public ELSE Missing,
           s.attachments, <<s.db, s.inner, StreamKey(s)>>)

----------------------------------------------------------------------------
(* The first twelve bytes (DatabaseVersion::parse), and where they lead.   *)

Begin(at, what, file, key) ==
    /\ pc' = at /\ op' = what /\ data' = file /\ dbKey' = key
    /\ pos' = 1 /\ index' = 0 /\ out' = <<>> /\ result' = NoResult /\ hmacKey' = <<>>
    /\ header' = NoHeader /\ masterKey' = <<>> /\ payload' = <<>> /\ inner' = NoInner

Call(what, file, key) == Begin("version", what, file, key)

\* Nothing is left of a call that has returned.
Return == Begin("idle", "none", <<>>, NoKey)

Formats == {"KDB", "KDB2", "KDB3", "KDB4"}

IsVersion == data # <<>> /\ data[1][1] = "version" /\ data[1][2] \in Formats

BadVersion ==
    /\ pc = "version" /\ ~IsVersion
    /\ Fail("Version")
    /\ UNCHANGED <<data, pos, index, out, hmacKey, written, op, dbKey, devices, containerVars>>

GetVersion ==
    /\ pc = "version" /\ IsVersion /\ op = "get_version"
    /\ pc' = "done" /\ result' = [kind |-> "version", version |-> data[1]]
    /\ UNCHANGED <<data, pos, index, out, hmacKey, written, op, dbKey, devices, containerVars>>

\* KEEPASS_2 files are never read, and those of KEEPASS_1 hold no XML.
Unsupported ==
    /\ pc = "version" /\ IsVersion /\ op # "get_version"
    /\ data[1][2] \in (IF op = "open" THEN {"KDB2"} ELSE {"KDB", "KDB2"})
    /\ Fail("UnsupportedVersion")
    /\ UNCHANGED <<data, pos, index, out, hmacKey, written, op, dbKey, devices, containerVars>>

\* parse and get_xml call the reader of the format.
Dispatch ==
    /\ pc = "version" /\ IsVersion /\ op # "get_version"
    /\ data[1][2] \in (IF op = "open" THEN {"KDB", "KDB3", "KDB4"} ELSE {"KDB3", "KDB4"})
    /\ Proceed(data[1][2]) /\ pos' = 2
    /\ UNCHANGED <<data, index, out, hmacKey, written, op, dbKey, devices, containerVars>>

----------------------------------------------------------------------------
(* The outer header: a field at a time, the last of each kind counts.      *)

\* A field of the header of a format begins at pos.
FieldHere(known) ==
    /\ ~AtEnd(data) /\ data[pos][1] = "field"
    /\ data[pos][2] \in known \cup {"comment"}
    /\ Legible(data[pos][2], data[pos][3])

Advanced_ByNothing(p) == p
Advanced(p) == p + 1

HeaderField(format, known) ==
    /\ pc = format /\ FieldHere(known)
    /\ pos' = Advanced(pos)
    /\ header' = IF data[pos][2] = "comment" THEN header
                 ELSE [header EXCEPT ![data[pos][2]] = Some(data[pos][3])]
    /\ UNCHANGED <<pc, data, index, out, result, hmacKey, written, op, dbKey, devices,
                   masterKey, payload, inner>>

\* The file ends, or there is a field of unknown type or value, or one that is
\* too short.
HeaderError(known) ==
    IF AtEnd(data) THEN "UnexpectedEof"
    ELSE IF data[pos][1] = "field" /\ data[pos][2] \in known /\ TooShort(data[pos][2], data[pos][3])
      THEN Panic
    ELSE "OuterHeader"

HeaderFails(format, known) ==
    /\ pc = format /\ ~FieldHere(known)
    /\ ~AtEnd(data) => data[pos] # <<"end">>
    /\ Fail(HeaderError(known))
    /\ UNCHANGED <<data, pos, index, out, hmacKey, written, op, dbKey, devices, containerVars>>

HeaderEnds(format, required, to) ==
    /\ pc = format /\ ~AtEnd(data) /\ data[pos] = <<"end">>
    /\ IF \A f \in required : header[f] # Missing
         THEN Proceed(to) /\ pos' = pos + 1
         ELSE Fail("Incomplete") /\ UNCHANGED pos
    /\ UNCHANGED <<data, index, out, hmacKey, written, op, dbKey, devices, containerVars>>

----------------------------------------------------------------------------
(* The last steps are those of every format.                               *)

\* What the cipher makes of the cells; `to` is where a reader goes on with it.
Decipher(cells, to) ==
    LET cipher == header["cipher"][1][1]
        plain == Deciphered(cipher, masterKey, header["iv"][1], cells)
    IN IF ~Chains(cipher)
         THEN payload' = plain /\ Proceed(to)
         ELSE \/ Padded(plain) /\ payload' = Unpadded(cipher, plain) /\ Proceed(to)
              \/ ~Padded(plain) /\ UNCHANGED payload /\ Fail("Padding")
              \/ /\ ~Padded(plain) /\ plain # <<>>      \* accepted by accident
                 /\ payload' = Append(Front(plain), Garbage) /\ Proceed(to)

Inflate(cells, to) ==
    LET compression == header["compression"][1][1]
    IN IF Inflates(compression, cells)
         THEN payload' = Inflated(compression, cells) /\ Proceed(to)
         ELSE UNCHANGED payload /\ Fail("Compression")

Rest == SubSeq(payload, pos, Len(payload))

\* Database::get_xml returns what is there.
GetXml ==
    /\ pc = "xml" /\ op = "get_xml"
    /\ pc' = "done" /\ result' = [kind |-> "xml", cells |-> Rest]
    /\ UNCHANGED <<data, pos, index, out, hmacKey, written, op, dbKey, devices, containerVars>>

\* What is found first counts; garbage may be anything.
XmlErrors(cells) ==
    IF UnsoundBody(cells) THEN {Panic}
    ELSE IF Garbage \in Range(cells) THEN {"Xml", Panic} ELSE {"Xml"}

BadXml ==
    /\ pc = "xml" /\ op = "open"
    /\ IsDocument(Rest) => Rest[2] = Garbage \/ UnsoundBody(Rest)
    /\ \E e \in XmlErrors(Rest) : Fail(e)
    /\ UNCHANGED <<data, pos, index, out, hmacKey, written, op, dbKey, devices, containerVars>>

ParseXml(kdf) ==
    /\ pc = "xml" /\ op = "open" /\ IsDocument(Rest) /\ ~UnsoundBody(Rest)
    /\ pc' = "done"
    /\ result' = Opened(data[1], header["cipher"][1][1], header["compression"][1][1],
                        inner.id[1][1], inner.key[1], kdf, header["public"],
                        inner.attachments, Body(Rest))
    /\ UNCHANGED <<data, pos, index, out, hmacKey, written, op, dbKey, devices, containerVars>>
=============================================================================
