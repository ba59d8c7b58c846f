-------------------------------- MODULE Kdbx3 --------------------------------
(***************************************************************************)
(* The KDBX3 container (src/src/format/kdbx3.rs).  Nothing covers its      *)
(* header: a key is right if the payload begins with the bytes the header  *)
(* names, and each block of the payload carries a hash of its content.     *)
(* Only other programs write such files.                                   *)
(***************************************************************************)
EXTENDS Reader

Kdbx3Fields ==
    {"cipher", "compression", "seed", "transform seed", "rounds", "iv",
     "stream key", "stream start", "inner cipher"}

----------------------------------------------------------------------------
(* A file as other programs write it.                                      *)

Kdbx3Layout ==
    <<"comment", "cipher", "compression", "seed", "transform seed", "rounds", "iv",
      "stream key", "stream start", "inner cipher">>

\* The key of a KDBX3 file is derived with AES, whatever the payload.
Kdbx3Master(seed, rounds, transformSeed, key) ==
    MasterKey(seed, TransformKey(<<"Aes", rounds>>, transformSeed, CompositeKey(key)))

HashedBlock(i, cells) == <<<<"hashed", i, Sha256(cells), Len(cells)>>>> \o cells

Kdbx3Payload(s) ==
    LET cells == Compressed(s.compression, Document(s))
    IN <<FieldValue(s, "stream start")>>
       \o HashedBlock(0, SubSeq(cells, 1, 1))
       \o HashedBlock(1, SubSeq(cells, 2, Len(cells)))
       \o <<<<"hashed", 2, <<>>, 0>>>>

Kdbx3File(s) ==
    <<<<"version", s.format, s.minor>>>>
    \o [i \in DOMAIN Kdbx3Layout |-> <<"field", Kdbx3Layout[i], FieldValue(s, Kdbx3Layout[i])>>]
    \o <<<<"end">>>>
    \o Encrypted(s.outer, Kdbx3Master(FieldValue(s, "seed"), s.kdf[2], KdfSeed(s), s.key),
                 FieldValue(s, "iv"), Kdbx3Payload(s))

----------------------------------------------------------------------------
(* The reader.                                                             *)

Kdbx3Field == HeaderField("KDB3", Kdbx3Fields)
Kdbx3HeaderFails == HeaderFails("KDB3", Kdbx3Fields)
Kdbx3HeaderEnds == HeaderEnds("KDB3", Kdbx3Fields, "KDB3 body")

\* The challenge of a key is not performed for this format.
Kdbx3Refused ==
    /\ pc = "KDB3 body" /\ KeyError(dbKey) # "none"
    /\ Fail(KeyError(dbKey))
    /\ UNCHANGED <<data, pos, index, out, hmacKey, written, op, dbKey, devices, containerVars>>

\* The stream cipher for the values is made before the payload is read.
Kdbx3Derive ==
    /\ pc = "KDB3 body" /\ KeyError(dbKey) = "none"
    /\ masterKey' = Kdbx3Master(header["seed"][1], header["rounds"][1][2],
                                header["transform seed"][1], dbKey)
    /\ inner' = [NoInner EXCEPT !.id = header["inner cipher"], !.key = header["stream key"]]
    /\ Proceed("decrypt3")
    /\ UNCHANGED <<data, pos, index, out, hmacKey, written, op, dbKey, devices, header, payload>>

Kdbx3Decrypt ==
    /\ pc = "decrypt3"
    /\ Decipher(SubSeq(data, pos, Len(data)), "stream start")
    /\ pos' = 2
    /\ UNCHANGED <<data, index, out, hmacKey, written, op, dbKey, devices,
                   header, masterKey, inner>>

Kdbx3Start ==
    /\ pc = "stream start"
    /\ IF payload = <<>> THEN Fail("UnexpectedEof")
       ELSE IF payload[1] # header["stream start"][1] THEN Fail("IncorrectKey")
       ELSE Proceed("hashed blocks")
    /\ UNCHANGED <<data, pos, index, out, hmacKey, written, op, dbKey, devices, containerVars>>

\* The id of a block is not looked at; a size of zero ends the loop before the
\* hash is.
HashedBlockHere ==
    /\ pos <= Len(payload) /\ payload[pos][1] = "hashed"
    /\ pos + payload[pos][4] <= Len(payload)

HashedCells == SubSeq(payload, pos + 1, pos + payload[pos][4])

HashMatches_Anything(cells, hash) == TRUE
HashMatches(cells, hash) == hash = Sha256(cells)

Kdbx3Block ==
    /\ pc = "hashed blocks" /\ HashedBlockHere
    /\ payload[pos][4] > 0 /\ HashMatches(HashedCells, payload[pos][3])
    /\ out' = Append(out, HashedCells)
    /\ pos' = pos + 1 + payload[pos][4]
    /\ index' = index + 1
    /\ UNCHANGED <<pc, data, result, hmacKey, written, op, dbKey, devices, containerVars>>

Kdbx3BlockFails ==
    /\ pc = "hashed blocks"
    /\ HashedBlockHere => payload[pos][4] > 0 /\ ~HashMatches(HashedCells, payload[pos][3])
    /\ Fail(IF HashedBlockHere THEN "BlockHashMismatch" ELSE "UnexpectedEof")
    /\ UNCHANGED <<data, pos, index, out, hmacKey, written, op, dbKey, devices, containerVars>>

Kdbx3Inflate ==
    /\ pc = "hashed blocks" /\ HashedBlockHere /\ payload[pos][4] = 0
    /\ Inflate(FlattenSeq(out), "xml") /\ pos' = 1
    /\ UNCHANGED <<data, index, out, hmacKey, written, op, dbKey, devices,
                   header, masterKey, inner>>

Kdbx3Next ==
    \/ Kdbx3Field \/ Kdbx3HeaderFails \/ Kdbx3HeaderEnds
    \/ Kdbx3Refused \/ Kdbx3Derive \/ Kdbx3Decrypt
    \/ Kdbx3Start \/ Kdbx3Block \/ Kdbx3BlockFails \/ Kdbx3Inflate
=============================================================================
