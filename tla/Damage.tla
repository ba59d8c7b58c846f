------------------------------- MODULE Damage -------------------------------
(***************************************************************************)
(* One call of open, get_xml or get_version on a file that somebody saved  *)
(* and to which anything may have happened since, with any key: the world  *)
(* of the run `opening`.                                                   *)
(***************************************************************************)
EXTENDS Opening

CONSTANTS
    Saves,          \* saves that files were made by
    KeysGiven,      \* keys that are tried
    Plugged         \* sets of YubiKeys that are plugged in

ASSUME SavesAssumption == \A s \in Saves : IsSave(s)
ASSUME KeysAssumption == \A k \in KeysGiven : IsKey(k)

VARIABLE origin     \* the save that made the file

vars == <<readerVars, kdbVars, origin>>

\* An earlier save of the same file
Earlier(s) == [s EXCEPT !.n = s.n + 100, !.db = IF s.format = "KDB" THEN NoFields ELSE "earlier"]

----------------------------------------------------------------------------
(* What becomes of files.                                                  *)

\* Cut off within a cell
CutOff(f) == {Append(SubSeq(f, 1, k), Torn) : k \in 0 .. Len(f) - 1}

\* Cut off, or with a part that is lost or there twice
Misplaced(f) ==
    UNION {{SubSeq(f, 1, i) \o SubSeq(f, j, Len(f)) : j \in 1 .. Len(f) + 1} : i \in 0 .. Len(f)}

\* Neighbours of the same length exchanged
Exchanged(f) ==
    UNION {{SubSeq(f, 1, i) \o SubSeq(f, i + n + 1, i + n + n) \o SubSeq(f, i + 1, i + n)
              \o SubSeq(f, i + n + n + 1, Len(f)) :
              n \in {m \in 1 .. 4 : i + 2 * m <= Len(f)}} : i \in 0 .. Len(f)}

\* Other values in a cell, of those that its readers tell apart
OtherFields(f, v) ==
    CASE f = "cipher" -> {<<"field", f, <<x>>>> : x \in OuterCiphers \cup {"damaged"}}
      [] f = "compression" -> {<<"field", f, <<x>>>> : x \in Compressions \cup {"damaged", "short"}}
      [] f = "inner cipher" -> {<<"field", f, <<x>>>> : x \in InnerCiphers \cup {"damaged", "short"}}
      [] f = "rounds" -> {<<"field", f, <<"rounds", 0>>>>, <<"field", f, Short>>}
      [] f \in {"kdf", "public"} ->
           {<<"field", f, Damaged>>, <<"field", f, Short>>, <<"field", "unknown", v>>}
      [] OTHER -> {<<"field", f, Damaged>>, <<"field", "unknown", v>>}

OtherValues(c) ==
    CASE c[1] = "field" -> OtherFields(c[2], c[3])
      [] c[1] = "version" ->
           {<<"version", v, c[3]>> : v \in Formats \cup {"unknown"}} \cup {<<c[1], c[2], 0>>}
      [] c[1] = "block" -> {<<"block", c[2], n>> : n \in 0 .. 3} \cup {<<"block", Damaged, c[3]>>}
      [] c[1] = "kdb header" ->
           {<<c[1], [c[2] EXCEPT !.seed = Damaged]>>, <<c[1], [c[2] EXCEPT !.iv = Damaged]>>,
            <<c[1], [c[2] EXCEPT !.hash = Damaged]>>}
           \cup {<<c[1], [c[2] EXCEPT !.outer = v]>> : v \in {"AES256", "Twofish", "damaged"}}
      [] OTHER -> {<<c[1], Damaged, Damaged, Damaged>>}

Altered(f) == UNION {{[f EXCEPT ![i] = c] : c \in OtherValues(f[i])} : i \in DOMAIN f}

\* Written over a longer or shorter file, up to a cell
Over(f, g) == {SubSeq(f, 1, k) \o SubSeq(g, k + 1, Len(g)) : k \in 0 .. Len(f)}

\* The save whose seed the file begins with
Maker(f, s) ==
    IF \E i \in DOMAIN f : f[i] = <<"field", "seed", FieldValue(Earlier(s), "seed")>>
      THEN Earlier(s) ELSE s

\* All that may be found where f was written, g being another file
Found(f, g) == CutOff(f) \cup Misplaced(f) \cup Exchanged(f) \cup Altered(f) \cup Over(f, g)

----------------------------------------------------------------------------
Init ==
    /\ origin \in Saves
    /\ pc = "version" /\ op \in {"open", "get_xml", "get_version"}
    /\ \/ data = FileOf(origin) /\ dbKey \in KeysGiven \cup {origin.key}
       \/ /\ op # "get_version"
          /\ data \in Found(FileOf(origin), FileOf(Earlier(origin)))
          /\ dbKey = origin.key
    /\ pos = 1 /\ index = 0 /\ out = <<>> /\ result = NoResult
    /\ hmacKey = <<>> /\ written = BlocksIn(Maker(data, origin))
    /\ devices \in (IF dbKey.challenge = Missing THEN {{}} ELSE Plugged)
    /\ header = NoHeader /\ masterKey = <<>> /\ payload = <<>> /\ inner = NoInner
    /\ KdbIdle

Next == OpeningStep /\ UNCHANGED origin

Spec == Init /\ [][Next]_vars /\ WF_vars(Next)

----------------------------------------------------------------------------
(* Properties.                                                             *)

\* Whatever has become of a file, and with whatever key, a database that opens
\* is one that was written to it as a whole, never a part of one or a mixture of
\* two, and never with the wrong key: the checks of all the layers together see
\* to that, in formats whose header nothing covers and with streams that may end
\* before their last block.
OpenedIsWritten ==
    IsOpened => OneOf({origin, Earlier(origin)}) /\ SameParts(dbKey, origin.key)

\* The key of a save opens its file, all of it, with every cipher and
\* compression, also with the same key from another kind of keyfile or device
\* (the order of writing in dump_kdbx4 and reading in decrypt_kdbx4, the padding
\* that Twofish leaves).  What a KDB file holds is left to Kdb.
IntactFilesOpen ==
    (pc = "done" /\ op = "open" /\ data = FileOf(origin)
     /\ Opens(dbKey, origin, devices) /\ Readable(origin)) =>
        IF origin.format = "KDB"
          THEN origin.db.groups + origin.db.entries > 0 =>
                   result = Contents(origin) \/ result = Failure("Kdb")
          ELSE result = Contents(origin)

\* A wrong key for an intact KDBX4 file is called that, before anything of the
\* payload is looked at (the mac over the header in decrypt_kdbx4).
WrongKeyReported ==
    (/\ pc = "done" /\ op # "get_version" /\ data = FileOf(origin)
     /\ origin.format = "KDB4" /\ Readable(origin)
     /\ KeyError(Challenged(dbKey, KdfSeed(origin))) = "none"
     /\ ~ChallengeFails(dbKey, devices) /\ ~Opens(dbKey, origin, devices)) =>
        result = Failure("IncorrectKey")

\* What makes the reader of a KDBX4 file panic is found before its last block:
\* in the header, which is parsed before its hash and mac are looked at, or where
\* the file lost its end.  With all the blocks come through their macs, the
\* payload is what was written, in which there is no such thing (decrypt_kdbx4).
NoLatePanic ==
    (pc = "done" /\ result.kind = "panic" /\ origin.format = "KDB4" /\ Readable(origin)) =>
        Len(out) < Len(written)

\* Every call ends, whatever is in the file, in a database, an error or a panic:
\* each loop moves on in it.
CallReturns == <>(pc = "done")

\* "We just don't want a panic" (tests/broken_files.rs, of damaged files).
NoPanic == pc = "done" => result.kind # "panic"
=============================================================================
