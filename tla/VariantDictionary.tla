------------------------- MODULE VariantDictionary -------------------------
(***************************************************************************)
(* Variant dictionaries (src/src/format/variant_dictionary.rs), byte by    *)
(* byte, and what KDBX4 keeps in them: the parameters of the key           *)
(* derivation (src/src/config.rs) and the public data of plugins.  An      *)
(* integer is the sequence of its bytes, lowest first, a key the sequence  *)
(* of the bytes of its name; a seed is shorter than its 32 bytes.          *)
(***************************************************************************)
EXTENDS Integers, Sequences, SequencesExt, Functions, FiniteSets

CONSTANTS
    Configs,        \* configurations of the key derivation
    PublicData,     \* public dictionaries
    FoundBuffers,   \* dictionaries in files of other programs
    NewSeed,        \* the seed of a save
    CutItems        \* a bound: the most items of a dictionary that is cut off

VARIABLES
    stage,          \* "held", "written", "items" or "read"
    use,            \* "kdf" or "public"
    held,           \* <<what is in memory>>, NotRead if nothing yet
    buffer, cut,    \* the bytes, and if they were cut off
    place, items,   \* of the loop in parse
    outcome         \* of the last reading

dictionaryVars == <<stage, use, held, buffer, cut, place, items, outcome>>

NotRead == <<>>
Ok(x) == [ok |-> x]
Err(kind) == [err |-> kind]
IsOk(r) == "ok" \in DOMAIN r

Version == <<0, 1>>
End == 0
U32 == 4
U64 == 5
Bool == 8
I32 == 12
I64 == 13
Str == 24
ByteArray == 66

TypeIds == {U32, U64, Bool, I32, I64, Str, ByteArray}
Width == [t \in {U32, U64, I32, I64} |-> IF t \in {U32, I32} THEN 4 ELSE 8]

NoItems == [k \in {} |-> 0]
Value(t, bytes) == [type |-> t, bytes |-> bytes]

----------------------------------------------------------------------------
(* The parameters of the key derivation.                                   *)

AesKdbx3 == <<201, 217>>
AesKdbx4 == <<124, 2>>
Argon2 == <<239, 99>>
Argon2id == <<158, 41>>
KdfKinds == {AesKdbx3, AesKdbx4, Argon2, Argon2id}

Id == <<36>>
Seed == <<83>>
Rounds == <<82>>
Memory == <<77>>
Iterations == <<73>>
Parallelism == <<80>>
KdfVersion == <<86>>
KdfVersions == {<<16, 0, 0, 0>>, <<19, 0, 0, 0>>}

\* The entries of each kind beside Id and Seed, with their types
Parameters(kind) ==
    IF kind \in {AesKdbx3, AesKdbx4} THEN Rounds :> U64
    ELSE Memory :> U64 @@ Iterations :> U64 @@ Parallelism :> U32 @@ KdfVersion :> U32

\* A configuration is its kind, AesKdbx4 for AES, and the bytes of its parameters.
ToDictionary(c) ==
    Id :> Value(ByteArray, c.kind)
    @@ Seed :> Value(ByteArray, c.seed)
    @@ [k \in DOMAIN c.parameters |-> Value(Parameters(c.kind)[k], c.parameters[k])]

Typed(d, k, t) == k \in DOMAIN d /\ d[k].type = t

FromDictionary(d) ==
    IF ~Typed(d, Id, ByteArray) THEN Err("VariantDictionary")
    ELSE LET kind == d[Id].bytes
             wanted == Parameters(kind) @@ Seed :> ByteArray
         IN IF kind \notin KdfKinds THEN Err("InvalidKDFUUID")
            ELSE IF \E k \in DOMAIN wanted : ~Typed(d, k, wanted[k]) THEN Err("VariantDictionary")
            ELSE IF KdfVersion \in DOMAIN wanted /\ d[KdfVersion].bytes \notin KdfVersions
              THEN Err("InvalidKDFVersion")
            ELSE Ok([kind |-> IF kind = AesKdbx3 THEN AesKdbx4 ELSE kind,
                     seed |-> d[Seed].bytes,
                     parameters |-> [k \in DOMAIN Parameters(kind) |-> d[k].bytes]])

----------------------------------------------------------------------------
(* The writer.                                                             *)

\* A length of four bytes; nothing here is longer than two of them tell.
WithLength(bytes) == <<Len(bytes) % 256, Len(bytes) \div 256, 0, 0>> \o bytes

Item(key, v) == <<v.type>> \o WithLength(key) \o WithLength(v.bytes)

\* The keys in the order in which the map happens to have them
Orders(d) ==
    LET keys == SetToSeq(DOMAIN d)
    IN {[i \in DOMAIN keys |-> p[keys[i]]] : p \in Permutations(DOMAIN d)}

Dumped(d, order) ==
    Version \o FlattenSeq([i \in DOMAIN order |-> Item(order[i], d[order[i]])]) \o <<End>>

Dump ==
    /\ stage = "held" /\ stage' = "written"
    /\ LET d == IF use = "kdf" THEN ToDictionary(held[1]) ELSE held[1]
       IN \E order \in Orders(d) : buffer' = Dumped(d, order)
    /\ UNCHANGED <<use, held, cut, place, items, outcome>>

\* The file lost the end of the field.
CutOff ==
    /\ stage = "written" /\ ~cut /\ cut' = TRUE
    /\ held # NotRead
    /\ Cardinality(IF use = "kdf" THEN DOMAIN held[1].parameters ELSE DOMAIN held[1]) <= CutItems
    /\ \E n \in 0 .. Len(buffer) - 1 : buffer' = SubSeq(buffer, 1, n)
    /\ UNCHANGED <<stage, use, held, place, items, outcome>>

----------------------------------------------------------------------------
(* The reader.                                                             *)

\* A length that says more than two bytes tell is beyond the end of any buffer.
LengthAt(p) ==
    IF buffer[p + 2] + buffer[p + 3] > 0 THEN 65536 ELSE buffer[p] + 256 * buffer[p + 1]

\* from_utf8_lossy: of the bytes used here, only 255 is never part of UTF-8.
Lossy(bytes) ==
    FlattenSeq([i \in DOMAIN bytes |-> IF bytes[i] = 255 THEN <<239, 191, 189>> ELSE <<bytes[i]>>])

\* LittleEndian::read_u32 and the like look at the first bytes, and panic if
\* there are fewer than they need.
ValueOf(t, bytes) ==
    IF t \notin TypeIds THEN Err("InvalidValueType")
    ELSE IF t \in DOMAIN Width
      THEN IF Len(bytes) < Width[t] THEN Err("panic") ELSE Ok(Value(t, SubSeq(bytes, 1, Width[t])))
    ELSE Ok(Value(t, CASE t = Bool -> IF bytes = <<0>> THEN <<0>> ELSE <<1>>
                       [] t = Str -> Lossy(bytes)
                       [] t = ByteArray -> bytes))

\* Another item is looked for while more than nine bytes are left.
MoreItems_Ten == place + 10 <= Len(buffer)
MoreItems == place + 9 <= Len(buffer)

Terminated == place <= Len(buffer) /\ buffer[place] = End

\* The places of the length of the value at the loop's place, of the value, and
\* of what comes after it
KeyPlace == place + 5
LengthPlace == KeyPlace + LengthAt(place + 1)
ValuePlace == LengthPlace + 4
AfterItem == ValuePlace + LengthAt(LengthPlace)
ItemFits == ValuePlace <= Len(buffer) + 1 /\ AfterItem <= Len(buffer) + 1
KeyHere == Lossy(SubSeq(buffer, KeyPlace, LengthPlace - 1))
ValueHere == ValueOf(buffer[place], SubSeq(buffer, ValuePlace, AfterItem - 1))

Finish(r) == stage' = "read" /\ outcome' = r

ReadVersion ==
    /\ stage = "written"
    /\ IF Len(buffer) < 2 THEN Finish(Err("UnexpectedEof"))
       ELSE IF SubSeq(buffer, 1, 2) # Version THEN Finish(Err("InvalidVersion"))
       ELSE stage' = "items" /\ UNCHANGED outcome
    /\ place' = 3 /\ items' = NoItems
    /\ UNCHANGED <<use, held, buffer, cut>>

\* A later item of the same key replaces an earlier one.
ReadItem ==
    /\ stage = "items" /\ MoreItems
    /\ ItemFits /\ IsOk(ValueHere)
    /\ items' = KeyHere :> ValueHere.ok @@ items
    /\ place' = AfterItem
    /\ UNCHANGED <<stage, use, held, buffer, cut, outcome>>

ItemFails ==
    /\ stage = "items" /\ MoreItems
    /\ \/ ~ItemFits /\ Finish(Err("UnexpectedEof"))
       \/ ItemFits /\ ~IsOk(ValueHere) /\ Finish(ValueHere)
    /\ UNCHANGED <<use, held, buffer, cut, place, items>>

\* Up to eight bytes after the end are not looked at.
ReadEnd ==
    /\ stage = "items" /\ ~MoreItems
    /\ Finish(IF ~Terminated THEN Err("NotTerminated")
              ELSE IF use = "kdf" THEN FromDictionary(items) ELSE Ok(items))
    /\ UNCHANGED <<use, held, buffer, cut, place, items>>

\* The database is saved again, with a new seed (get_kdf_and_seed).
SaveAgain ==
    /\ stage = "read" /\ IsOk(outcome) /\ stage' = "held"
    /\ held' = <<IF use = "kdf" THEN [outcome.ok EXCEPT !.seed = NewSeed] ELSE outcome.ok>>
    /\ buffer' = <<>> /\ place' = 0 /\ items' = NoItems /\ outcome' = Err("not read")
    /\ UNCHANGED <<use, cut>>

----------------------------------------------------------------------------
DictionaryInit ==
    /\ \/ /\ stage = "held" /\ buffer = <<>>
          /\ \/ /\ use = "kdf"
                /\ \E c \in Configs :
                     held = <<[kind |-> c.kind, parameters |-> c.parameters, seed |-> NewSeed]>>
             \/ use = "public" /\ \E d \in PublicData : held = <<d>>
       \/ /\ stage = "written" /\ use \in {"kdf", "public"} /\ held = NotRead
          /\ buffer \in FoundBuffers
    /\ cut = FALSE /\ place = 0 /\ items = NoItems /\ outcome = Err("not read")

DictionaryNext ==
    Dump \/ CutOff \/ ReadVersion \/ ReadItem \/ ItemFails \/ ReadEnd \/ SaveAgain
=============================================================================
