------------------------------ MODULE MCValues ------------------------------
(***************************************************************************)
(* Dictionaries, values and clocks for Values.                             *)
(***************************************************************************)
EXTENDS Values

Long(n) == <<n, 0, 0, 0, 0, 0, 0, 255>>
Word(n) == <<n, 0, 0, 0>>

AesConfig == [kind |-> AesKdbx4, parameters |-> Rounds :> Long(0)]
Argon(k, v) ==
    [kind |-> k, parameters |-> Memory :> Long(1) @@ Iterations :> Long(2)
                                @@ Parallelism :> Word(3) @@ KdfVersion :> v]
OwnSeed == <<0, 7>>

MCConfigs == {AesConfig} \cup {Argon(Argon2, Word(16)), Argon(Argon2id, Word(19))}

\* Of each type, and with the empty key and values that look like an end
Typical ==
    {Value(U32, Word(0)), Value(U64, Long(4)), Value(Bool, <<0>>), Value(Bool, <<1>>),
     Value(I32, Word(255)), Value(I64, Long(0)), Value(Str, <<>>), Value(Str, <<0, 65>>),
     Value(ByteArray, <<>>), Value(ByteArray, <<0, 0, 0, 0, 0, 0, 0, 0, 0, 0>>)}
MCPublic ==
    {NoItems} \cup UNION {[ks -> Typical] : ks \in {{<<>>}, {<<65>>}}}
    \cup {<<>> :> v @@ <<65, 66>> :> w : v, w \in Typical}
    \cup {<<65>> :> Value(ByteArray, [i \in 1 .. 300 |-> 7])}

KdfItems(k, version) ==
    <<Item(Id, Value(ByteArray, k)), Item(Seed, Value(ByteArray, <<9>>)),
      Item(Rounds, Value(U64, Long(1))), Item(Memory, Value(U64, Long(1))),
      Item(Iterations, Value(U64, Long(1))), Item(Parallelism, Value(U32, Word(1))),
      Item(KdfVersion, version)>>
Buffer(list) == Version \o FlattenSeq(list) \o <<End>>
Without(s, i) == SubSeq(s, 1, i - 1) \o SubSeq(s, i + 1, Len(s))

\* Parameters with one that is missing, of another type or unknown; dictionaries
\* with the same key twice, bytes that are no text, integers and flags of other
\* lengths, an unknown type, an unknown version, and more bytes after the end
MCFound ==
    {Buffer(KdfItems(k, Value(U32, Word(19)))) : k \in KdfKinds \cup {<<1, 1>>}}
    \cup {Buffer(Without(KdfItems(Argon2, Value(U32, Word(16))), i)) : i \in 1 .. 7}
    \cup {Buffer(KdfItems(Argon2, v)) : v \in {Value(U32, Word(1)), Value(I32, Word(16))}}
    \cup {Buffer(<<Item(<<65>>, v), Item(<<65>>, w)>>) : v, w \in Typical}
    \cup {Buffer(<<Item(<<255>>, Value(Str, <<66, 255>>))>>)}
    \cup {Buffer(<<Item(<<65>>, Value(t, [i \in 1 .. n |-> 0]))>>) : t \in TypeIds \cup {1}, n \in 0 .. 9}
    \cup {Buffer(<<>>) \o [i \in 1 .. n |-> x] : n \in 0 .. 10, x \in {0, 8}}
    \cup {<<0, 2, 0>>, Version, Version \o <<4, 0, 0, 0, 1, 0, 0, 0, 0, 0, 0>>}

Letters == {"a", ";", ",", " "}
Strings(n) == UNION {[1 .. k -> Letters] : k \in 0 .. n}
Texts == {<<"plain", "b">>, <<"base64", <<>>>>, <<"base64", <<"b">>>>}
Every(x) == [f \in Protected |-> x]

MCValuesSaved ==
    {<<"tags", Some(t)>> : t \in UNION {[1 .. n -> Strings(2)] : n \in 0 .. 2}}
    \cup {<<"name", v>> : v \in {Nothing, Some(<<>>), Some(<<" ">>), Some(<<"a">>)}}
    \cup {<<"custom data", v>> : v \in {Nothing} \cup {Some(<<"String", t>>) : t \in Texts}
                                       \cup {Some(<<"Binary", b>>) : b \in {<<>>, <<"b">>}}}
    \cup {<<"time", v>> : v \in {Nothing} \cup {Some(t) : t \in 0 .. 5}}
    \cup {<<"flag", v>> : v \in {Nothing, Some(TRUE), Some(FALSE)}}
    \cup {<<"obfuscation", Some(v)>> : v \in {"none", "clipboard"}}
    \cup {<<"protection", v>> : v \in {Nothing} \cup {Some(f) : f \in [Protected -> BOOLEAN]}}

Words == {Absent} \cup {<<"word", w>> : w \in {"true", "1", "false", "0", "null", ""}}
MCFoundTexts ==
    {<<"tags", x>> : x \in {Absent} \cup {<<"letters", s>> : s \in Strings(4)}}
    \cup {<<"name", x>> : x \in {Absent} \cup {<<"letters", s>> : s \in {<<>>, <<" ">>, <<"a">>}}}
    \cup {<<"custom data", x>> : x \in Texts}
    \cup {<<"time", x>> : x \in {Absent, <<"iso", 2>>, <<"base64", 7, 0>>, <<"letters", <<"a">>>>}
                                \cup {<<"base64", n, Baseline + 3>> : n \in {8, 9}}}
    \cup {<<"flag", x>> : x \in Words \cup {<<"word", "yes">>}}
    \cup {<<"obfuscation", x>> : x \in {Absent, <<"letters", <<"a">>>>, <<"letters", <<" ">>>>} \cup {<<"number", n>> : n \in 0 .. 2}}
    \cup {<<"protection", <<"flags", [Every(Absent) EXCEPT ![f] = w]>>>> :
             f \in Protected, w \in Words}

Key == <<"secret", <<"base32", "k">>>>
Period(n) == <<"period", <<"number", n>>>>
MCUrls ==
    {<<Key, Period(n)>> : n \in {0, 1, 3, 4}}
    \cup {<<Period(5), <<"algorithm", <<"name", "SHA256">>>>, Key, Period(2)>>, <<Period(2)>>,
          <<Key>>, <<<<"secret", <<"text", "?">>>>, Key, Period(3)>>, <<Key, <<"secret", <<"text", "?">>>>>>,
          <<Key, <<"period", <<"text", "x">>>>, Period(3)>>,
          <<Key, <<"algorithm", <<"name", "MD5">>>>>>, <<Key, <<"digits", <<"number", 6>>>>>>}
MCStarts == {0, 1, 58}
=============================================================================
