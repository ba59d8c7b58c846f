---------------------------- MODULE Conversions ----------------------------
(***************************************************************************)
(* Values that the XML document holds as text (src/src/format/xml_db), and *)
(* what becomes of them when a database is saved and opened again.  A text *)
(* is told apart as far as its reader does: tags and names letter by       *)
(* letter, other texts by what they are the form of.                       *)
(***************************************************************************)
EXTENDS Integers, Sequences, SequencesExt

CONSTANTS
    ValuesSaved,    \* values in memory: <<kind, value>>
    FoundTexts,     \* texts of other programs: <<kind, text>>
    Tick,           \* the ticks of the clock in a second
    Baseline,       \* the seconds from the start of the year 1 to 1970
    MaxSaves        \* a bound

VARIABLES
    kind,
    value,          \* what is in memory, Unread if nothing yet
    text,           \* what is in the document, Absent if the element is not there
    first,          \* the value that was saved first, Unread if there was none
    settled,        \* the value that was read first
    saves           \* how often it was saved

conversionVars == <<kind, value, text, first, settled, saves>>

\* A value that may be missing: <<>> or <<v>>
Nothing == <<>>
Some(v) == <<v>>
Unread == <<"not", "read">>
Fails == <<"reading", "fails">>
Panics == <<"reading", "panics">>
Absent == <<"absent">>

----------------------------------------------------------------------------
(* Letters.                                                                *)

Delimiters == {";", ",", "tab"}
Spaces == {" ", "tab"}

Blank(s) == \A i \in DOMAIN s : s[i] \in Spaces

Trimmed(s) ==
    LET kept == {i \in DOMAIN s : s[i] \notin Spaces}
    IN IF kept = {} THEN <<>>
       ELSE SubSeq(s, CHOOSE i \in kept : \A j \in kept : i <= j,
                      CHOOSE i \in kept : \A j \in kept : j <= i)

\* The pieces between delimiters, also empty ones
SplitTags(s) ==
    LET ends == {i \in DOMAIN s : s[i] \in Delimiters}
        cuts == <<0>> \o SetToSortSeq(ends, <) \o <<Len(s) + 1>>
    IN [i \in 1 .. Len(cuts) - 1 |-> Trimmed(SubSeq(s, cuts[i] + 1, cuts[i + 1] - 1))]

JoinTags(tags) ==
    FlattenSeq([i \in DOMAIN tags |-> IF i = 1 THEN tags[i] ELSE <<";">> \o tags[i]])

----------------------------------------------------------------------------
(* A value as a text, and a text as a value.                               *)

\* Times are written as seconds of the year 1, parts of a second are cut off.
TimeText_Since1970(t) == <<"base64", 8, t \div Tick>>
TimeText(t) == <<"base64", 8, t \div Tick + Baseline>>

\* Text of neither form is an error; the Base64 of fewer than eight bytes is
\* worse.
TimeOf(x) ==
    CASE x[1] = "iso" -> Some(x[2] * Tick)
      [] x[1] = "base64" /\ x[2] >= 8 -> Some((x[3] - Baseline) * Tick)
      [] x[1] = "base64" /\ x[2] < 8 -> Panics
      [] OTHER -> Fails

FlagText(b) == <<"word", IF b THEN "true" ELSE "false">>
FlagOf(x) ==
    IF x \in {<<"word", "true">>, <<"word", "1">>} THEN Some(TRUE)
    ELSE IF x \in {<<"word", "false">>, <<"word", "0">>} THEN Some(FALSE)
    ELSE IF x \in {<<"word", "null">>, <<"word", "">>, Absent} THEN Nothing
    ELSE Fails

\* A flag of what is protected that is not given has its default.
Protected == {"title", "username", "password", "url", "notes"}
ProtectionOf(flags) ==
    [f \in Protected |-> IF FlagOf(flags[f]) = Nothing THEN f = "password" ELSE FlagOf(flags[f])[1]]

\* A custom data item without a value is written as the empty text; whatever can
\* be the Base64 of some bytes, the empty text too, is read as them.
CustomText(v) ==
    IF v = Nothing THEN <<"base64", <<>>>>
    ELSE IF v[1][1] = "String" THEN v[1][2] ELSE <<"base64", v[1][2]>>
CustomOf(x) == Some(IF x[1] = "base64" THEN <<"Binary", x[2]>> ELSE <<"String", x>>)

TextOf(k, v) ==
    CASE k = "custom data" -> CustomText(v)
      [] k # "custom data" /\ v = Nothing -> Absent
      [] k = "tags" /\ v # Nothing -> IF v[1] = <<>> THEN Absent ELSE <<"letters", JoinTags(v[1])>>
      [] k = "name" /\ v # Nothing -> <<"letters", v[1]>>
      [] k = "time" /\ v # Nothing -> TimeText(v[1])
      [] k = "flag" /\ v # Nothing -> FlagText(v[1])
      [] k = "obfuscation" /\ v # Nothing -> <<"number", IF v[1] = "clipboard" THEN 1 ELSE 0>>
      [] k = "protection" /\ v # Nothing -> <<"flags", [f \in Protected |-> FlagText(v[1][f])]>>

\* Text that cs_opt_string and cs_opt_fromstr take for none
NoText(x) == x = Absent \/ (x[1] = "letters" /\ Blank(x[2]))

\* Any number but 1 means no obfuscation.
ObfuscationOf(x) ==
    IF NoText(x) THEN Some("none")
    ELSE IF x[1] # "number" THEN Fails
    ELSE Some(IF x[2] = 1 THEN "clipboard" ELSE "none")

ValueOfText(k, x) ==
    CASE k = "custom data" -> CustomOf(x)
      [] k = "tags" -> Some(IF NoText(x) THEN <<>> ELSE SplitTags(x[2]))
      [] k = "name" -> IF NoText(x) THEN Nothing ELSE Some(x[2])
      [] k = "time" -> IF NoText(x) THEN Nothing ELSE TimeOf(x)
      [] k = "flag" -> FlagOf(x)
      [] k = "obfuscation" -> ObfuscationOf(x)
      [] k = "protection" -> IF x = Absent THEN Nothing ELSE Some(ProtectionOf(x[2]))

----------------------------------------------------------------------------
ConversionInit ==
    /\ saves = 0 /\ settled = Unread
    /\ \/ \E x \in ValuesSaved :
             kind = x[1] /\ value = x[2] /\ first = x[2] /\ text = Absent
       \/ \E x \in FoundTexts :
             kind = x[1] /\ text = x[2] /\ first = Unread /\ value = Unread

Save ==
    /\ value \notin {Unread, Fails, Panics} /\ saves < MaxSaves
    /\ text' = TextOf(kind, value) /\ value' = Unread /\ saves' = saves + 1
    /\ UNCHANGED <<kind, first, settled>>

Open ==
    /\ value = Unread
    /\ value' = ValueOfText(kind, text)
    /\ settled' = IF settled = Unread THEN value' ELSE settled
    /\ UNCHANGED <<kind, text, first, saves>>

ConversionNext == Save \/ Open
=============================================================================
