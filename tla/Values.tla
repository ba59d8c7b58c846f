------------------------------- MODULE Values -------------------------------
(***************************************************************************)
(* The formats of single values: variant dictionaries, texts in the XML    *)
(* document, and one-time passwords.  A behaviour is about one of them.    *)
(***************************************************************************)
EXTENDS VariantDictionary, Conversions, OneTimePassword

VARIABLE about

vars == <<about, dictionaryVars, conversionVars, otpVars>>

DictionaryIdle ==
    /\ stage = "idle" /\ use = "" /\ held = NotRead /\ buffer = <<>> /\ cut = FALSE
    /\ place = 0 /\ items = NoItems /\ outcome = Err("not read")
ConversionIdle ==
    /\ kind = "" /\ value = Unread /\ text = Absent
    /\ first = Unread /\ settled = Unread /\ saves = 0
OtpIdle ==
    /\ time = 0 /\ until = 0 /\ form = "" /\ url = <<>>
    /\ totp = NoTotp /\ shown = NoCode /\ shownAt = 0

Init ==
    \/ about = "dictionary" /\ DictionaryInit /\ ConversionIdle /\ OtpIdle
    \/ about = "conversion" /\ ConversionInit /\ DictionaryIdle /\ OtpIdle
    \/ about = "password" /\ OtpInit /\ DictionaryIdle /\ ConversionIdle

Next ==
    \/ about = "dictionary" /\ DictionaryNext /\ UNCHANGED <<about, conversionVars, otpVars>>
    \/ about = "conversion" /\ ConversionNext /\ UNCHANGED <<about, dictionaryVars, otpVars>>
    \/ about = "password" /\ OtpNext /\ UNCHANGED <<about, dictionaryVars, conversionVars>>

Spec == Init /\ [][Next]_vars

----------------------------------------------------------------------------
(* Properties.                                                             *)

\* The key derivation parameters with their seed, and a public dictionary, are
\* read back as they were saved, in whatever order the map gave its entries, and
\* with empty keys and values; what another program wrote is kept by every later
\* save; and no dictionary that lost its end is read at all (dump and the loop
\* bounds of parse, to_variant_dictionary and try_from).
DictionaryReturns ==
    (stage = "read" /\ held # NotRead) => IF cut THEN ~IsOk(outcome) ELSE outcome = Ok(held[1])

\* The first time a value is saved it may lose what its text cannot tell: parts
\* of a second, blank names, tags with delimiters, strings that look like
\* Base64.  Any other value comes back as it was, and what was read once,
\* whoever wrote it, never changes again (custom_serde, tags, timestamp, meta).
Tellable ==
    CASE kind = "tags" /\ first # Unread ->
           /\ first # Some(<<<<>>>>)
           /\ \A i \in DOMAIN first[1] :
                Trimmed(first[1][i]) = first[1][i] /\ SplitTags(first[1][i]) = <<first[1][i]>>
      [] kind = "name" /\ first # Unread -> first = Nothing \/ ~Blank(first[1])
      [] kind = "custom data" /\ first # Unread ->
           first # Nothing /\ (first[1][1] = "String" => first[1][2][1] # "base64")
      [] kind = "time" /\ first # Unread -> first = Nothing \/ first[1] % Tick = 0
      [] OTHER -> TRUE

ValuesSettle ==
    (about = "conversion" /\ value # Unread) =>
        /\ settled # Unread => value = settled
        /\ (first # Unread /\ Tellable) => value = first

\* A code that was shown is the code for as many seconds as were shown with it,
\* and for not one second more (value_at, over the end of periods that begin at
\* 1970 and not when the code is asked for).
CodeValid ==
    shown # NoCode =>
        (CodeAt(totp, time) = shown.code <=> time < shownAt + shown.validFor)
=============================================================================
