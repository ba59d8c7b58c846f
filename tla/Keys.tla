-------------------------------- MODULE Keys --------------------------------
(***************************************************************************)
(* Database keys (src/src/key): a password, a keyfile and a key that       *)
(* answers a challenge, each of them there or not.  What may be missing is *)
(* a sequence of at most one element.                                      *)
(***************************************************************************)
EXTENDS Crypto

Some(x) == <<x>>
Missing == <<>>

NoKey == [password |-> Missing, keyfile |-> Missing, challenge |-> Missing, response |-> Missing]

WithPassword(key, p) == [key EXCEPT !.password = Some(p)]
WithKeyfile(key, f) == [key EXCEPT !.keyfile = Some(f)]
WithChallenge(key, c) == [key EXCEPT !.challenge = Some(c)]

IsEmpty(key) == key.password = Missing /\ key.keyfile = Missing /\ key.challenge = Missing

\* A keyfile is <<form, content>>: an XML file with a data element, read as hex
\* (version 2.0) or base64 if it is that and as text if not, else 32 bytes that
\* are the key, else any file.  The data in an XML file has no length that it
\* must have: "odd" data is not 32 bytes.
KeyfileElement(f) ==
    CASE f[1] \in {"hex", "base64", "32 bytes"} -> <<"bytes", f[2]>>
      [] f[1] = "text" -> <<"text", f[2]>>
      [] f[1] = "odd" -> <<"odd", f[2]>>
      [] OTHER -> Sha256(<<f>>)

\* LocalChallenge(secret) is <<"local", secret>>, YubikeyChallenge is <<"device",
\* serial, slot>>; the secret in the slot of a device is not known to anyone
\* but its owner.
SecretOf(c) == IF c[1] = "local" THEN c[2] ELSE <<"secret", c[2], c[3]>>

\* The secret is not hexadecimal, or there is no such slot or device now.
ChallengeFails(key, devices) ==
    /\ key.challenge # Missing
    /\ LET c == key.challenge[1]
       IN IF c[1] = "local" THEN c[2] = <<"no hex">>
          ELSE c[3] \notin {"1", "2"} \/ c[2] \notin devices

Challenged(key, seed) ==
    IF key.challenge = Missing THEN key
    ELSE [key EXCEPT !.response = Some(HmacSha1(SecretOf(key.challenge[1]), seed))]

\* get_key_elements: a challenge alone is no key.
KeyError(key) ==
    IF key.password = Missing /\ key.keyfile = Missing THEN "EmptyKey"
    ELSE IF key.challenge # Missing /\ key.response = Missing THEN "NotPerformed"
    ELSE "none"

KeyElements(key) ==
    (IF key.password = Missing THEN <<>> ELSE <<Sha256(<<key.password>>)>>)
    \o (IF key.keyfile = Missing THEN <<>> ELSE <<KeyfileElement(key.keyfile[1])>>)
    \o (IF key.response = Missing THEN <<>> ELSE <<Sha256(<<key.response>>)>>)

\* The only element of a key is not the 32 bytes that the KDB reader expects.
IsOddKey(key) == Len(KeyElements(key)) = 1 /\ KeyElements(key)[1][1] = "odd"

CompositeKey(key) == Sha256(KeyElements(key))

\* get_yubikey: the device with the serial number asked for, or the only one
FoundYubikeys(serial, devices) ==
    IF serial # Missing THEN {d \in devices : d = serial[1]}
    ELSE {d \in devices : devices = {d}}
=============================================================================
