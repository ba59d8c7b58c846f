-------------------------- MODULE OneTimePassword --------------------------
(***************************************************************************)
(* One-time passwords (src/src/db/otp.rs): the settings in the URL of an   *)
(* entry, and the codes they give while the clock runs, in seconds.        *)
(***************************************************************************)
EXTENDS Integers, Sequences

CONSTANTS
    Urls,           \* the query pairs of the field "otp" of the entry, in order
    Starts,         \* times at which the clock starts
    RunsFor         \* a bound: how many seconds it runs

\* Keys and values of the pairs; numbers are u64 or u32.
ASSUME UrlsAssumption ==
    \A u \in Urls :
        /\ Len(u) \in Nat /\ DOMAIN u = 1 .. Len(u)
        /\ \A i \in DOMAIN u : u[i][2][1] = "number" => u[i][2][2] \in Nat
ASSUME ClockAssumption == Starts \subseteq Nat /\ RunsFor \in Nat

VARIABLES time, until, form, url, totp, shown, shownAt

otpVars == <<time, until, form, url, totp, shown, shownAt>>

NoCode == [code |-> <<>>]
NoTotp == [error |-> "not parsed"]

\* What the field may be other than a URL of this scheme
NoOtp == {"NoRecord", "UrlFormat", "BadScheme"}

Algorithms == {"SHA1", "SHA256", "SHA512"}
Numbers == {"period", "digits"}

Defaults == [secret |-> <<>>, period |-> 30, digits |-> 8, algorithm |-> "SHA1"]

\* A value of a pair: a number, a name of an algorithm, or the bytes of a secret.
BadPair(p) ==
    \/ p[1] \in Numbers /\ p[2][1] # "number"
    \/ p[1] = "algorithm" /\ p[2] \notin {<<"name", a>> : a \in Algorithms}

LastOf(pairs, key) ==
    LET at == {i \in DOMAIN pairs : pairs[i][1] = key}
    IN pairs[CHOOSE i \in at : \A j \in at : j <= i][2]

\* TOTP::from_str: every pair must be right, even one that a later one replaces;
\* the secret is looked at last.
Parsed(pairs) ==
    LET given == {pairs[i][1] : i \in DOMAIN pairs}
    IN IF \E i \in DOMAIN pairs : BadPair(pairs[i]) THEN [error |-> "bad value"]
       ELSE IF "secret" \notin given THEN [error |-> "MissingField"]
       ELSE IF LastOf(pairs, "secret")[1] # "base32" THEN [error |-> "Base32"]
       ELSE [f \in DOMAIN Defaults |-> IF f \in given THEN LastOf(pairs, f)[2] ELSE Defaults[f]]

Works(t) == "secret" \in DOMAIN t

\* totp_custom counts the periods since 1970.
CodeAt(t, now) == <<t.algorithm, t.digits, t.secret, now \div t.period>>

ValidFor_Elapsed(t, now) == now % t.period
ValidFor(t, now) == t.period - (now % t.period)

----------------------------------------------------------------------------
OtpInit ==
    /\ time \in Starts /\ until = time + RunsFor
    /\ \/ form = "otpauth" /\ url \in Urls
       \/ form \in NoOtp /\ url = <<>>
    /\ totp = NoTotp
    /\ shown = NoCode /\ shownAt = 0

\* Entry::get_otp
GetOtp ==
    /\ totp = NoTotp
    /\ totp' = IF form = "otpauth" THEN Parsed(url) ELSE [error |-> form]
    /\ UNCHANGED <<time, until, form, url, shown, shownAt>>

\* TOTP::value_now.  With a period of zero it panics, on the division.
ValueNow ==
    /\ Works(totp) /\ totp.period # 0
    /\ shown' = [code |-> CodeAt(totp, time), validFor |-> ValidFor(totp, time)]
    /\ shownAt' = time
    /\ UNCHANGED <<time, until, form, url, totp>>

Second ==
    /\ time < until /\ time' = time + 1
    /\ UNCHANGED <<until, form, url, totp, shown, shownAt>>

OtpNext == GetOtp \/ ValueNow \/ Second
=============================================================================
