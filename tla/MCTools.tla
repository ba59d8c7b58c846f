------------------------------ MODULE MCTools ------------------------------
(***************************************************************************)
(* Two tools on two paths, with a YubiKey that comes and goes.             *)
(***************************************************************************)
EXTENDS Tools

CONSTANTS a, b

Password == WithPassword(NoKey, <<"pw">>)
WithDevice == WithChallenge(Password, <<"device", 1, "2">>)

Plain(n) ==
    [n |-> n, format |-> "KDB4", minor |-> 1, outer |-> "ChaCha20", compression |-> "None",
     inner |-> "ChaCha20", kdf |-> <<"Argon2", 2>>, key |-> Password,
     db |-> [of |-> "original", history |-> TRUE],
     attachments |-> <<>>, public |-> Missing, blocks |-> 2,
     layout |-> <<"cipher", "compression", "iv", "seed", "kdf">>]

At(s, t) == a :> s @@ b :> t

\* A file of another program in more and shorter blocks than ours, with and
\* without a YubiKey, and versions that cannot be saved
SavesAtFirst ==
    {At(Plain(11), None),
     At([Plain(12) EXCEPT !.key = WithDevice, !.public = Some(<<"data">>),
                    !.layout = <<"public", "iv", "seed", "cipher", "compression", "kdf">>], None),
     At([Plain(13) EXCEPT !.minor = 0], Plain(14)),
     At([Plain(15) EXCEPT !.format = "KDB3", !.kdf = <<"Aes", 2>>], None)}

Given == {NoKey, Password}
Tried == {WithPassword(NoKey, <<"other">>), WithDevice,
          WithChallenge(Password, <<"local", <<"secret", 1, "2">>>>)}
Typed == {<<"secret", 1, "2">>, <<"no hex">>}
KeysSaved == {WithPassword(NoKey, <<"other">>), WithChallenge(NoKey, <<"device", 1, "2">>)}
=============================================================================
