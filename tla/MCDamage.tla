------------------------------ MODULE MCDamage ------------------------------
(***************************************************************************)
(* Files for Damage: both compressions with each kind of cipher, files of  *)
(* this program and of others, with and without other parts of a key.      *)
(***************************************************************************)
EXTENDS Damage

CONSTANT undated    \* a database with a time of fewer than eight bytes

Password == WithPassword(NoKey, <<"pw">>)
WithFile == WithKeyfile(Password, <<"hex", "k">>)
WithDevice == WithChallenge(Password, <<"device", 1, "2">>)

\* An ordinary file of this program
Own(n) ==
    [n |-> n, format |-> "KDB4", minor |-> 1, outer |-> "AES256", compression |-> "GZip",
     inner |-> "ChaCha20", kdf |-> <<"Argon2", 2>>, key |-> Password, db |-> "db",
     attachments |-> <<<<TRUE, "x">>>>, public |-> Missing, blocks |-> 0,
     layout |-> <<"cipher", "compression", "iv", "seed", "kdf">>]

Kdbx4Saves ==
    {Own(1),
     [Own(2) EXCEPT !.key = WithFile, !.outer = "ChaCha20", !.compression = "None",
                    !.blocks = 2, !.attachments = <<>>],
     [Own(3) EXCEPT !.key = WithDevice, !.outer = "Twofish", !.compression = "None",
                    !.inner = "Salsa20", !.kdf = <<"Aes", 0>>, !.blocks = 3, !.minor = 0,
                    !.public = Some(<<"data">>), !.attachments = <<>>,
                    !.layout = <<"comment", "kdf", "seed", "iv", "cipher", "compression", "public">>],
     [Own(4) EXCEPT !.blocks = 1, !.attachments = <<>>]}

OrdinarySave == {Own(1)}

\* Files that no program writes
OddSaves ==
    {[Own(5) EXCEPT !.layout = <<"cipher", "compression", "iv", "seed">>],
     [Own(6) EXCEPT !.layout = <<"cipher", "compression", "iv", "seed", "kdf", "stream start">>],
     [Own(7) EXCEPT !.attachments = <<<<>>>>],
     [Own(8) EXCEPT !.kdf = <<"Argon2", 0>>],
     [Own(9) EXCEPT !.inner = "short"],
     [Own(10) EXCEPT !.db = undated]}

OldSaves ==
    {[Own(11) EXCEPT !.format = "KDB3", !.attachments = <<>>, !.kdf = <<"Aes", 2>>],
     [Own(12) EXCEPT !.format = "KDB3", !.attachments = <<>>, !.kdf = <<"Aes", 2>>,
                     !.outer = "ChaCha20", !.compression = "None", !.inner = "Salsa20"],
     [Own(13) EXCEPT !.format = "KDB3", !.attachments = <<>>, !.kdf = <<"Aes", 2>>,
                     !.outer = "Twofish", !.compression = "None", !.key = WithFile]}

KdbSave(n, outer, fields) ==
    [Own(n) EXCEPT !.format = "KDB", !.minor = 0, !.outer = outer, !.compression = "None", !.inner = "Plain",
                   !.kdf = <<"Aes", 2>>, !.attachments = <<>>, !.db = fields]

\* Groups only, then entries only, then both, and none
KdbSaves ==
    {KdbSave(21, "AES256", [groups |-> 3, entries |-> 0, fields |-> 10]),
     KdbSave(22, "Twofish", [groups |-> 0, entries |-> 2, fields |-> 7]),
     KdbSave(23, "AES256", [groups |-> 1, entries |-> 1, fields |-> 7]),
     KdbSave(24, "Twofish", [groups |-> 0, entries |-> 0, fields |-> 0])}

AllSaves == Kdbx4Saves \cup OddSaves \cup OldSaves \cup KdbSaves
AllFiles == {s.db : s \in KdbSaves}

\* The key with one more, one less or another part, the same from another kind
\* of keyfile or device, and keys of no use
OtherKeys ==
    {NoKey, Password, WithFile, WithDevice, WithPassword(NoKey, <<"other">>),
     WithKeyfile(Password, <<"base64", "k">>), WithKeyfile(Password, <<"text", "k">>),
     WithKeyfile(NoKey, <<"file", "k">>), WithKeyfile(NoKey, <<"odd", "k">>),
     WithChallenge(Password, <<"local", <<"secret", 1, "2">>>>),
     WithChallenge(Password, <<"local", <<"no hex">>>>),
     WithChallenge(Password, <<"device", 1, "1">>), WithChallenge(Password, <<"device", 1, "3">>),
     WithChallenge(NoKey, <<"device", 1, "2">>)}

DeviceOrNot == {{}, {1}}
=============================================================================
