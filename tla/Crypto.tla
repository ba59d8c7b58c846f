------------------------------- MODULE Crypto -------------------------------
(***************************************************************************)
(* Hashes, key derivation, ciphers and compression (src/src/crypt,         *)
(* src/src/compression.rs) as far as a container depends on them.  What a  *)
(* hash or a cipher returns is a term that names its arguments: two terms  *)
(* are equal only if they were made from the same ones.  A file is a       *)
(* sequence of cells, tuples that begin with the name of their kind.       *)
(***************************************************************************)
EXTENDS Integers, Sequences

Sha256(x) == <<"sha256", x>>
Sha512(x) == <<"sha512", x>>
Hmac(key, x) == <<"hmac", key, x>>
HmacSha1(key, x) == <<"hmac sha1", key, x>>

\* A key derivation function is <<kind, cost>>: Argon2 refuses to run with a
\* cost of zero, and AES then makes no round.
KdfWorks(kdf) == kdf[1] = "Aes" \/ kdf[2] > 0
TransformKey(kdf, seed, composite) == <<"transformed", kdf, seed, composite>>

MasterKey(seed, transformed) == Sha256(<<seed, transformed>>)
HmacKey(seed, transformed) == Sha512(<<seed, transformed>>)

----------------------------------------------------------------------------
(* The outer ciphers.  AES256 and Twofish chain their blocks (CBC) and pad *)
(* the last one; ChaCha20 is a key stream.                                 *)

OuterCiphers == {"AES256", "Twofish", "ChaCha20"}
Chains(cipher) == cipher # "ChaCha20"

Garbage == <<"garbage">>
Padding == <<"padding">>

Chained(key, iv, plain) ==
    LET c[i \in 0 .. Len(plain)] == IF i = 0 THEN iv ELSE <<"cbc", key, c[i - 1], plain[i]>>
    IN [i \in DOMAIN plain |-> c[i]]

Encrypted(cipher, key, iv, plain) ==
    IF Chains(cipher)
      THEN Chained(<<cipher, key>>, iv, Append(plain, Padding))
      ELSE [i \in DOMAIN plain |-> <<"stream", <<cipher, key>>, <<iv, i>>, plain[i]>>]

\* A cell comes out as it went in if the key is right and it follows what it
\* followed then: the cell before it, or the number of cells before it.
Before(cipher, iv, cells, i) ==
    IF ~Chains(cipher) THEN <<iv, i>> ELSE IF i = 1 THEN iv ELSE cells[i - 1]

Recovers(cipher, key, iv, cells, i) ==
    /\ cells[i][1] = (IF Chains(cipher) THEN "cbc" ELSE "stream")
    /\ cells[i][2] = <<cipher, key>>
    /\ cells[i][3] = Before(cipher, iv, cells, i)

Deciphered(cipher, key, iv, cells) ==
    [i \in DOMAIN cells |-> IF Recovers(cipher, key, iv, cells, i) THEN cells[i][4] ELSE Garbage]

\* decrypt_padded accepts the end of what it deciphered; on anything but the
\* padding it may do so by accident, one time in 256.
Padded(plain) == plain # <<>> /\ plain[Len(plain)] = Padding

\* AES256Cipher::decrypt cuts the padding off, TwofishCipher::decrypt leaves it.
Unpadded(cipher, plain) ==
    IF cipher = "AES256" THEN SubSeq(plain, 1, Len(plain) - 1) ELSE plain

----------------------------------------------------------------------------
(* Compression.  The two cells of GZip are the data and its checksum.      *)

Compressions == {"None", "GZip"}

Compressed(compression, plain) ==
    IF compression = "None" THEN plain ELSE <<<<"gzip", 1, plain>>, <<"gzip", 2, plain>>>>

\* What follows the checksum is not looked at.
Inflates(compression, cells) ==
    \/ compression = "None"
    \/ /\ Len(cells) >= 2
       /\ cells[1][1] = "gzip" /\ cells[1][2] = 1
       /\ cells[2] = <<"gzip", 2, cells[1][3]>>

Inflated(compression, cells) == IF compression = "None" THEN cells ELSE cells[1][3]

----------------------------------------------------------------------------
(* The inner ciphers protect single values of the document: all that       *)
(* matters to a container is that the reader makes the same key stream.    *)

InnerCiphers == {"Plain", "Salsa20", "ChaCha20"}
SameStream(cipher1, key1, cipher2, key2) ==
    cipher1 = cipher2 /\ (cipher1 = "Plain" \/ key1 = key2)
=============================================================================
