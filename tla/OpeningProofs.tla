--------------------------- MODULE OpeningProofs ---------------------------
(***************************************************************************)
(* What the readers of Opening make of a file, for every save: which cells *)
(* a file has, what a cell that passes a check says about who made it, and *)
(* what is in memory at each step of a call.                               *)
(***************************************************************************)
EXTENDS Opening, FiniteSetTheorems, TLAPS

----------------------------------------------------------------------------
(* Induction over the natural numbers, for sets.                           *)

\* Were a number missing from S, there would be finitely many missing up to it,
\* each with a missing predecessor, and counting down by one would map them
\* one to one into fewer.
LEMMA NumbersInduction ==
    ASSUME NEW S, 0 \in S, \A n \in Nat : n \in S => n + 1 \in S
    PROVE  Nat \subseteq S
<1> SUFFICES ASSUME NEW m \in Nat, m \notin S
             PROVE  FALSE
  OBVIOUS
<1> DEFINE B == {k \in 0 .. m : k \notin S}
           f == [k \in B |-> k - 1]
<1>1. \A k \in B : k - 1 \in B \ {m}
  OBVIOUS
<1>2. IsFiniteSet(B) /\ Cardinality(B) \in Nat
  <2>1. IsFiniteSet(0 .. m)
    BY FS_Interval
  <2> QED  BY <2>1, FS_Subset, FS_CardinalityType
<1>3. m \in B
  OBVIOUS
<1>4. IsFiniteSet(B \ {m}) /\ Cardinality(B \ {m}) < Cardinality(B)
  <2> HIDE DEF B, f
  <2>1. /\ IsFiniteSet(B \ {m})
        /\ Cardinality(B \ {m}) = IF m \in B THEN Cardinality(B) - 1 ELSE Cardinality(B)
    BY <1>2, FS_RemoveElement
  <2> QED  BY <1>2, <1>3, <2>1
<1>5. f \in [B -> B \ {m}]
  BY <1>1
<1>6. \A x, y \in B : f[x] = f[y] => x = y
  OBVIOUS
<1> HIDE DEF B, f
<1> QED  BY <1>2, <1>4, <1>5, <1>6, FS_PigeonHole

----------------------------------------------------------------------------
(* Sequences of anything.                                                  *)

IsSeq(q) == \E S : q \in Seq(S)

\* A sequence has a length and is defined up to it.
LEMMA SeqIs ==
    ASSUME NEW q, IsSeq(q)
    PROVE  Len(q) \in Nat /\ DOMAIN q = 1 .. Len(q)
BY DEF IsSeq

\* A function on 1 .. n is a sequence of length n.
LEMMA FunctionIsSeq ==
    ASSUME NEW n \in Nat, NEW f, f = [i \in 1 .. n |-> f[i]]
    PROVE  IsSeq(f) /\ Len(f) = n
<1> DEFINE S == {f[i] : i \in 1 .. n}
<1>1. f \in [1 .. n -> S]
  OBVIOUS
<1>2. f \in Seq(S)
  <2> HIDE DEF S
  <2> QED  BY <1>1
<1> HIDE DEF S
<1>3. Len(f) = n
  BY <1>1, <1>2
<1> QED  BY <1>2, <1>3 DEF IsSeq

\* Sequences of the same length with the same cells are equal.
LEMMA SeqsEqual ==
    ASSUME NEW q, NEW r, IsSeq(q), IsSeq(r), Len(q) = Len(r),
           \A i \in 1 .. Len(q) : q[i] = r[i]
    PROVE  q = r
<1>1. PICK S : q \in Seq(S)
  BY DEF IsSeq
<1>2. PICK T : r \in Seq(T)
  BY DEF IsSeq
<1>3. q = [i \in 1 .. Len(q) |-> q[i]] /\ r = [i \in 1 .. Len(r) |-> r[i]]
  BY <1>1, <1>2
<1> QED  BY <1>3

\* Two sequences are sequences over one set.
LEMMA BothSeqs ==
    ASSUME NEW q, NEW r, IsSeq(q), IsSeq(r)
    PROVE  \E S : q \in Seq(S) /\ r \in Seq(S)
<1>1. PICK S : q \in Seq(S)
  BY DEF IsSeq
<1>2. PICK T : r \in Seq(T)
  BY DEF IsSeq
<1>3. q \in Seq(S \cup T) /\ r \in Seq(S \cup T)
  BY <1>1, <1>2
<1> QED  BY <1>3

\* The operators on sequences, under names that are expanded only where they meet
\* the definitions of a model.
Joined(q, r) == q \o r
Part(q, m, n) == SubSeq(q, m, n)
Added(q, e) == Append(q, e)

\* What concatenation makes of two sequences.
LEMMA JoinedIs ==
    ASSUME NEW q, NEW r, IsSeq(q), IsSeq(r)
    PROVE  /\ IsSeq(Joined(q, r)) /\ Len(Joined(q, r)) = Len(q) + Len(r)
           /\ \A i \in 1 .. Len(q) : Joined(q, r)[i] = q[i]
           /\ \A i \in Len(q) + 1 .. Len(q) + Len(r) : Joined(q, r)[i] = r[i - Len(q)]
<1>1. PICK S : q \in Seq(S) /\ r \in Seq(S)
  BY BothSeqs
<1>2. q \o r \in Seq(S)
  BY <1>1
<1> QED  BY <1>1, <1>2 DEF IsSeq, Joined

JoinsTo(q, r, t, a, b) ==
    /\ a \in Nat /\ b \in Nat /\ IsSeq(t) /\ Len(t) = a + b
    /\ \A i \in 1 .. a : t[i] = q[i]
    /\ \A i \in 1 .. b : t[a + i] = r[i]

\* The same with names for the two lengths and the result.
LEMMA JoinedAt ==
    ASSUME NEW q, NEW r, IsSeq(q), IsSeq(r), NEW a, a = Len(q), NEW b, b = Len(r),
           NEW t, t = Joined(q, r)
    PROVE  JoinsTo(q, r, t, a, b)
<1>1. /\ IsSeq(t) /\ Len(t) = a + b
      /\ \A i \in 1 .. a : t[i] = q[i]
      /\ \A i \in a + 1 .. a + b : t[i] = r[i - a]
  BY JoinedIs
<1>2. a \in Nat /\ b \in Nat
  BY SeqIs
<1>3. ASSUME NEW i \in 1 .. b PROVE t[a + i] = r[i]
  <2>1. a + i \in a + 1 .. a + b /\ (a + i) - a = i
    BY <1>2
  <2> QED  BY <1>1, <2>1
<1> QED  BY <1>1, <1>2, <1>3 DEF JoinsTo

\* What a part of a sequence is.
LEMMA PartIs ==
    ASSUME NEW q, IsSeq(q), NEW m \in Nat \ {0}, NEW n \in 0 .. Len(q)
    PROVE  /\ IsSeq(Part(q, m, n))
           /\ Len(Part(q, m, n)) = IF m <= n THEN n - m + 1 ELSE 0
           /\ \A i \in 1 .. n - m + 1 : Part(q, m, n)[i] = q[m + i - 1]
<1>1. PICK S : q \in Seq(S)
  BY DEF IsSeq
<1>2. SubSeq(q, m, n) = [i \in 1 .. n - m + 1 |-> q[m + i - 1]]
  BY <1>1
<1>3. \A i \in 1 .. n - m + 1 : q[m + i - 1] \in S
  BY <1>1
<1>4. CASE m <= n
  <2> DEFINE k == n - m + 1
  <2>1. k \in Nat
    BY <1>1, <1>4
  <2>2. SubSeq(q, m, n) \in Seq(S) /\ Len(SubSeq(q, m, n)) = k
    BY <1>2, <1>3, <2>1
  <2> QED  BY <1>2, <1>4, <2>1, <2>2 DEF IsSeq, Part
<1>5. CASE ~ (m <= n)
  <2>1. SubSeq(q, m, n) = <<>>
    BY <1>1, <1>2, <1>5
  <2>2. SubSeq(q, m, n) \in Seq({}) /\ Len(SubSeq(q, m, n)) = 0
    BY <2>1
  <2> QED  BY <1>1, <1>5, <2>2 DEF IsSeq, Part
<1> QED  BY <1>4, <1>5

\* What a sequence with one more element is.
LEMMA AddedIs ==
    ASSUME NEW q, NEW e, IsSeq(q)
    PROVE  /\ IsSeq(Added(q, e)) /\ Len(Added(q, e)) = Len(q) + 1
           /\ \A i \in 1 .. Len(q) : Added(q, e)[i] = q[i]
           /\ Added(q, e)[Len(q) + 1] = e
<1>1. PICK S : q \in Seq(S)
  BY DEF IsSeq
<1>2. q \in Seq(S \cup {e}) /\ e \in S \cup {e}
  BY <1>1
<1>3. Append(q, e) \in Seq(S \cup {e})
  BY <1>2
<1> QED  BY <1>2, <1>3 DEF IsSeq, Added

\* Tuples are sequences.
LEMMA TuplesAreSeqs ==
    /\ IsSeq(<<>>) /\ Len(<<>>) = 0
    /\ \A a : IsSeq(<<a>>) /\ Len(<<a>>) = 1 /\ <<a>>[1] = a
    /\ \A a, b : IsSeq(<<a, b>>) /\ Len(<<a, b>>) = 2
    /\ \A a, b, c : IsSeq(<<a, b, c>>) /\ Len(<<a, b, c>>) = 3
<1>1. <<>> \in Seq({})
  OBVIOUS
<1>2. \A a : <<a>> \in Seq({a})
  OBVIOUS
<1>3. \A a, b : <<a, b>> \in Seq({a, b})
  OBVIOUS
<1>4. \A a, b, c : <<a, b, c>> \in Seq({a, b, c})
  OBVIOUS
<1> QED  BY <1>1, <1>2, <1>3, <1>4 DEF IsSeq

----------------------------------------------------------------------------
(* Ciphers.                                                                *)

\* What Chained says of itself is so: each cell names the one before it.
LEMMA ChainedIs ==
    ASSUME NEW key, NEW iv, NEW plain, IsSeq(plain), NEW E, E = Chained(key, iv, plain)
    PROVE  /\ IsSeq(E) /\ Len(E) = Len(plain)
           /\ \A i \in 1 .. Len(plain) :
                E[i] = <<"cbc", key, IF i = 1 THEN iv ELSE E[i - 1], plain[i]>>
<1> DEFINE n == Len(plain)
           at(f, i) == IF i = 0 THEN iv ELSE <<"cbc", key, f[i - 1], plain[i]>>
           S == {k \in Nat : \E f : f = [i \in 0 .. k |-> at(f, i)]}
<1>0. n \in Nat /\ DOMAIN plain = 1 .. n
  BY SeqIs
<1>1. 0 \in S
  <2>1. PICK f : f = [i \in 0 .. 0 |-> iv]
    OBVIOUS
  <2>2. f = [i \in 0 .. 0 |-> at(f, i)]
    BY <2>1
  <2> QED  BY <2>2
<1>2. ASSUME NEW k \in Nat, k \in S PROVE k + 1 \in S
  <2>1. PICK f : f = [i \in 0 .. k |-> at(f, i)]
    BY <1>2
  <2>2. PICK g : g = [i \in 0 .. k + 1 |-> IF i = k + 1 THEN at(f, i) ELSE f[i]]
    OBVIOUS
  <2>3. ASSUME NEW i \in 0 .. k + 1 PROVE g[i] = at(g, i)
    <3>1. i # 0 => g[i - 1] = f[i - 1]
      BY <2>2
    <3>2. i # k + 1 => f[i] = at(f, i)
      <4>1. \A j \in 0 .. k : f[j] = at(f, j)
        BY <2>1
      <4>2. i # k + 1 => i \in 0 .. k
        OBVIOUS
      <4> HIDE DEF at
      <4> QED  BY <4>1, <4>2
    <3>3. g[i] = at(f, i)
      BY <2>2, <3>2
    <3> QED  BY <3>1, <3>3
  <2>4. g = [i \in 0 .. k + 1 |-> at(g, i)]
    BY <2>2, <2>3
  <2> QED  BY <2>4
<1>3. n \in S
  <2> HIDE DEF S
  <2> QED  BY <1>0, <1>1, <1>2, NumbersInduction
<1>4. PICK c : /\ c = [i \in 0 .. n |-> at(c, i)]
               /\ E = [i \in DOMAIN plain |-> c[i]]
  <2> DEFINE c == CHOOSE f : f = [i \in 0 .. n |-> at(f, i)]
  <2>1. c = [i \in 0 .. n |-> at(c, i)]
    BY <1>3
  <2>2. E = [i \in DOMAIN plain |-> c[i]]
    BY DEF Chained
  <2> QED  BY <2>1, <2>2
<1>5. \A i \in 1 .. n : E[i] = <<"cbc", key, IF i = 1 THEN iv ELSE E[i - 1], plain[i]>>
  <2> SUFFICES ASSUME NEW i \in 1 .. n
               PROVE  E[i] = <<"cbc", key, IF i = 1 THEN iv ELSE E[i - 1], plain[i]>>
    OBVIOUS
  <2>0. (\A j \in 0 .. n : c[j] = at(c, j)) /\ (\A j \in 1 .. n : E[j] = c[j])
    BY <1>0, <1>4
  <2>1. E[i] = c[i] /\ c[i] = <<"cbc", key, c[i - 1], plain[i]>>
    <3>1. E[i] = c[i] /\ c[i] = at(c, i)
      <4> HIDE DEF at
      <4> QED  BY <1>0, <2>0
    <3>2. at(c, i) = <<"cbc", key, c[i - 1], plain[i]>>
      BY <1>0
    <3> QED  BY <3>1, <3>2
  <2>2. c[i - 1] = IF i = 1 THEN iv ELSE E[i - 1]
    <3>1. CASE i = 1
      <4>1. c[0] = at(c, 0)
        <5> HIDE DEF at
        <5> QED  BY <1>0, <2>0
      <4>2. at(c, 0) = iv
        OBVIOUS
      <4> QED  BY <3>1, <4>1, <4>2
    <3>2. CASE i # 1
      <4>1. i - 1 \in 1 .. n
        BY <1>0, <3>2
      <4> QED  BY <2>0, <3>2, <4>1
    <3> QED  BY <3>1, <3>2
  <2> QED  BY <2>1, <2>2
<1>6. E = [i \in 1 .. n |-> E[i]]
  BY <1>0, <1>4
<1> QED  BY <1>0, <1>5, <1>6, FunctionIsSeq

\* What goes through a cipher, with the padding where there is one, and the cells
\* that come out.
WithPadding(cipher, plain) == IF Chains(cipher) THEN Append(plain, Padding) ELSE plain

CipherCell(cipher, key, iv, plain, cells, i) ==
    IF Chains(cipher)
      THEN <<"cbc", <<cipher, key>>, IF i = 1 THEN iv ELSE cells[i - 1], plain[i]>>
      ELSE <<"stream", <<cipher, key>>, <<iv, i>>, plain[i]>>

\* A cipher makes a cell of every cell of its padded plaintext (Encrypted).
LEMMA EncryptedIs ==
    ASSUME NEW cipher, NEW key, NEW iv, NEW plain, IsSeq(plain),
           NEW E, E = Encrypted(cipher, key, iv, plain), NEW P, P = WithPadding(cipher, plain)
    PROVE  /\ IsSeq(E) /\ IsSeq(P) /\ Len(E) = Len(P)
           /\ \A i \in 1 .. Len(P) : E[i] = CipherCell(cipher, key, iv, P, E, i)
<1>1. CASE Chains(cipher)
  <2>1. IsSeq(P)
    BY <1>1, AddedIs DEF WithPadding, Added
  <2>2. E = Chained(<<cipher, key>>, iv, P)
    BY <1>1 DEF Encrypted, WithPadding
  <2>3. /\ IsSeq(E) /\ Len(E) = Len(P)
        /\ \A i \in 1 .. Len(P) :
             E[i] = <<"cbc", <<cipher, key>>, IF i = 1 THEN iv ELSE E[i - 1], P[i]>>
    BY <2>1, <2>2, ChainedIs
  <2> QED  BY <1>1, <2>1, <2>3 DEF CipherCell
<1>2. CASE ~ Chains(cipher)
  <2>1. P = plain /\ Len(P) \in Nat /\ DOMAIN P = 1 .. Len(P)
    BY <1>2, SeqIs DEF WithPadding
  <2>2. E = [i \in 1 .. Len(P) |-> <<"stream", <<cipher, key>>, <<iv, i>>, P[i]>>]
    BY <1>2, <2>1 DEF Encrypted
  <2>3. E = [i \in 1 .. Len(P) |-> E[i]]
    BY <2>2
  <2>4. IsSeq(E) /\ Len(E) = Len(P)
    BY <2>1, <2>3, FunctionIsSeq
  <2> QED  BY <1>2, <2>1, <2>2, <2>4 DEF CipherCell
<1> QED  BY <1>1, <1>2

\* The first cells of what was encrypted, deciphered with its key.
LEMMA BeginningDeciphered ==
    ASSUME NEW cipher, NEW key, NEW iv, NEW plain, IsSeq(plain),
           NEW E, E = Encrypted(cipher, key, iv, plain), NEW P, P = WithPadding(cipher, plain),
           NEW cells, IsSeq(cells), Len(cells) <= Len(E), \A i \in 1 .. Len(cells) : cells[i] = E[i],
           NEW D, D = Deciphered(cipher, key, iv, cells)
    PROVE  /\ IsSeq(D) /\ Len(D) = Len(cells)
           /\ \A i \in 1 .. Len(cells) : D[i] = P[i]
<1>1. /\ IsSeq(E) /\ IsSeq(P) /\ Len(E) = Len(P)
      /\ \A i \in 1 .. Len(P) : E[i] = CipherCell(cipher, key, iv, P, E, i)
  BY EncryptedIs
<1>2. /\ Len(cells) \in Nat /\ DOMAIN cells = 1 .. Len(cells) /\ Len(E) \in Nat
  BY <1>1, SeqIs
<1>3. D = [i \in 1 .. Len(cells) |->
             IF Recovers(cipher, key, iv, cells, i) THEN cells[i][4] ELSE Garbage]
  BY <1>2 DEF Deciphered
<1>4. ASSUME NEW i \in 1 .. Len(cells) PROVE Recovers(cipher, key, iv, cells, i) /\ cells[i][4] = P[i]
  <2>1. i \in 1 .. Len(P)
    BY <1>1, <1>2
  <2>2. cells[i] = CipherCell(cipher, key, iv, P, E, i)
    BY <1>1, <2>1
  <2>3. i # 1 => cells[i - 1] = E[i - 1]
    BY <1>2
  <2>4. CASE Chains(cipher)
    <3>1. cells[i] = <<"cbc", <<cipher, key>>, IF i = 1 THEN iv ELSE E[i - 1], P[i]>>
      BY <2>2, <2>4 DEF CipherCell
    <3>2. Before(cipher, iv, cells, i) = IF i = 1 THEN iv ELSE E[i - 1]
      BY <2>3, <2>4 DEF Before
    <3> QED  BY <2>4, <3>1, <3>2 DEF Recovers
  <2>5. CASE ~ Chains(cipher)
    <3>1. cells[i] = <<"stream", <<cipher, key>>, <<iv, i>>, P[i]>>
      BY <2>2, <2>5 DEF CipherCell
    <3> QED  BY <2>5, <3>1 DEF Recovers, Before
  <2> QED  BY <2>4, <2>5
<1>5. D = [i \in 1 .. Len(cells) |-> D[i]]
  BY <1>3
<1>6. IsSeq(D) /\ Len(D) = Len(cells)
  BY <1>2, <1>5, FunctionIsSeq
<1> QED  BY <1>3, <1>4, <1>6

----------------------------------------------------------------------------
(* Streams of blocks.                                                      *)

BlockHead(i, key, cells) == <<"block", BlockMac(i, key, cells), Len(cells)>>

\* The block with the index i: after the last one there is an empty one.
BlockNo(blocks, i) == IF i < Len(blocks) THEN blocks[i + 1] ELSE <<>>

StreamCell(cell, blocks, key) ==
    \/ \E i \in 0 .. Len(blocks) : cell = BlockHead(i, key, BlockNo(blocks, i))
    \/ \E i \in 1 .. Len(blocks) : \E x \in 1 .. Len(blocks[i]) : cell = blocks[i][x]

\* A block of a stream is its head and then its cells.
LEMMA BlockIs ==
    ASSUME NEW i, NEW key, NEW cells, IsSeq(cells)
    PROVE  /\ IsSeq(Block(i, key, cells)) /\ Len(Block(i, key, cells)) = 1 + Len(cells)
           /\ Block(i, key, cells)[1] = BlockHead(i, key, cells)
           /\ \A x \in 2 .. 1 + Len(cells) : Block(i, key, cells)[x] = cells[x - 1]
<1> DEFINE h == <<BlockHead(i, key, cells)>>
<1>1. Block(i, key, cells) = Joined(h, cells)
  BY DEF Block, BlockHead, Joined
<1>2. IsSeq(h) /\ Len(h) = 1 /\ h[1] = BlockHead(i, key, cells)
  <2> HIDE DEF BlockHead
  <2> QED  BY TuplesAreSeqs
<1> HIDE DEF h
<1>3. Len(cells) \in Nat
  BY SeqIs
<1>4. /\ IsSeq(Joined(h, cells)) /\ Len(Joined(h, cells)) = Len(h) + Len(cells)
      /\ \A x \in 1 .. Len(h) : Joined(h, cells)[x] = h[x]
      /\ \A x \in Len(h) + 1 .. Len(h) + Len(cells) : Joined(h, cells)[x] = cells[x - Len(h)]
  BY <1>2, JoinedIs
<1> HIDE DEF BlockHead
<1>5. Joined(h, cells)[1] = BlockHead(i, key, cells)
  BY <1>2, <1>4
<1>6. ASSUME NEW x \in 2 .. 1 + Len(cells) PROVE Joined(h, cells)[x] = cells[x - 1]
  <2>1. x \in Len(h) + 1 .. Len(h) + Len(cells) /\ x - Len(h) = x - 1
    BY <1>2, <1>3
  <2>2. Joined(h, cells)[x] = cells[x - Len(h)]
    BY <1>4, <2>1
  <2> QED  BY <2>1, <2>2
<1> QED  BY <1>1, <1>2, <1>4, <1>5, <1>6

\* A stream is made a block at a time (write_hmac_block_stream).
LEMMA StreamGrows ==
    ASSUME NEW blocks, NEW key, IsSeq(blocks)
    PROVE  \E s : /\ DOMAIN s = 0 .. Len(blocks) /\ s[0] = <<>>
                  /\ \A i \in 1 .. Len(blocks) : s[i] = s[i - 1] \o Block(i - 1, key, blocks[i])
                  /\ Stream(blocks, key) = s[Len(blocks)] \o Block(Len(blocks), key, <<>>)
<1> DEFINE n == Len(blocks)
           at(f, i) == IF i = 0 THEN <<>> ELSE f[i - 1] \o Block(i - 1, key, blocks[i])
           S == {k \in Nat : \E f : f = [i \in 0 .. k |-> at(f, i)]}
<1>0. n \in Nat
  BY SeqIs
<1>1. 0 \in S
  <2>1. PICK f : f = [i \in 0 .. 0 |-> <<>>]
    OBVIOUS
  <2>2. f = [i \in 0 .. 0 |-> at(f, i)]
    BY <2>1
  <2> QED  BY <2>2
<1>2. ASSUME NEW k \in Nat, k \in S PROVE k + 1 \in S
  <2>1. PICK f : f = [i \in 0 .. k |-> at(f, i)]
    BY <1>2
  <2>2. PICK g : g = [i \in 0 .. k + 1 |-> IF i = k + 1 THEN at(f, i) ELSE f[i]]
    OBVIOUS
  <2>3. ASSUME NEW i \in 0 .. k + 1 PROVE g[i] = at(g, i)
    <3>1. i # 0 => g[i - 1] = f[i - 1]
      <4> HIDE DEF at
      <4> QED  BY <2>2
    <3>2. i # k + 1 => f[i] = at(f, i)
      <4>1. \A j \in 0 .. k : f[j] = at(f, j)
        <5> HIDE DEF at
        <5> QED  BY <2>1
      <4>2. i # k + 1 => i \in 0 .. k
        OBVIOUS
      <4> HIDE DEF at
      <4> QED  BY <4>1, <4>2
    <3>3. g[i] = at(f, i)
      <4> HIDE DEF at
      <4> QED  BY <2>2, <3>2
    <3> QED  BY <3>1, <3>3
  <2>4. g = [i \in 0 .. k + 1 |-> at(g, i)]
    <3> HIDE DEF at
    <3> QED  BY <2>2, <2>3
  <2>5. k + 1 \in Nat
    OBVIOUS
  <2> HIDE DEF at
  <2> QED  BY <2>4, <2>5, ZenonT(30)
<1>3. n \in S
  <2> HIDE DEF S
  <2> QED  BY <1>0, <1>1, <1>2, NumbersInduction
<1> DEFINE s == CHOOSE f : f = [i \in 0 .. n |-> at(f, i)]
<1>4. s = [i \in 0 .. n |-> at(s, i)]
  BY <1>3
<1>5. Stream(blocks, key) = s[n] \o Block(n, key, <<>>)
  BY DEF Stream
<1> HIDE DEF s, S
<1>6. \A i \in 0 .. n : s[i] = at(s, i)
  <2> HIDE DEF at
  <2> QED  BY <1>4
<1>7. s[0] = <<>> /\ \A i \in 1 .. n : s[i] = s[i - 1] \o Block(i - 1, key, blocks[i])
  <2>1. at(s, 0) = <<>> /\ \A i \in 1 .. n : at(s, i) = s[i - 1] \o Block(i - 1, key, blocks[i])
    <3>1. \A i \in 1 .. n : i # 0
      BY <1>0
    <3> QED  BY <3>1
  <2> HIDE DEF at
  <2>2. 0 \in 0 .. n /\ \A i \in 1 .. n : i \in 0 .. n
    BY <1>0
  <2> QED  BY <1>6, <2>1, <2>2
<1>8. DOMAIN s = 0 .. n
  <2> HIDE DEF at
  <2> QED  BY <1>4
<1> QED  BY <1>5, <1>7, <1>8

\* The stream up to the block with the index k
LaidTo(s, blocks, key, k) ==
    /\ IsSeq(s[k])
    /\ \A j \in 0 .. k - 1 :
         /\ Len(s[j]) \in Nat
         /\ Len(s[j + 1]) = Len(s[j]) + 1 + Len(blocks[j + 1])
         /\ Len(s[j + 1]) <= Len(s[k])
         /\ s[k][Len(s[j]) + 1] = BlockHead(j, key, blocks[j + 1])
         /\ \A i \in Len(s[j]) + 2 .. Len(s[j + 1]) : s[k][i] = blocks[j + 1][i - Len(s[j]) - 1]
    /\ \A p \in 1 .. Len(s[k]) : StreamCell(s[k][p], blocks, key)

\* Where the blocks of a stream are, after one more of them.
LEMMA LaidOneMore ==
    ASSUME NEW blocks, NEW key, IsSeq(blocks),
           \A i \in 1 .. Len(blocks) : IsSeq(blocks[i]),
           NEW s, NEW k \in 0 .. Len(blocks) - 1, LaidTo(s, blocks, key, k),
           s[k + 1] = s[k] \o Block(k, key, blocks[k + 1])
    PROVE  LaidTo(s, blocks, key, k + 1)
<1> DEFINE b == blocks[k + 1]
           B == Block(k, key, b)
           l == Len(s[k])
           m == Len(b)
<1>0. Len(blocks) \in Nat
  BY SeqIs
<1>1. IsSeq(b) /\ m \in Nat
  <2>1. k + 1 \in 1 .. Len(blocks)
    BY <1>0
  <2> QED  BY <2>1, SeqIs
<1>2. /\ IsSeq(B) /\ Len(B) = 1 + m /\ B[1] = BlockHead(k, key, b)
      /\ \A x \in 2 .. 1 + m : B[x] = b[x - 1]
  <2> HIDE DEF b
  <2> QED  BY <1>1, BlockIs
<1>3. IsSeq(s[k]) /\ l \in Nat
  BY SeqIs DEF LaidTo
<1> HIDE DEF B
<1> DEFINE t == s[k + 1]
<1>4. /\ IsSeq(t) /\ Len(t) = l + Len(B)
      /\ \A i \in 1 .. l : t[i] = s[k][i]
      /\ \A i \in l + 1 .. l + Len(B) : t[i] = B[i - l]
  <2>1. t = Joined(s[k], B)
    BY DEF B, b, t, Joined
  <2> DEFINE q == s[k]
  <2>2. IsSeq(q) /\ l = Len(q) /\ t = Joined(q, B)
    BY <1>3, <2>1
  <2> HIDE DEF q, t, l
  <2>3. /\ IsSeq(t) /\ Len(t) = l + Len(B)
        /\ \A i \in 1 .. l : t[i] = q[i]
        /\ \A i \in l + 1 .. l + Len(B) : t[i] = B[i - l]
    <3>1. IsSeq(B)
      BY <1>2
    <3>2. /\ IsSeq(Joined(q, B)) /\ Len(Joined(q, B)) = Len(q) + Len(B)
          /\ \A i \in 1 .. Len(q) : Joined(q, B)[i] = q[i]
          /\ \A i \in Len(q) + 1 .. Len(q) + Len(B) : Joined(q, B)[i] = B[i - Len(q)]
      BY <2>2, <3>1, JoinedIs
    <3> QED  BY <2>2, <3>2
  <2> QED  BY <2>3 DEF q
<1> HIDE DEF t, b, l, m
<1>5. /\ IsSeq(t) /\ Len(t) = l + 1 + m
      /\ \A i \in 1 .. l : t[i] = s[k][i]
      /\ t[l + 1] = BlockHead(k, key, b)
      /\ \A i \in l + 2 .. l + 1 + m : t[i] = b[i - l - 1]
  <2>2. Len(t) = l + 1 + m
    BY <1>1, <1>2, <1>3, <1>4
  <2>3. t[l + 1] = BlockHead(k, key, b)
    <3>1. l + 1 \in l + 1 .. l + Len(B) /\ (l + 1) - l = 1
      BY <1>1, <1>2, <1>3
    <3> QED  BY <1>2, <1>4, <3>1
  <2>4. ASSUME NEW i \in l + 2 .. l + 1 + m PROVE t[i] = b[i - l - 1]
    <3>1. i \in l + 1 .. l + Len(B) /\ i - l \in 2 .. 1 + m
      BY <1>1, <1>2, <1>3
    <3>2. t[i] = B[i - l] /\ B[i - l] = b[(i - l) - 1]
      BY <1>2, <1>4, <3>1
    <3> QED  BY <3>2
  <2> QED  BY <1>4, <2>2, <2>3, <2>4
<1>6. ASSUME NEW j \in 0 .. k
      PROVE  /\ Len(s[j]) \in Nat
             /\ Len(s[j + 1]) = Len(s[j]) + 1 + Len(blocks[j + 1])
             /\ Len(s[j + 1]) <= Len(t)
             /\ t[Len(s[j]) + 1] = BlockHead(j, key, blocks[j + 1])
             /\ \A i \in Len(s[j]) + 2 .. Len(s[j + 1]) : t[i] = blocks[j + 1][i - Len(s[j]) - 1]
  <2> DEFINE a == Len(s[j])
             z == Len(s[j + 1])
             c == blocks[j + 1]
             d == Len(c)
  <2>1. CASE j = k
    <3>1. a = l /\ z = Len(t) /\ c = b /\ d = m
      BY <2>1 DEF b, l, m, t
    <3> HIDE DEF a, z, c, d
    <3>2. /\ a \in Nat /\ z = a + 1 + d /\ z <= Len(t)
          /\ t[a + 1] = BlockHead(j, key, c)
          /\ \A i \in a + 2 .. z : t[i] = c[i - a - 1]
      BY <1>1, <1>3, <1>5, <2>1, <3>1
    <3> QED  BY <3>2 DEF a, z, c, d
  <2>2. CASE j # k
    <3>1. j \in 0 .. k - 1
      BY <2>2
    <3>2. /\ a \in Nat /\ z = a + 1 + d /\ z <= l
          /\ s[k][a + 1] = BlockHead(j, key, c)
          /\ \A i \in a + 2 .. z : s[k][i] = c[i - a - 1]
      BY <3>1 DEF LaidTo, l
    <3>3. d \in Nat
      <4>1. j + 1 \in 1 .. Len(blocks)
        BY <1>0, <3>1
      <4> QED  BY <4>1, SeqIs
    <3> HIDE DEF a, z, c, d
    <3>4. a + 1 \in 1 .. l
      BY <1>3, <3>2, <3>3
    <3>5. \A i \in a + 2 .. z : i \in 1 .. l
      BY <1>3, <3>2, <3>3
    <3>6. z <= Len(t)
      BY <1>1, <1>3, <1>5, <3>2, <3>3
    <3>7. t[a + 1] = BlockHead(j, key, c) /\ \A i \in a + 2 .. z : t[i] = c[i - a - 1]
      BY <1>5, <3>2, <3>4, <3>5
    <3> QED  BY <3>2, <3>6, <3>7 DEF a, z, c, d
  <2> QED  BY <2>1, <2>2
<1>7. ASSUME NEW p \in 1 .. Len(t) PROVE StreamCell(t[p], blocks, key)
  <2>1. CASE p <= l
    <3>1. p \in 1 .. l /\ t[p] = s[k][p]
      BY <1>3, <1>5, <2>1
    <3> QED  BY <3>1 DEF LaidTo, l
  <2>2. CASE p = l + 1
    <3>1. t[p] = BlockHead(k, key, BlockNo(blocks, k)) /\ k \in 0 .. Len(blocks)
      BY <1>0, <1>5, <2>2 DEF BlockNo, b
    <3> QED  BY <3>1 DEF StreamCell
  <2>3. CASE p > l + 1
    <3>1. PICK x \in 1 .. m : p = l + 1 + x
      <4>1. p - l - 1 \in 1 .. m /\ p = l + 1 + (p - l - 1)
        BY <1>1, <1>3, <1>5, <2>3
      <4> QED  BY <4>1
    <3>2. t[p] = b[x] /\ k + 1 \in 1 .. Len(blocks)
      <4>1. p \in l + 2 .. l + 1 + m /\ p - l - 1 = x
        BY <1>1, <1>3, <3>1
      <4> QED  BY <1>0, <1>5, <4>1
    <3> QED  BY <3>1, <3>2 DEF StreamCell, b, m
  <2> QED  BY <1>1, <1>3, <1>5, <2>1, <2>2, <2>3
<1>8. \A j \in 0 .. (k + 1) - 1 : j \in 0 .. k
  OBVIOUS
<1> QED  BY <1>5, <1>6, <1>7, <1>8 DEF LaidTo, t

----------------------------------------------------------------------------
(* Keys: the elements of a key tell its parts.                             *)

\* The range of a sequence is the set of its cells.
LEMMA RangeIs ==
    ASSUME NEW q, IsSeq(q)
    PROVE  Range(q) = {q[i] : i \in 1 .. Len(q)}
BY SeqIs DEF Range

\* What is in a concatenation is in one of the two.
LEMMA JoinedRange ==
    ASSUME NEW q, NEW r, IsSeq(q), IsSeq(r)
    PROVE  \A x : x \in Range(Joined(q, r)) <=> x \in Range(q) \/ x \in Range(r)
<1> DEFINE t == Joined(q, r)
<1>1. /\ IsSeq(t) /\ Len(t) = Len(q) + Len(r)
      /\ \A i \in 1 .. Len(q) : t[i] = q[i]
      /\ \A i \in Len(q) + 1 .. Len(q) + Len(r) : t[i] = r[i - Len(q)]
  BY JoinedIs
<1>2. Len(q) \in Nat /\ Len(r) \in Nat
  BY SeqIs
<1>3. /\ Range(t) = {t[i] : i \in 1 .. Len(t)}
      /\ Range(q) = {q[i] : i \in 1 .. Len(q)} /\ Range(r) = {r[i] : i \in 1 .. Len(r)}
  BY <1>1, RangeIs
<1> HIDE DEF t
<1>4. ASSUME NEW x, x \in Range(t) PROVE x \in Range(q) \/ x \in Range(r)
  <2>1. PICK i \in 1 .. Len(t) : x = t[i]
    BY <1>3, <1>4
  <2>2. CASE i <= Len(q)
    BY <1>1, <1>2, <1>3, <2>1, <2>2
  <2>3. CASE i > Len(q)
    <3>1. i \in Len(q) + 1 .. Len(q) + Len(r) /\ i - Len(q) \in 1 .. Len(r)
      BY <1>1, <1>2, <2>3
    <3> QED  BY <1>1, <1>3, <2>1, <3>1
  <2> QED  BY <1>2, <2>2, <2>3
<1>5. ASSUME NEW x, x \in Range(q) PROVE x \in Range(t)
  <2>1. PICK i \in 1 .. Len(q) : x = q[i]
    BY <1>3, <1>5
  <2>2. i \in 1 .. Len(t) /\ t[i] = q[i]
    BY <1>1, <1>2
  <2> QED  BY <1>3, <2>1, <2>2
<1>6. ASSUME NEW x, x \in Range(r) PROVE x \in Range(t)
  <2>1. PICK i \in 1 .. Len(r) : x = r[i]
    BY <1>3, <1>6
  <2> DEFINE j == Len(q) + i
  <2>2. j \in Len(q) + 1 .. Len(q) + Len(r) /\ j - Len(q) = i /\ j \in 1 .. Len(t)
    BY <1>1, <1>2
  <2> HIDE DEF j
  <2>3. t[j] = r[i]
    <3>1. t[j] = r[j - Len(q)]
      BY <1>1, <2>2
    <3> QED  BY <2>2, <3>1
  <2> QED  BY <1>3, <2>1, <2>2, <2>3
<1> QED  BY <1>4, <1>5, <1>6 DEF t

\* The three kinds of elements are never the same.
IsPasswordElement(e) == \E p : p[1] # "hmac sha1" /\ e = Sha256(<<<<p>>>>)
IsKeyfileElement(e) == \E f : f = <<f[1], f[2]>> /\ e = KeyfileElement(f)
IsResponseElement(e) == \E x, y : e = Sha256(<<<<HmacSha1(x, y)>>>>)

\* No element of a key is of two kinds: a password, a keyfile and a response
\* cannot stand for each other (get_key_elements).
LEMMA ElementKinds ==
    ASSUME NEW e
    PROVE  /\ ~ (IsPasswordElement(e) /\ IsKeyfileElement(e))
           /\ ~ (IsPasswordElement(e) /\ IsResponseElement(e))
           /\ ~ (IsKeyfileElement(e) /\ IsResponseElement(e))
<1>1. ASSUME NEW p, NEW f, f = <<f[1], f[2]>>, Sha256(<<<<p>>>>) = KeyfileElement(f)
      PROVE  FALSE
  <2>1. /\ KeyfileElement(f) # <<"bytes", f[2]>> /\ KeyfileElement(f) # <<"text", f[2]>>
        /\ KeyfileElement(f) # <<"odd", f[2]>>
    BY <1>1 DEF Sha256
  <2>2. Sha256(<<<<p>>>>) = Sha256(<<f>>)
    BY <1>1, <2>1 DEF KeyfileElement
  <2>3. <<p>> = <<f[1], f[2]>>
    BY <1>1, <2>2 DEF Sha256
  <2> QED  BY <2>3
<1>2. ASSUME NEW p, NEW x, NEW y, p[1] # "hmac sha1",
             Sha256(<<<<p>>>>) = Sha256(<<<<HmacSha1(x, y)>>>>)
      PROVE  FALSE
  <2>1. p = HmacSha1(x, y)
    BY <1>2 DEF Sha256
  <2> QED  BY <1>2, <2>1 DEF HmacSha1
<1> QED  BY <1>1, <1>2 DEF IsPasswordElement, IsKeyfileElement, IsResponseElement

\* What a key with a response, or without challenge, contributes of each kind
PasswordElements(k) == IF k.password = Missing THEN {} ELSE {Sha256(<<k.password>>)}
KeyfileElements(k) == IF k.keyfile = Missing THEN {} ELSE {KeyfileElement(k.keyfile[1])}
ResponseElements(k) == IF k.response = Missing THEN {} ELSE {Sha256(<<k.response>>)}

\* The elements of a key are those of its parts, one for each part.
LEMMA ElementsAre ==
    ASSUME NEW k
    PROVE  /\ IsSeq(KeyElements(k))
           /\ \A e : e \in Range(KeyElements(k)) <=>
                \/ e \in PasswordElements(k) \/ e \in KeyfileElements(k) \/ e \in ResponseElements(k)
           /\ Len(KeyElements(k)) = (IF k.password = Missing THEN 0 ELSE 1)
                + (IF k.keyfile = Missing THEN 0 ELSE 1) + (IF k.response = Missing THEN 0 ELSE 1)
<1> DEFINE p == IF k.password = Missing THEN <<>> ELSE <<Sha256(<<k.password>>)>>
           f == IF k.keyfile = Missing THEN <<>> ELSE <<KeyfileElement(k.keyfile[1])>>
           r == IF k.response = Missing THEN <<>> ELSE <<Sha256(<<k.response>>)>>
<1>1. KeyElements(k) = Joined(Joined(p, f), r)
  BY DEF KeyElements, Joined
<1>2. ASSUME NEW e PROVE IsSeq(<<e>>) /\ Len(<<e>>) = 1 /\ Range(<<e>>) = {e}
  <2>1. IsSeq(<<e>>) /\ Len(<<e>>) = 1 /\ <<e>>[1] = e
    BY TuplesAreSeqs
  <2>2. Range(<<e>>) = {<<e>>[i] : i \in 1 .. 1}
    BY <2>1, RangeIs
  <2> QED  BY <2>1, <2>2
<1>3. IsSeq(<<>>) /\ Len(<<>>) = 0 /\ Range(<<>>) = {}
  <2>1. IsSeq(<<>>) /\ Len(<<>>) = 0
    BY TuplesAreSeqs
  <2> QED  BY <2>1, RangeIs
<1>4. IsSeq(p) /\ Range(p) = PasswordElements(k) /\ Len(p) = IF k.password = Missing THEN 0 ELSE 1
  BY <1>2, <1>3 DEF PasswordElements
<1>5. IsSeq(f) /\ Range(f) = KeyfileElements(k) /\ Len(f) = IF k.keyfile = Missing THEN 0 ELSE 1
  BY <1>2, <1>3 DEF KeyfileElements
<1>6. IsSeq(r) /\ Range(r) = ResponseElements(k) /\ Len(r) = IF k.response = Missing THEN 0 ELSE 1
  BY <1>2, <1>3 DEF ResponseElements
<1> HIDE DEF p, f, r
<1>7. /\ IsSeq(Joined(p, f)) /\ Len(Joined(p, f)) = Len(p) + Len(f)
      /\ IsSeq(Joined(Joined(p, f), r))
      /\ Len(Joined(Joined(p, f), r)) = Len(p) + Len(f) + Len(r)
  <2>1. IsSeq(Joined(p, f)) /\ Len(Joined(p, f)) = Len(p) + Len(f)
    BY <1>4, <1>5, JoinedIs
  <2> DEFINE q == Joined(p, f)
  <2> HIDE DEF q
  <2>2. IsSeq(q) => IsSeq(Joined(q, r)) /\ Len(Joined(q, r)) = Len(q) + Len(r)
    BY <1>6, JoinedIs
  <2> QED  BY <2>1, <2>2 DEF q
<1>8. \A e : e \in Range(Joined(Joined(p, f), r)) <=>
             \/ e \in PasswordElements(k) \/ e \in KeyfileElements(k) \/ e \in ResponseElements(k)
  BY <1>4, <1>5, <1>6, <1>7, JoinedRange
<1> QED  BY <1>1, <1>4, <1>5, <1>6, <1>7, <1>8

\* Performing the challenge of a key sets its response and nothing else.
LEMMA ChallengedIs ==
    ASSUME NEW k, IsKey(k), NEW seed, NEW c, c = Challenged(k, seed)
    PROVE  /\ c.password = k.password /\ c.keyfile = k.keyfile /\ c.challenge = k.challenge
           /\ k.challenge = Missing => c.response = Missing /\ c = k
           /\ k.challenge # Missing =>
                /\ k.challenge = <<k.challenge[1]>> /\ c.response # Missing
                /\ c.response = <<HmacSha1(SecretOf(k.challenge[1]), seed)>>
<1>1. k = [password |-> k.password, keyfile |-> k.keyfile, challenge |-> k.challenge,
           response |-> Missing]
  BY DEF IsKey
<1>2. k.response = Missing
  BY <1>1
<1>3. CASE k.challenge = Missing
  BY <1>2, <1>3 DEF Challenged
<1>4. CASE k.challenge # Missing
  <2> DEFINE r == Some(HmacSha1(SecretOf(k.challenge[1]), seed))
  <2>1. c = [k EXCEPT !.response = r]
    BY <1>4 DEF Challenged
  <2>2. r # Missing
    BY DEF Some, Missing
  <2> HIDE DEF r
  <2>3. /\ c.password = k.password /\ c.keyfile = k.keyfile /\ c.challenge = k.challenge
        /\ c.response = r
    BY <1>1, <2>1
  <2> QED  BY <1>4, <2>2, <2>3 DEF r, Some, IsKey, AtMostOne
<1> QED  BY <1>3, <1>4

\* The elements of a key that answered the challenge are of those kinds.
LEMMA ElementsOfKinds ==
    ASSUME NEW k, IsKey(k), NEW seed, NEW c, c = Challenged(k, seed)
    PROVE  /\ \A e \in PasswordElements(c) : IsPasswordElement(e)
           /\ \A e \in KeyfileElements(c) : IsKeyfileElement(e)
           /\ \A e \in ResponseElements(c) : IsResponseElement(e)
<1>1. /\ c.password = k.password /\ c.keyfile = k.keyfile
      /\ k.challenge = Missing => c.response = Missing
      /\ k.challenge # Missing => c.response = <<HmacSha1(SecretOf(k.challenge[1]), seed)>>
  BY ChallengedIs
<1>2. ASSUME NEW e \in PasswordElements(c) PROVE IsPasswordElement(e)
  <2>1. k.password # Missing /\ e = Sha256(<<k.password>>)
    BY <1>1 DEF PasswordElements
  <2>2. k.password = <<k.password[1]>> /\ k.password[1][1] # "hmac sha1"
    BY <2>1 DEF IsKey, AtMostOne, Some
  <2> QED  BY <2>1, <2>2 DEF IsPasswordElement
<1>3. ASSUME NEW e \in KeyfileElements(c) PROVE IsKeyfileElement(e)
  BY <1>1 DEF KeyfileElements, IsKeyfileElement, IsKey
<1>4. ASSUME NEW e \in ResponseElements(c) PROVE IsResponseElement(e)
  <2>1. e = Sha256(<<<<HmacSha1(SecretOf(k.challenge[1]), seed)>>>>)
    BY <1>1 DEF ResponseElements
  <2> QED  BY <2>1 DEF IsResponseElement
<1> QED  BY <1>2, <1>3, <1>4

\* Who has the same elements has the same parts.
LEMMA PartsFromElements ==
    ASSUME NEW k, IsKey(k), NEW seed1, NEW l, IsKey(l), NEW seed2,
           KeyElements(Challenged(k, seed1)) = KeyElements(Challenged(l, seed2))
    PROVE  SameParts(k, l)
<1> DEFINE c == Challenged(k, seed1)
           d == Challenged(l, seed2)
<1>1. /\ c.password = k.password /\ c.keyfile = k.keyfile /\ c.challenge = k.challenge
      /\ k.challenge = Missing => c.response = Missing
      /\ k.challenge # Missing =>
           /\ k.challenge = <<k.challenge[1]>> /\ c.response # Missing
           /\ c.response = <<HmacSha1(SecretOf(k.challenge[1]), seed1)>>
  BY ChallengedIs
<1>2. /\ d.password = l.password /\ d.keyfile = l.keyfile /\ d.challenge = l.challenge
      /\ l.challenge = Missing => d.response = Missing
      /\ l.challenge # Missing =>
           /\ l.challenge = <<l.challenge[1]>> /\ d.response # Missing
           /\ d.response = <<HmacSha1(SecretOf(l.challenge[1]), seed2)>>
  BY ChallengedIs
<1>3. /\ \A e \in PasswordElements(c) : IsPasswordElement(e)
      /\ \A e \in KeyfileElements(c) : IsKeyfileElement(e)
      /\ \A e \in ResponseElements(c) : IsResponseElement(e)
  BY ElementsOfKinds
<1>4. /\ \A e \in PasswordElements(d) : IsPasswordElement(e)
      /\ \A e \in KeyfileElements(d) : IsKeyfileElement(e)
      /\ \A e \in ResponseElements(d) : IsResponseElement(e)
  BY ElementsOfKinds
<1>5. \A e : (e \in PasswordElements(c) \/ e \in KeyfileElements(c) \/ e \in ResponseElements(c))
             <=> (e \in PasswordElements(d) \/ e \in KeyfileElements(d) \/ e \in ResponseElements(d))
  BY ElementsAre
<1> HIDE DEF c, d
<1>6. /\ \A e : e \in PasswordElements(c) <=> e \in PasswordElements(d)
      /\ \A e : e \in KeyfileElements(c) <=> e \in KeyfileElements(d)
      /\ \A e : e \in ResponseElements(c) <=> e \in ResponseElements(d)
  BY <1>3, <1>4, <1>5, ElementKinds
<1>7. k.password = l.password
  <2>1. \A x : Sha256(<<x>>) \in PasswordElements(c) => k.password # Missing /\ x = k.password
    BY <1>1 DEF PasswordElements, Sha256
  <2>2. \A x : Sha256(<<x>>) \in PasswordElements(d) => l.password # Missing /\ x = l.password
    BY <1>2 DEF PasswordElements, Sha256
  <2>3. k.password # Missing => Sha256(<<k.password>>) \in PasswordElements(c)
    BY <1>1 DEF PasswordElements
  <2>4. l.password # Missing => Sha256(<<l.password>>) \in PasswordElements(d)
    BY <1>2 DEF PasswordElements
  <2> QED  BY <1>6, <2>1, <2>2, <2>3, <2>4
<1>8. {KeyfileElement(f) : f \in Range(k.keyfile)} = {KeyfileElement(f) : f \in Range(l.keyfile)}
  <2>1. \A x : AtMostOne(x) => Range(x) = IF x = Missing THEN {} ELSE {x[1]}
    <3>1. ASSUME NEW x, x = <<x[1]>> PROVE Range(x) = {x[1]}
      BY <3>1 DEF Range
    <3>2. Range(Missing) = {}
      BY DEF Range, Missing
    <3> QED  BY <3>1, <3>2 DEF AtMostOne, Some
  <2>2. {KeyfileElement(f) : f \in Range(k.keyfile)} = KeyfileElements(c)
    <3>1. Range(k.keyfile) = IF k.keyfile = Missing THEN {} ELSE {k.keyfile[1]}
      BY <2>1 DEF IsKey
    <3>2. CASE k.keyfile = Missing
      BY <1>1, <3>1, <3>2 DEF KeyfileElements
    <3>3. CASE k.keyfile # Missing
      <4>1. Range(k.keyfile) = {k.keyfile[1]}
        BY <3>1, <3>3
      <4> QED  BY <1>1, <3>3, <4>1 DEF KeyfileElements
    <3> QED  BY <3>2, <3>3
  <2>3. {KeyfileElement(f) : f \in Range(l.keyfile)} = KeyfileElements(d)
    <3>1. Range(l.keyfile) = IF l.keyfile = Missing THEN {} ELSE {l.keyfile[1]}
      BY <2>1 DEF IsKey
    <3>2. CASE l.keyfile = Missing
      BY <1>2, <3>1, <3>2 DEF KeyfileElements
    <3>3. CASE l.keyfile # Missing
      <4>1. Range(l.keyfile) = {l.keyfile[1]}
        BY <3>1, <3>3
      <4> QED  BY <1>2, <3>3, <4>1 DEF KeyfileElements
    <3> QED  BY <3>2, <3>3
  <2> QED  BY <1>6, <2>2, <2>3
<1>9. {SecretOf(x) : x \in Range(k.challenge)} = {SecretOf(x) : x \in Range(l.challenge)}
  <2>1. \A x : x = <<x[1]>> => Range(x) = {x[1]}
    BY DEF Range
  <2>2. Range(Missing) = {}
    BY DEF Range, Missing
  <2>3. k.challenge = Missing <=> l.challenge = Missing
    <3>1. k.challenge = Missing <=> ResponseElements(c) = {}
      BY <1>1 DEF ResponseElements
    <3>2. l.challenge = Missing <=> ResponseElements(d) = {}
      BY <1>2 DEF ResponseElements
    <3> QED  BY <1>6, <3>1, <3>2
  <2>4. CASE k.challenge # Missing
    <3>1. Sha256(<<c.response>>) = Sha256(<<d.response>>)
      BY <1>1, <1>2, <1>6, <2>3, <2>4 DEF ResponseElements
    <3>2. HmacSha1(SecretOf(k.challenge[1]), seed1) = HmacSha1(SecretOf(l.challenge[1]), seed2)
      BY <1>1, <1>2, <2>3, <2>4, <3>1 DEF Sha256
    <3>3. SecretOf(k.challenge[1]) = SecretOf(l.challenge[1])
      BY <3>2 DEF HmacSha1
    <3>4. Range(k.challenge) = {k.challenge[1]} /\ Range(l.challenge) = {l.challenge[1]}
      BY <1>1, <1>2, <2>1, <2>3, <2>4
    <3> QED  BY <3>3, <3>4
  <2> QED  BY <2>2, <2>3, <2>4
<1> QED  BY <1>7, <1>8, <1>9 DEF SameParts

\* A key without challenge has one or two elements; a hash of two is no element.
LEMMA KdbCompositeTells ==
    ASSUME NEW k, IsKey(k), KeyError(k) = "none", NEW l, IsKey(l), KeyError(l) = "none",
           KdbComposite(k) = KdbComposite(l)
    PROVE  SameParts(k, l)
<1> DEFINE E == KeyElements(k)
           F == KeyElements(l)
<1>1. /\ k.challenge = Missing /\ l.challenge = Missing
      /\ k.response = Missing /\ l.response = Missing
      /\ (k.password # Missing \/ k.keyfile # Missing)
      /\ (l.password # Missing \/ l.keyfile # Missing)
  <2>1. ASSUME NEW x, IsKey(x), KeyError(x) = "none"
        PROVE  x.challenge = Missing /\ x.response = Missing /\ (x.password # Missing \/ x.keyfile # Missing)
    <3>1. x = [password |-> x.password, keyfile |-> x.keyfile, challenge |-> x.challenge,
               response |-> Missing]
      BY <2>1 DEF IsKey
    <3>2. x.response = Missing
      BY <3>1
    <3> QED  BY <2>1, <3>2 DEF KeyError
  <2> QED  BY <2>1
<1>2. ASSUME NEW x, IsKey(x), x.challenge = Missing, x.response = Missing,
             x.password # Missing \/ x.keyfile # Missing
      PROVE  /\ IsSeq(KeyElements(x)) /\ Len(KeyElements(x)) \in {1, 2}
             /\ \A i \in 1 .. Len(KeyElements(x)) :
                  \A q : IsSeq(q) /\ KeyElements(x)[i] = Sha256(q) => Len(q) = 1
             /\ Challenged(x, 0) = x
  <2>1. IsSeq(KeyElements(x)) /\ Len(KeyElements(x)) \in {1, 2}
    <3> DEFINE q == KeyElements(x)
    <3>1. /\ IsSeq(q)
          /\ Len(q) = (IF x.password = Missing THEN 0 ELSE 1)
                + (IF x.keyfile = Missing THEN 0 ELSE 1) + (IF x.response = Missing THEN 0 ELSE 1)
      BY ElementsAre
    <3> HIDE DEF q
    <3> QED  BY <1>2, <3>1 DEF q
  <2>2. Challenged(x, 0) = x
    BY <1>2 DEF Challenged
  <2>3. ASSUME NEW e \in Range(KeyElements(x)), NEW q, e = Sha256(q), IsSeq(q) PROVE Len(q) = 1
    <3>1. IsPasswordElement(e) \/ IsKeyfileElement(e) \/ IsResponseElement(e)
      BY <1>2, <2>2, ElementsAre, ElementsOfKinds
    <3>2. \E y : q = <<y>>
      <4>1. CASE IsPasswordElement(e)
        BY <2>3, <4>1 DEF IsPasswordElement, Sha256
      <4>2. CASE IsResponseElement(e)
        BY <2>3, <4>2 DEF IsResponseElement, Sha256
      <4>3. CASE IsKeyfileElement(e)
        <5>1. PICK f : e = KeyfileElement(f)
          BY <4>3 DEF IsKeyfileElement
        <5>2. e # <<"bytes", f[2]>> /\ e # <<"text", f[2]>> /\ e # <<"odd", f[2]>>
          BY <2>3 DEF Sha256
        <5>3. e = Sha256(<<f>>)
          BY <5>1, <5>2 DEF KeyfileElement
        <5> QED  BY <2>3, <5>3 DEF Sha256
      <4> QED  BY <3>1, <4>1, <4>2, <4>3
    <3> QED  BY <3>2, TuplesAreSeqs
  <2>4. \A i \in 1 .. Len(KeyElements(x)) : KeyElements(x)[i] \in Range(KeyElements(x))
    BY <2>1, RangeIs
  <2> QED  BY <2>1, <2>2, <2>3, <2>4
<1>3. /\ IsSeq(E) /\ Len(E) \in {1, 2} /\ IsSeq(F) /\ Len(F) \in {1, 2}
      /\ \A q : IsSeq(q) /\ E[1] = Sha256(q) => Len(q) = 1
      /\ \A q : IsSeq(q) /\ F[1] = Sha256(q) => Len(q) = 1
      /\ Challenged(k, 0) = k /\ Challenged(l, 0) = l
  <2>1. 1 \in 1 .. 1 /\ 1 \in 1 .. 2
    OBVIOUS
  <2> QED  BY <1>1, <1>2, <2>1
<1>4. KdbComposite(k) = (IF Len(E) = 1 THEN E[1] ELSE Sha256(E))
  BY DEF KdbComposite, CompositeKey
<1>5. KdbComposite(l) = (IF Len(F) = 1 THEN F[1] ELSE Sha256(F))
  BY DEF KdbComposite, CompositeKey
<1>6. E = F
  <2> HIDE DEF E, F
  <2>1. CASE Len(E) = 1 /\ Len(F) = 1
    <3>1. E[1] = F[1]
      BY <1>4, <1>5, <2>1
    <3>2. \A i \in 1 .. Len(E) : E[i] = F[i]
      BY <2>1, <3>1
    <3> QED  BY <1>3, <2>1, <3>2, SeqsEqual
  <2>2. CASE Len(E) = 2 /\ Len(F) = 2
    <3>1. Sha256(E) = Sha256(F)
      <4>1. Len(E) # 1 /\ Len(F) # 1
        BY <2>2
      <4>2. KdbComposite(k) = Sha256(E) /\ KdbComposite(l) = Sha256(F)
        BY <1>4, <1>5, <4>1
      <4> QED  BY <4>2
    <3> QED  BY <3>1 DEF Sha256
  <2>3. CASE Len(E) # Len(F)
    BY <1>3, <1>4, <1>5, <2>3
  <2> QED  BY <1>3, <2>1, <2>2, <2>3
<1> QED  BY <1>3, <1>6, PartsFromElements

----------------------------------------------------------------------------
(* The blocks of a file and what they hold.                                *)

\* A part of a sequence over a set is one too.
LEMMA PartIn ==
    ASSUME NEW S, NEW q \in Seq(S), NEW m \in Nat \ {0}, NEW n \in Int, n <= Len(q)
    PROVE  SubSeq(q, m, n) \in Seq(S)
<1>1. SubSeq(q, m, n) = [i \in 1 .. n - m + 1 |-> q[m + i - 1]]
  OBVIOUS
<1>2. \A i \in 1 .. n - m + 1 : q[m + i - 1] \in S
  OBVIOUS
<1>3. CASE m <= n
  <2>1. n - m + 1 \in Nat
    BY <1>3
  <2> QED  BY <1>1, <1>2, <2>1
<1>4. CASE ~ (m <= n)
  <2>1. SubSeq(q, m, n) = <<>>
    BY <1>1, <1>4
  <2> QED  BY <2>1
<1> QED  BY <1>3, <1>4

\* What FlattenSeq says of itself is so.
LEMMA FlattenIs ==
    ASSUME NEW q, IsSeq(q)
    PROVE  /\ Len(q) = 0 => FlattenSeq(q) = q
           /\ Len(q) # 0 => \E f : /\ f[1] = q[1] /\ FlattenSeq(q) = f[Len(q)]
                                   /\ \A i \in 2 .. Len(q) : f[i] = f[i - 1] \o q[i]
<1> DEFINE n == Len(q)
           at(f, i) == IF i = 1 THEN q[i] ELSE f[i - 1] \o q[i]
           S == {k \in Nat : \E f : f = [i \in 1 .. k |-> at(f, i)]}
<1>0. n \in Nat
  BY SeqIs
<1>1. 0 \in S
  <2>1. PICK f : f = [i \in 1 .. 0 |-> i]
    OBVIOUS
  <2>2. f = [i \in 1 .. 0 |-> at(f, i)]
    BY <2>1
  <2> QED  BY <2>2
<1>2. ASSUME NEW k \in Nat, k \in S PROVE k + 1 \in S
  <2>1. PICK f : f = [i \in 1 .. k |-> at(f, i)]
    BY <1>2
  <2>2. PICK g : g = [i \in 1 .. k + 1 |-> IF i = k + 1 THEN at(f, i) ELSE f[i]]
    OBVIOUS
  <2>3. ASSUME NEW i \in 1 .. k + 1 PROVE g[i] = at(g, i)
    <3>1. i # 1 => g[i - 1] = f[i - 1]
      <4> HIDE DEF at
      <4> QED  BY <2>2
    <3>2. i # k + 1 => f[i] = at(f, i)
      <4>1. \A j \in 1 .. k : f[j] = at(f, j)
        <5> HIDE DEF at
        <5> QED  BY <2>1
      <4>2. i # k + 1 => i \in 1 .. k
        OBVIOUS
      <4> HIDE DEF at
      <4> QED  BY <4>1, <4>2
    <3>3. g[i] = at(f, i)
      <4> HIDE DEF at
      <4> QED  BY <2>2, <3>2
    <3> QED  BY <3>1, <3>3
  <2>4. g = [i \in 1 .. k + 1 |-> at(g, i)]
    <3> HIDE DEF at
    <3> QED  BY <2>2, <2>3
  <2>5. k + 1 \in Nat
    OBVIOUS
  <2> HIDE DEF at
  <2> QED  BY <2>4, <2>5, ZenonT(30)
<1>3. n \in S
  <2> HIDE DEF S
  <2> QED  BY <1>0, <1>1, <1>2, NumbersInduction
<1> DEFINE s == CHOOSE f : f = [i \in 1 .. n |-> at(f, i)]
<1>4. s = [i \in 1 .. n |-> at(s, i)]
  BY <1>3
<1>5. FlattenSeq(q) = IF n = 0 THEN q ELSE s[n]
  BY DEF FlattenSeq
<1> HIDE DEF s, S
<1>6. \A i \in 1 .. n : s[i] = at(s, i)
  <2> HIDE DEF at
  <2> QED  BY <1>4
<1>7. CASE n # 0
  <2>1. at(s, 1) = q[1] /\ \A i \in 2 .. n : at(s, i) = s[i - 1] \o q[i]
    <3>1. \A i \in 2 .. n : i # 1
      BY <1>0
    <3> QED  BY <3>1
  <2>2. 1 \in 1 .. n /\ \A i \in 2 .. n : i \in 1 .. n
    BY <1>0, <1>7
  <2>3. s[1] = q[1] /\ \A i \in 2 .. n : s[i] = s[i - 1] \o q[i]
    <3> HIDE DEF at
    <3> QED  BY <1>6, <2>1, <2>2
  <2>4. FlattenSeq(q) = s[n]
    BY <1>5, <1>7
  <2> QED  BY <1>7, <2>3, <2>4
<1> QED  BY <1>5, <1>7

\* Pieces of a sequence, one after the other from its beginning, end[i] being
\* where the i-th ends
Tiles(q, cells, end) ==
    /\ end[0] = 0
    /\ \A i \in 1 .. Len(q) :
         /\ end[i - 1] \in 0 .. Len(cells) /\ end[i] \in 0 .. Len(cells) /\ end[i - 1] <= end[i]
         /\ q[i] = Part(cells, end[i - 1] + 1, end[i])

\* Two parts next to each other make one.
LEMMA PartsJoin ==
    ASSUME NEW cells, IsSeq(cells), NEW a \in 0 .. Len(cells), NEW b \in 0 .. Len(cells), a <= b
    PROVE  Joined(Part(cells, 1, a), Part(cells, a + 1, b)) = Part(cells, 1, b)
<1> DEFINE q == Part(cells, 1, a)
           r == Part(cells, a + 1, b)
           t == Part(cells, 1, b)
<1>0. Len(cells) \in Nat
  BY SeqIs
<1>1. IsSeq(q) /\ Len(q) = a /\ \A i \in 1 .. a : q[i] = cells[i]
  <2>1. /\ IsSeq(q) /\ Len(q) = IF 1 <= a THEN a - 1 + 1 ELSE 0
        /\ \A i \in 1 .. a - 1 + 1 : q[i] = cells[1 + i - 1]
    BY <1>0, PartIs
  <2> HIDE DEF q
  <2>2. Len(q) = a
    BY <1>0, <2>1
  <2>3. ASSUME NEW i \in 1 .. a PROVE q[i] = cells[i]
    <3>1. i \in 1 .. a - 1 + 1 /\ 1 + i - 1 = i
      BY <1>0
    <3>2. q[i] = cells[1 + i - 1]
      BY <2>1, <3>1
    <3> QED  BY <3>1, <3>2
  <2> QED  BY <2>1, <2>2, <2>3
<1>2. IsSeq(t) /\ Len(t) = b /\ \A i \in 1 .. b : t[i] = cells[i]
  <2>1. /\ IsSeq(t) /\ Len(t) = IF 1 <= b THEN b - 1 + 1 ELSE 0
        /\ \A i \in 1 .. b - 1 + 1 : t[i] = cells[1 + i - 1]
    BY <1>0, PartIs
  <2> HIDE DEF t
  <2>2. Len(t) = b
    BY <1>0, <2>1
  <2>3. ASSUME NEW i \in 1 .. b PROVE t[i] = cells[i]
    <3>1. i \in 1 .. b - 1 + 1 /\ 1 + i - 1 = i
      BY <1>0
    <3>2. t[i] = cells[1 + i - 1]
      BY <2>1, <3>1
    <3> QED  BY <3>1, <3>2
  <2> QED  BY <2>1, <2>2, <2>3
<1>3. IsSeq(r) /\ Len(r) = b - a /\ \A i \in 1 .. b - a : r[i] = cells[a + i]
  <2>0. a + 1 \in Nat \ {0}
    BY <1>0
  <2>1. /\ IsSeq(r) /\ Len(r) = IF a + 1 <= b THEN b - (a + 1) + 1 ELSE 0
        /\ \A i \in 1 .. b - (a + 1) + 1 : r[i] = cells[(a + 1) + i - 1]
    BY <2>0, PartIs
  <2> HIDE DEF r
  <2>2. Len(r) = b - a
    BY <1>0, <2>1
  <2>3. ASSUME NEW i \in 1 .. b - a PROVE r[i] = cells[a + i]
    <3>1. i \in 1 .. b - (a + 1) + 1 /\ (a + 1) + i - 1 = a + i
      BY <1>0
    <3>2. r[i] = cells[(a + 1) + i - 1]
      BY <2>1, <3>1
    <3> QED  BY <3>1, <3>2
  <2> QED  BY <2>1, <2>2, <2>3
<1> HIDE DEF q, r, t
<1> DEFINE j == Joined(q, r)
<1>4. /\ IsSeq(j) /\ Len(j) = Len(q) + Len(r)
      /\ \A i \in 1 .. Len(q) : j[i] = q[i]
      /\ \A i \in Len(q) + 1 .. Len(q) + Len(r) : j[i] = r[i - Len(q)]
  BY <1>1, <1>3, JoinedIs, ZenonT(60)
<1> HIDE DEF j
<1>5. Len(j) = Len(t)
  BY <1>0, <1>1, <1>2, <1>3, <1>4
<1>6. ASSUME NEW i \in 1 .. Len(j) PROVE j[i] = t[i]
  <2>1. CASE i <= a
    BY <1>0, <1>1, <1>2, <1>4, <1>5, <2>1
  <2>2. CASE i > a
    <3>1. i \in Len(q) + 1 .. Len(q) + Len(r) /\ i - Len(q) \in 1 .. b - a /\ a + (i - Len(q)) = i
      BY <1>0, <1>1, <1>2, <1>3, <1>5, <2>2
    <3>2. j[i] = r[i - Len(q)] /\ r[i - Len(q)] = cells[a + (i - Len(q))] /\ t[i] = cells[i]
      BY <1>2, <1>3, <1>4, <1>5, <3>1
    <3> QED  BY <3>1, <3>2
  <2> QED  BY <1>0, <1>5, <1>2, <2>1, <2>2
<1> QED  BY <1>2, <1>4, <1>5, <1>6, SeqsEqual DEF j, q, r, t

\* A sequence that is cut into pieces is what the pieces make together.
LEMMA TilesFlatten ==
    ASSUME NEW q, IsSeq(q), NEW cells, IsSeq(cells), NEW end, Tiles(q, cells, end), Len(q) # 0
    PROVE  FlattenSeq(q) = Part(cells, 1, end[Len(q)])
<1>0. Len(q) \in Nat \ {0} /\ Len(cells) \in Nat
  BY SeqIs
<1>1. PICK f : /\ f[1] = q[1] /\ FlattenSeq(q) = f[Len(q)]
               /\ \A i \in 2 .. Len(q) : f[i] = Joined(f[i - 1], q[i])
  BY FlattenIs DEF Joined
<1> DEFINE S == {k \in Nat : k + 1 <= Len(q) => f[k + 1] = Part(cells, 1, end[k + 1])}
<1>2. 0 \in S
  <2>1. 1 \in 1 .. Len(q)
    BY <1>0
  <2>2. end[0] = 0 /\ q[1] = Part(cells, end[1 - 1] + 1, end[1])
    BY <2>1 DEF Tiles
  <2>3. q[1] = Part(cells, 1, end[1])
    BY <2>2
  <2> QED  BY <1>1, <2>3
<1>3. ASSUME NEW k \in Nat, k \in S PROVE k + 1 \in S
  <2> SUFFICES ASSUME k + 2 <= Len(q) PROVE f[k + 2] = Part(cells, 1, end[k + 2])
    OBVIOUS
  <2> DEFINE a == end[k + 1]
             b == end[k + 2]
  <2>1. f[k + 1] = Part(cells, 1, a)
    BY <1>0, <1>3
  <2>2. /\ end[(k + 2) - 1] \in 0 .. Len(cells) /\ b \in 0 .. Len(cells)
        /\ end[(k + 2) - 1] <= b
        /\ q[k + 2] = Part(cells, end[(k + 2) - 1] + 1, b)
    <3>1. k + 2 \in 1 .. Len(q)
      BY <1>0
    <3> QED  BY <3>1 DEF Tiles
  <2>3. end[(k + 2) - 1] = a /\ f[(k + 2) - 1] = f[k + 1]
    <3>1. (k + 2) - 1 = k + 1
      OBVIOUS
    <3> QED  BY <3>1
  <2>4. f[k + 2] = Joined(f[(k + 2) - 1], q[k + 2])
    <3>1. k + 2 \in 2 .. Len(q)
      BY <1>0
    <3> QED  BY <1>1, <3>1
  <2> HIDE DEF a, b
  <2>5. f[k + 2] = Joined(Part(cells, 1, a), Part(cells, a + 1, b))
    BY <2>1, <2>2, <2>3, <2>4
  <2> QED  BY <2>2, <2>3, <2>5, PartsJoin DEF b
<1> HIDE DEF S
<1>4. Len(q) - 1 \in S
  <2>1. Len(q) - 1 \in Nat
    BY <1>0
  <2> QED  BY <1>2, <1>3, <2>1, NumbersInduction
<1>5. (Len(q) - 1) + 1 = Len(q)
  BY <1>0
<1> QED  BY <1>0, <1>1, <1>4, <1>5 DEF S

\* The first n cells of a sequence.
LEMMA PartOfBeginning ==
    ASSUME NEW q, IsSeq(q), NEW n \in 0 .. Len(q)
    PROVE  /\ IsSeq(Part(q, 1, n)) /\ Len(Part(q, 1, n)) = n
           /\ \A i \in 1 .. n : Part(q, 1, n)[i] = q[i]
           /\ Part(q, 1, Len(q)) = q
<1> DEFINE P(k) == Part(q, 1, k)
<1>0. Len(q) \in Nat
  BY SeqIs
<1>1. ASSUME NEW k \in 0 .. Len(q)
      PROVE  IsSeq(P(k)) /\ Len(P(k)) = k /\ \A i \in 1 .. k : P(k)[i] = q[i]
  <2>1. /\ IsSeq(P(k)) /\ Len(P(k)) = IF 1 <= k THEN k - 1 + 1 ELSE 0
        /\ \A i \in 1 .. k - 1 + 1 : P(k)[i] = q[1 + i - 1]
    BY <1>0, PartIs
  <2> HIDE DEF P
  <2>2. Len(P(k)) = k
    BY <1>0, <2>1
  <2>3. ASSUME NEW i \in 1 .. k PROVE P(k)[i] = q[i]
    <3>1. i \in 1 .. k - 1 + 1 /\ 1 + i - 1 = i
      BY <1>0
    <3>2. P(k)[i] = q[1 + i - 1]
      BY <2>1, <3>1
    <3> QED  BY <3>1, <3>2
  <2> QED  BY <2>1, <2>2, <2>3
<1> HIDE DEF P
<1>2. Len(q) \in 0 .. Len(q)
  BY <1>0
<1>3. P(Len(q)) = q
  BY <1>1, <1>2, SeqsEqual
<1> QED  BY <1>1, <1>3 DEF P

\* How many chunks of a size there are in a length.
LEMMA ChunksNumber ==
    ASSUME NEW l \in Nat, NEW size \in Nat \ {0}, NEW n, n = (l + size - 1) \div size
    PROVE  /\ n \in Nat /\ n * size >= l
           /\ \A i \in Nat : i < n => i * size < l
<1> DEFINE r == (l + size - 1) % size
           a == l + size - 1
<1>1. a \in Nat /\ n \in Nat /\ r \in Nat /\ r < size /\ a = n * size + r
  OBVIOUS
<1>2. n * size >= l
  BY <1>1
<1>3. ASSUME NEW i \in Nat, i < n PROVE i * size < l
  <2>1. i + 1 <= n
    BY <1>1, <1>3
  <2>2. (i + 1) * size <= n * size
    BY <1>1, <2>1
  <2>3. (i + 1) * size = i * size + size
    OBVIOUS
  <2>4. i * size \in Nat /\ n * size \in Nat
    BY <1>1
  <2> QED  BY <1>1, <2>2, <2>3, <2>4
<1> QED  BY <1>1, <1>2, <1>3

\* The blocks of a save are pieces of its cells, none empty, that make up all of
\* them.
LEMMA ChunksTile ==
    ASSUME NEW cells, IsSeq(cells), NEW size \in Nat, NEW C, C = Chunks(cells, size)
    PROVE  /\ IsSeq(C)
           /\ \E end : /\ Tiles(C, cells, end) /\ end[Len(C)] = Len(cells)
                       /\ \A i \in 1 .. Len(C) : end[i - 1] < end[i]
<1>0. Len(cells) \in Nat
  BY SeqIs
<1>1. CASE size = 0 /\ cells = <<>>
  <2>1. C = <<>>
    BY <1>1 DEF Chunks, BlocksOf
  <2>2. IsSeq(C) /\ Len(C) = 0 /\ Len(cells) = 0
    BY <1>1, <2>1, TuplesAreSeqs
  <2>3. PICK end : end = [i \in 0 .. 0 |-> 0]
    OBVIOUS
  <2>4. end[0] = 0
    BY <2>3
  <2>5. Tiles(C, cells, end)
    BY <2>2, <2>4 DEF Tiles
  <2> QED  BY <2>2, <2>4, <2>5
<1>2. CASE size = 0 /\ cells # <<>>
  <2>1. C = <<cells>>
    BY <1>2 DEF Chunks, BlocksOf
  <2>2. IsSeq(C) /\ Len(C) = 1 /\ C[1] = cells
    BY <2>1, TuplesAreSeqs
  <2>3. Len(cells) # 0
    <3>1. CASE Len(cells) = 0
      <4>1. IsSeq(<<>>) /\ Len(<<>>) = 0
        BY TuplesAreSeqs
      <4>2. cells = <<>>
        BY <3>1, <4>1, SeqsEqual
      <4> QED  BY <1>2, <4>2
    <3> QED  BY <3>1
  <2>4. PICK end : end = [i \in 0 .. 1 |-> IF i = 0 THEN 0 ELSE Len(cells)]
    OBVIOUS
  <2>5. end[0] = 0 /\ end[1] = Len(cells)
    BY <2>4
  <2>6. Part(cells, 0 + 1, Len(cells)) = cells
    <3>1. Part(cells, 1, Len(cells)) = cells
      <4>1. Len(cells) \in 0 .. Len(cells)
        BY <1>0
      <4> QED  BY <4>1, PartOfBeginning
    <3> QED  BY <3>1
  <2>7. Tiles(C, cells, end)
    <3>1. ASSUME NEW i \in 1 .. Len(C)
          PROVE  /\ end[i - 1] \in 0 .. Len(cells) /\ end[i] \in 0 .. Len(cells) /\ end[i - 1] <= end[i]
                 /\ C[i] = Part(cells, end[i - 1] + 1, end[i])
      <4>1. i = 1 /\ end[i - 1] = 0
        BY <2>2, <2>5
      <4> QED  BY <1>0, <2>2, <2>5, <2>6, <4>1
    <3> QED  BY <2>5, <3>1 DEF Tiles
  <2>8. \A i \in 1 .. Len(C) : end[i - 1] < end[i]
    BY <1>0, <2>2, <2>3, <2>5
  <2> QED  BY <2>2, <2>5, <2>7, <2>8
<1>3. CASE size # 0
  <2> DEFINE l == Len(cells)
             n == (l + size - 1) \div size
             to(i) == IF i * size < l THEN i * size ELSE l
  <2>1. /\ n \in Nat /\ n * size >= l
        /\ \A i \in Nat : i < n => i * size < l
    BY <1>0, <1>3, ChunksNumber
  <2>2. C = [i \in 1 .. n |-> SubSeq(cells, (i - 1) * size + 1, to(i))]
    BY <1>3 DEF Chunks
  <2> HIDE DEF n
  <2>3. PICK end : end = [i \in 0 .. n |-> IF i = n THEN l ELSE i * size]
    OBVIOUS
  <2>4. C = [i \in 1 .. n |-> C[i]] /\ \A i \in 1 .. n : C[i] = Part(cells, (i - 1) * size + 1, to(i))
    BY <2>2 DEF Part
  <2>5. IsSeq(C) /\ Len(C) = n
    BY <2>1, <2>4, FunctionIsSeq
  <2>6. ASSUME NEW i \in 1 .. n
        PROVE  /\ end[i] = to(i) /\ end[i - 1] = (i - 1) * size
               /\ (i - 1) * size \in Nat /\ to(i) \in Nat /\ (i - 1) * size < to(i) /\ to(i) <= l
    <3>1. i - 1 \in Nat /\ i - 1 < n /\ i \in Nat
      BY <2>1
    <3>2. (i - 1) * size < l
      BY <2>1, <3>1
    <3>3. i * size = (i - 1) * size + size /\ (i - 1) * size \in Nat
      BY <3>1
    <3>4. end[i - 1] = (i - 1) * size
      BY <2>1, <2>3, <3>1
    <3>5. to(i) \in Nat /\ to(i) <= l /\ (i - 1) * size < to(i)
      BY <1>0, <1>3, <3>1, <3>2, <3>3
    <3>6. end[i] = to(i)
      <4>1. CASE i = n
        BY <1>0, <2>1, <2>3, <4>1
      <4>2. CASE i # n
        <5>1. i < n
          BY <2>1, <4>2
        <5>2. i * size < l
          BY <2>1, <3>1, <5>1
        <5> QED  BY <2>3, <4>2, <5>2
      <4> QED  BY <4>1, <4>2
    <3> QED  BY <3>2, <3>3, <3>4, <3>5, <3>6
  <2> HIDE DEF to
  <2>7. end[0] = 0 /\ end[n] = l
    <3>1. n = 0 => l = 0
      BY <1>0, <2>1
    <3> QED  BY <2>1, <2>3, <3>1
  <2>8. Tiles(C, cells, end)
    <3>1. ASSUME NEW i \in 1 .. n
          PROVE  /\ end[i - 1] \in 0 .. l /\ end[i] \in 0 .. l /\ end[i - 1] <= end[i]
                 /\ C[i] = Part(cells, end[i - 1] + 1, end[i])
      BY <1>0, <2>4, <2>6
    <3> QED  BY <2>5, <2>7, <3>1 DEF Tiles
  <2> QED  BY <2>5, <2>6, <2>7, <2>8
<1> QED  BY <1>1, <1>2, <1>3

\* at[j] is where the block with the index j begins; the empty one is the last.
Laid(stream, blocks, key, at) ==
    /\ at[0] = 0
    /\ \A j \in 0 .. Len(blocks) : at[j] \in Nat
    /\ \A j \in 0 .. Len(blocks) - 1 :
         /\ at[j + 1] = at[j] + 1 + Len(blocks[j + 1])
         /\ at[j + 1] < Len(stream)
         /\ stream[at[j] + 1] = BlockHead(j, key, blocks[j + 1])
         /\ \A i \in at[j] + 2 .. at[j + 1] : stream[i] = blocks[j + 1][i - at[j] - 1]
    /\ Len(stream) = at[Len(blocks)] + 1
    /\ stream[at[Len(blocks)] + 1] = BlockHead(Len(blocks), key, <<>>)

\* Where the blocks of a stream are in it, and that it has no other cells.
LEMMA StreamIsLaid ==
    ASSUME NEW blocks, NEW key, IsSeq(blocks), \A i \in 1 .. Len(blocks) : IsSeq(blocks[i]),
           NEW W, W = Stream(blocks, key)
    PROVE  /\ IsSeq(W)
           /\ \E at : Laid(W, blocks, key, at)
           /\ \A p \in 1 .. Len(W) : StreamCell(W[p], blocks, key)
<1> DEFINE n == Len(blocks)
<1>0. n \in Nat
  BY SeqIs
<1>1. PICK s : /\ s[0] = <<>>
               /\ \A i \in 1 .. n : s[i] = s[i - 1] \o Block(i - 1, key, blocks[i])
               /\ W = s[n] \o Block(n, key, <<>>)
  BY StreamGrows
<1> DEFINE S == {k \in Nat : k <= n => LaidTo(s, blocks, key, k)}
<1>2. 0 \in S
  <2>1. IsSeq(s[0]) /\ Len(s[0]) = 0
    BY <1>1, TuplesAreSeqs
  <2>2. LaidTo(s, blocks, key, 0)
    BY <2>1 DEF LaidTo
  <2> QED  BY <2>2
<1>3. ASSUME NEW k \in Nat, k \in S PROVE k + 1 \in S
  <2> SUFFICES ASSUME k + 1 <= n PROVE LaidTo(s, blocks, key, k + 1)
    OBVIOUS
  <2>1. k \in 0 .. n - 1 /\ k + 1 \in 1 .. n /\ (k + 1) - 1 = k
    BY <1>0
  <2>2. LaidTo(s, blocks, key, k)
    BY <1>0, <1>3
  <2>3. s[k + 1] = s[k] \o Block(k, key, blocks[k + 1])
    <3>1. s[k + 1] = s[(k + 1) - 1] \o Block((k + 1) - 1, key, blocks[k + 1])
      BY <1>1, <2>1
    <3> QED  BY <2>1, <3>1
  <2> QED  BY <2>1, <2>2, <2>3, LaidOneMore
<1> HIDE DEF S
<1>4. LaidTo(s, blocks, key, n)
  <2>1. n \in S
    BY <1>0, <1>2, <1>3, NumbersInduction
  <2> QED  BY <1>0, <2>1 DEF S
<1> DEFINE t == s[n]
           B == Block(n, key, <<>>)
<1>5. IsSeq(B) /\ Len(B) = 1 /\ B[1] = BlockHead(n, key, <<>>)
  <2> DEFINE e == <<>>
  <2>1. IsSeq(e) /\ Len(e) = 0
    BY TuplesAreSeqs
  <2> HIDE DEF e
  <2>2. /\ IsSeq(Block(n, key, e)) /\ Len(Block(n, key, e)) = 1 + Len(e)
        /\ Block(n, key, e)[1] = BlockHead(n, key, e)
    <3> HIDE DEF n
    <3>1. IsSeq(e)
      BY <2>1
    <3> QED  BY <3>1, BlockIs
  <2>3. Len(Block(n, key, e)) = 1
    BY <2>1, <2>2
  <2> QED  BY <2>2, <2>3 DEF e
<1>6. IsSeq(t) /\ Len(t) \in Nat
  BY <1>4, SeqIs DEF LaidTo
<1> HIDE DEF B, t
<1>7. /\ IsSeq(W) /\ Len(W) = Len(t) + 1
      /\ \A i \in 1 .. Len(t) : W[i] = t[i]
      /\ W[Len(t) + 1] = BlockHead(n, key, <<>>)
  <2>1. W = Joined(t, B)
    BY <1>1 DEF t, B, Joined
  <2>2. /\ IsSeq(W) /\ Len(W) = Len(t) + Len(B)
        /\ \A i \in 1 .. Len(t) : W[i] = t[i]
        /\ \A i \in Len(t) + 1 .. Len(t) + Len(B) : W[i] = B[i - Len(t)]
    <3>1. IsSeq(t) /\ IsSeq(B)
      BY <1>5, <1>6
    <3> QED  BY <2>1, <3>1, JoinedIs
  <2>3. W[Len(t) + 1] = B[1]
    <3>1. Len(t) + 1 \in Len(t) + 1 .. Len(t) + Len(B) /\ (Len(t) + 1) - Len(t) = 1
      BY <1>5, <1>6
    <3>2. W[Len(t) + 1] = B[(Len(t) + 1) - Len(t)]
      BY <2>2, <3>1
    <3> QED  BY <3>1, <3>2
  <2> QED  BY <1>5, <2>2, <2>3
<1>8. PICK at : at = [j \in 0 .. n |-> Len(s[j])]
  OBVIOUS
<1>9. \A j \in 0 .. n : at[j] = Len(s[j])
  BY <1>8
<1>10. ASSUME NEW j \in 0 .. n - 1
       PROVE  /\ at[j] \in Nat /\ at[j + 1] = at[j] + 1 + Len(blocks[j + 1])
              /\ at[j + 1] <= Len(t)
              /\ W[at[j] + 1] = BlockHead(j, key, blocks[j + 1])
              /\ \A i \in at[j] + 2 .. at[j + 1] : W[i] = blocks[j + 1][i - at[j] - 1]
  <2> DEFINE a == at[j]
             z == at[j + 1]
             c == blocks[j + 1]
             d == Len(c)
  <2>1. a = Len(s[j]) /\ z = Len(s[j + 1])
    <3>1. j \in 0 .. n /\ j + 1 \in 0 .. n
      BY <1>0
    <3> QED  BY <1>9, <3>1
  <2>2. /\ a \in Nat /\ z = a + 1 + d /\ z <= Len(t)
        /\ t[a + 1] = BlockHead(j, key, c)
        /\ \A i \in a + 2 .. z : t[i] = c[i - a - 1]
    BY <1>4, <2>1 DEF LaidTo, t
  <2>3. d \in Nat
    <3>1. j + 1 \in 1 .. n
      BY <1>0
    <3> QED  BY <3>1, SeqIs
  <2> HIDE DEF a, z, c, d
  <2>4. a + 1 \in 1 .. Len(t) /\ \A i \in a + 2 .. z : i \in 1 .. Len(t)
    BY <1>6, <2>2, <2>3
  <2>5. W[a + 1] = BlockHead(j, key, c) /\ \A i \in a + 2 .. z : W[i] = c[i - a - 1]
    BY <1>7, <2>2, <2>4
  <2> QED  BY <2>2, <2>5 DEF a, z, c, d
<1>11. at[n] = Len(t) /\ at[0] = 0
  <2>1. Len(s[0]) = 0
    BY <1>1, TuplesAreSeqs
  <2>2. n \in 0 .. n /\ 0 \in 0 .. n
    BY <1>0
  <2> QED  BY <1>9, <2>1, <2>2 DEF t
<1>12. \A j \in 0 .. n : at[j] \in Nat
  <2>1. \A j \in 0 .. n : j = n \/ j \in 0 .. n - 1
    BY <1>0
  <2> QED  BY <1>6, <1>10, <1>11, <2>1
<1>13. Laid(W, blocks, key, at)
  <2>1. \A j \in 0 .. n - 1 : at[j + 1] < Len(W)
    <3>1. ASSUME NEW j \in 0 .. n - 1 PROVE at[j + 1] < Len(W)
      <4>1. at[j + 1] \in Nat
        BY <1>0, <1>12
      <4>2. at[j + 1] <= Len(t)
        BY <1>10
      <4> DEFINE z == at[j + 1]
      <4> HIDE DEF z
      <4>3. z \in Nat /\ z <= Len(t)
        BY <4>1, <4>2 DEF z
      <4>4. z < Len(W)
        BY <1>6, <1>7, <4>3
      <4> QED  BY <4>4 DEF z
    <3> QED  BY <3>1
  <2> QED  BY <1>7, <1>10, <1>11, <1>12, <2>1 DEF Laid
<1>14. ASSUME NEW p \in 1 .. Len(W) PROVE StreamCell(W[p], blocks, key)
  <2>1. CASE p <= Len(t)
    <3>1. p \in 1 .. Len(t) /\ W[p] = t[p]
      BY <1>6, <1>7, <2>1
    <3> QED  BY <1>4, <3>1 DEF LaidTo, t
  <2>2. CASE p = Len(t) + 1
    <3>1. W[p] = BlockHead(n, key, BlockNo(blocks, n)) /\ n \in 0 .. n
      BY <1>0, <1>7, <2>2 DEF BlockNo
    <3> QED  BY <3>1 DEF StreamCell
  <2> QED  BY <1>6, <1>7, <2>1, <2>2
<1> QED  BY <1>7, <1>13, <1>14

----------------------------------------------------------------------------
(* The cells of the file of a save.                                        *)

FileMaster(s) ==
    CASE s.format = "KDB4" -> SaveMaster(s)
      [] s.format = "KDB3" ->
           Kdbx3Master(FieldValue(s, "seed"), s.kdf[2], KdfSeed(s), s.key)
      [] OTHER -> KdbMaster(KdbHeader(s), s.key)

FilePayload(s) ==
    CASE s.format = "KDB4" -> Compressed(s.compression, InnerHeader(s) \o Document(s))
      [] s.format = "KDB3" -> Kdbx3Payload(s)
      [] OTHER -> KdbPayload(s)

Secret(s) == Encrypted(s.outer, FileMaster(s), FieldValue(s, "iv"), FilePayload(s))

FieldsOf(s) == IF s.format = "KDB4" THEN Range(s.layout) ELSE Kdbx3Fields \cup {"comment"}
FieldCells(s) == {<<"field", f, FieldValue(s, f)>> : f \in FieldsOf(s)}
VersionCell(s) == <<"version", s.format, s.minor>>
ShaCell(s) == <<"sha256", Sha256(OuterHeader(s))>>
HmacCell(s) == <<"hmac", HeaderMac(SaveHmacKey(s), OuterHeader(s))>>
HeadCells(s) ==
    {BlockHead(i, SaveHmacKey(s), BlockNo(WrittenBlocks(s), i)) : i \in 0 .. Len(WrittenBlocks(s))}

FileCells(s) ==
    UNION {{VersionCell(s), <<"end">>}, FieldCells(s), Range(Secret(s)),
           IF s.format = "KDB4" THEN {ShaCell(s), HmacCell(s)} ELSE {},
           IF s.format = "KDB4" THEN HeadCells(s) ELSE {},
           IF s.format = "KDB" THEN {<<"kdb header", KdbHeader(s)>>} ELSE {}}

\* A cell of a file is of one of the kinds that its writer makes.
LEMMA FileCellsAre ==
    ASSUME NEW s, NEW c
    PROVE  c \in FileCells(s) <=>
             \/ c = VersionCell(s) \/ c = <<"end">> \/ c \in FieldCells(s) \/ c \in Range(Secret(s))
             \/ s.format = "KDB4" /\ c = ShaCell(s)
             \/ s.format = "KDB4" /\ c = HmacCell(s)
             \/ s.format = "KDB4" /\ c \in HeadCells(s)
             \/ s.format = "KDB" /\ c = <<"kdb header", KdbHeader(s)>>
BY DEF FileCells

\* What makes sequences over a set of sequences over it.
LEMMA SeqsOf ==
    ASSUME NEW S
    PROVE  /\ \A q, r : q \in Seq(S) /\ r \in Seq(S) => q \o r \in Seq(S)
           /\ \A a : a \in S => <<a>> \in Seq(S)
           /\ \A a, b : a \in S /\ b \in S => <<a, b>> \in Seq(S)
           /\ <<>> \in Seq(S)
           /\ \A T, q : q \in Seq(T) /\ (\A c \in T : c \in S) => q \in Seq(S)
<1>1. \A q, r : q \in Seq(S) /\ r \in Seq(S) => q \o r \in Seq(S)
  OBVIOUS
<1>2. \A a, b : a \in S /\ b \in S => <<a, b>> \in Seq(S)
  OBVIOUS
<1>3. <<>> \in Seq(S) /\ \A a : a \in S => <<a>> \in Seq(S)
  OBVIOUS
<1>4. ASSUME NEW T, NEW q \in Seq(T), \A c \in T : c \in S PROVE q \in Seq(S)
  BY <1>4
<1> QED  BY <1>1, <1>2, <1>3, <1>4

\* A sequence is one over the set of its cells.
LEMMA InRange ==
    ASSUME NEW q, IsSeq(q)
    PROVE  /\ q \in Seq(Range(q))
           /\ \A S : (\A i \in 1 .. Len(q) : q[i] \in S) => q \in Seq(S)
<1>1. PICK T : q \in Seq(T)
  BY DEF IsSeq
<1>2. ASSUME NEW S, \A i \in 1 .. Len(q) : q[i] \in S PROVE q \in Seq(S)
  <2>1. q = [i \in 1 .. Len(q) |-> q[i]] /\ Len(q) \in Nat
    BY <1>1
  <2> QED  BY <1>2, <2>1
<1>3. \A i \in 1 .. Len(q) : q[i] \in Range(q)
  BY RangeIs
<1> QED  BY <1>2, <1>3

\* The pieces of a file are sequences.
LEMMA HeaderPieces ==
    ASSUME NEW s, IsSave(s)
    PROVE  /\ IsSeq(InnerHeader(s) \o Document(s)) /\ IsSeq(OuterHeader(s))
           /\ IsSeq(Kdbx3Payload(s)) /\ IsSeq(KdbPayload(s))
<1>1. \A q, r : IsSeq(q) /\ IsSeq(r) => IsSeq(q \o r)
  BY JoinedIs DEF Joined
<1>2. /\ IsSeq([i \in DOMAIN s.attachments |-> <<"inner", "binary", s.attachments[i]>>])
      /\ IsSeq([i \in DOMAIN s.layout |-> <<"field", s.layout[i], FieldValue(s, s.layout[i])>>])
  <2>1. /\ Len(s.attachments) \in Nat /\ DOMAIN s.attachments = 1 .. Len(s.attachments)
        /\ Len(s.layout) \in Nat /\ DOMAIN s.layout = 1 .. Len(s.layout)
    BY DEF IsSave
  <2>2. \A n \in Nat : \A f : f = [i \in 1 .. n |-> f[i]] => IsSeq(f)
    BY FunctionIsSeq
  <2> DEFINE f == [i \in DOMAIN s.attachments |-> <<"inner", "binary", s.attachments[i]>>]
             g == [i \in DOMAIN s.layout |-> <<"field", s.layout[i], FieldValue(s, s.layout[i])>>]
  <2>3. f = [i \in 1 .. Len(s.attachments) |-> f[i]] /\ g = [i \in 1 .. Len(s.layout) |-> g[i]]
    BY <2>1
  <2> HIDE DEF f, g
  <2> QED  BY <2>1, <2>2, <2>3 DEF f, g
<1>3. \A a, b, c : IsSeq(<<a>>) /\ IsSeq(<<a, b>>) /\ IsSeq(<<a, b, c>>)
  BY TuplesAreSeqs
<1>4. IsSeq(Document(s))
  BY <1>3 DEF Document
<1>5. IsSeq(InnerHeader(s) \o Document(s))
  <2>1. IsSeq(InnerHeader(s))
    BY <1>1, <1>2, <1>3 DEF InnerHeader
  <2> QED  BY <1>1, <1>4, <2>1
<1>6. IsSeq(OuterHeader(s))
  BY <1>1, <1>2, <1>3 DEF OuterHeader
<1>7. IsSeq(KdbPayload(s))
  <2>1. IsSeq(<<>>)
    BY TuplesAreSeqs
  <2> QED  BY <1>3, <2>1 DEF KdbPayload
<1>8. IsSeq(Kdbx3Payload(s))
  <2> DEFINE cells == Compressed(s.compression, Document(s))
             p == SubSeq(cells, 1, 1)
             q == SubSeq(cells, 2, Len(cells))
  <2>1. IsSeq(cells) /\ Len(cells) \in {2, 3}
    BY <1>3, <1>4, TuplesAreSeqs DEF Compressed, Document
  <2> HIDE DEF cells
  <2>2. 1 \in 0 .. Len(cells) /\ Len(cells) \in 0 .. Len(cells) /\ 1 \in Nat \ {0} /\ 2 \in Nat \ {0}
    BY <2>1
  <2>3. IsSeq(p) /\ IsSeq(q)
    BY <2>1, <2>2, PartIs DEF Part
  <2> HIDE DEF p, q
  <2>4. IsSeq(HashedBlock(0, p)) /\ IsSeq(HashedBlock(1, q))
    BY <1>1, <1>3, <2>3 DEF HashedBlock
  <2>5. Kdbx3Payload(s) = <<FieldValue(s, "stream start")>> \o HashedBlock(0, p) \o HashedBlock(1, q)
                          \o <<<<"hashed", 2, <<>>, 0>>>>
    BY DEF Kdbx3Payload, p, q, cells
  <2> QED  BY <1>1, <1>3, <2>4, <2>5
<1> QED  BY <1>5, <1>6, <1>7, <1>8

\* The encrypted part of a file has a cell for each cell of its padded payload.
LEMMA SecretIs ==
    ASSUME NEW s, IsSave(s), NEW P, P = WithPadding(s.outer, FilePayload(s)), NEW E, E = Secret(s)
    PROVE  /\ IsSeq(FilePayload(s)) /\ IsSeq(E) /\ IsSeq(P) /\ Len(E) = Len(P)
           /\ \A i \in 1 .. Len(P) :
                E[i] = CipherCell(s.outer, FileMaster(s), FieldValue(s, "iv"), P, E, i)
<1>1. IsSeq(FilePayload(s))
  <2>1. \A a, b : IsSeq(<<a, b>>)
    BY TuplesAreSeqs
  <2> DEFINE d == InnerHeader(s) \o Document(s)
  <2>2. IsSeq(d) /\ IsSeq(Kdbx3Payload(s)) /\ IsSeq(KdbPayload(s))
    BY HeaderPieces
  <2> HIDE DEF d
  <2>3. IsSeq(Compressed(s.compression, d))
    BY <2>1, <2>2 DEF Compressed
  <2> QED  BY <2>2, <2>3 DEF FilePayload, d
<1> DEFINE iv == FieldValue(s, "iv")
           p == FilePayload(s)
           key == FileMaster(s)
<1>2. E = Encrypted(s.outer, key, iv, p) /\ P = WithPadding(s.outer, p)
  BY DEF Secret
<1> HIDE DEF p, key, iv
<1>3. /\ IsSeq(E) /\ IsSeq(P) /\ Len(E) = Len(P)
      /\ \A i \in 1 .. Len(P) : E[i] = CipherCell(s.outer, key, iv, P, E, i)
  <2>1. IsSeq(p)
    BY <1>1 DEF p
  <2> QED  BY <1>2, <2>1, EncryptedIs
<1> QED  BY <1>1, <1>3 DEF p, key, iv

\* The blocks hold nothing but cells of the ciphertext.
LEMMA BlocksAre ==
    ASSUME NEW s, IsSave(s), s.format = "KDB4"
    PROVE  /\ Ciphertext(s) = Secret(s) /\ IsSeq(WrittenBlocks(s))
           /\ \A i \in 1 .. Len(WrittenBlocks(s)) :
                 /\ WrittenBlocks(s)[i] \in Seq(Range(Secret(s)))
                 /\ WrittenBlocks(s)[i] # <<>>
           /\ \E end : /\ Tiles(WrittenBlocks(s), Secret(s), end)
                       /\ end[Len(WrittenBlocks(s))] = Len(Secret(s))
                       /\ \A i \in 1 .. Len(WrittenBlocks(s)) : end[i - 1] < end[i]
<1>1. Ciphertext(s) = Secret(s)
  BY DEF Ciphertext, Secret, FileMaster, FilePayload
<1> DEFINE C == WrittenBlocks(s)
           E == Secret(s)
<1>2. IsSeq(E)
  BY SecretIs
<1>3. s.blocks \in Nat /\ C = Chunks(E, s.blocks)
  BY <1>1 DEF IsSave, WrittenBlocks
<1> HIDE DEF C, E
<1>4. IsSeq(C)
  BY <1>2, <1>3, ChunksTile
<1>5. PICK end : /\ Tiles(C, E, end) /\ end[Len(C)] = Len(E)
                 /\ \A i \in 1 .. Len(C) : end[i - 1] < end[i]
  BY <1>2, <1>3, ChunksTile
<1>6. ASSUME NEW i \in 1 .. Len(C) PROVE C[i] \in Seq(Range(E)) /\ C[i] # <<>>
  <2> DEFINE a == end[i - 1]
             b == end[i]
             r == Range(E)
  <2>1. /\ a \in 0 .. Len(E) /\ b \in 0 .. Len(E) /\ a < b
        /\ C[i] = SubSeq(E, a + 1, b)
    BY <1>5 DEF Tiles, Part
  <2>2. E \in Seq(r)
    BY <1>2, InRange
  <2> HIDE DEF a, b, r
  <2>3. SubSeq(E, a + 1, b) \in Seq(r)
    BY <2>1, <2>2, PartIn
  <2>4. Len(SubSeq(E, a + 1, b)) # 0
    BY <2>1, <2>2
  <2>5. C[i] # <<>>
    <3> DEFINE x == SubSeq(E, a + 1, b)
    <3>1. C[i] = x /\ Len(x) # 0
      BY <2>1, <2>4
    <3> HIDE DEF x
    <3>2. Len(<<>>) = 0
      BY TuplesAreSeqs
    <3> QED  BY <3>1, <3>2
  <2> QED  BY <2>1, <2>3, <2>5 DEF r
<1> QED  BY <1>1, <1>4, <1>5, <1>6 DEF C, E

\* The header of a KDBX4 file has cells of the file only.
LEMMA OuterHeaderIn ==
    ASSUME NEW s, IsSave(s), s.format = "KDB4"
    PROVE  OuterHeader(s) \in Seq(FileCells(s))
<1> DEFINE S == FileCells(s)
           g == [i \in DOMAIN s.layout |-> <<"field", s.layout[i], FieldValue(s, s.layout[i])>>]
<1>1. VersionCell(s) \in S /\ <<"end">> \in S /\ \A c \in FieldCells(s) : c \in S
  BY FileCellsAre
<1>2. g \in Seq(S)
  <2>1. Len(s.layout) \in Nat /\ DOMAIN s.layout = 1 .. Len(s.layout)
    BY DEF IsSave
  <2>2. g = [i \in 1 .. Len(s.layout) |-> g[i]]
    BY <2>1
  <2>3. ASSUME NEW i \in 1 .. Len(s.layout) PROVE g[i] \in S
    <3>1. s.layout[i] \in FieldsOf(s)
      BY <2>1 DEF FieldsOf, Range
    <3>2. g[i] \in FieldCells(s)
      BY <2>1, <3>1 DEF FieldCells
    <3> QED  BY <1>1, <3>2
  <2> HIDE DEF g, S
  <2> QED  BY <2>1, <2>2, <2>3
<1>3. OuterHeader(s) = <<VersionCell(s)>> \o g \o <<<<"end">>>>
  BY DEF OuterHeader, VersionCell
<1> HIDE DEF S, g
<1>4. <<VersionCell(s)>> \in Seq(S) /\ <<<<"end">>>> \in Seq(S)
  BY <1>1, SeqsOf
<1> QED  BY <1>2, <1>3, <1>4, SeqsOf DEF S

\* So has a KDBX4 file (dump_kdbx4),
LEMMA Kdbx4FileIn ==
    ASSUME NEW s, IsSave(s), s.format = "KDB4"
    PROVE  FileOf(s) \in Seq(FileCells(s))
<1> DEFINE S == FileCells(s)
           B == WrittenBlocks(s)
           key == SaveHmacKey(s)
           W == Stream(B, key)
<1>1. OuterHeader(s) \in Seq(S)
  BY OuterHeaderIn
<1>2. ShaCell(s) \in S /\ HmacCell(s) \in S /\ (\A c \in HeadCells(s) : c \in S)
      /\ \A c \in Range(Secret(s)) : c \in S
  BY FileCellsAre
<1>3. IsSeq(B) /\ \A i \in 1 .. Len(B) : B[i] \in Seq(Range(Secret(s)))
  BY BlocksAre
<1>4. W \in Seq(S)
  <2>1. \A i \in 1 .. Len(B) : IsSeq(B[i])
    BY <1>3 DEF IsSeq
  <2> HIDE DEF S, B, key
  <2>2. IsSeq(W) /\ \A p \in 1 .. Len(W) : StreamCell(W[p], B, key)
    BY <1>3, <2>1, StreamIsLaid
  <2> HIDE DEF W
  <2>3. ASSUME NEW p \in 1 .. Len(W) PROVE W[p] \in S
    <3>1. CASE \E i \in 0 .. Len(B) : W[p] = BlockHead(i, key, BlockNo(B, i))
      <4>1. W[p] \in HeadCells(s)
        BY <3>1 DEF HeadCells, B, key
      <4> QED  BY <1>2, <4>1
    <3>2. CASE \E i \in 1 .. Len(B) : \E x \in 1 .. Len(B[i]) : W[p] = B[i][x]
      <4>1. PICK i \in 1 .. Len(B) : \E x \in 1 .. Len(B[i]) : W[p] = B[i][x]
        BY <3>2
      <4>2. W[p] \in Range(Secret(s))
        BY <1>3, <4>1
      <4> QED  BY <1>2, <4>2
    <3> QED  BY <2>2, <3>1, <3>2 DEF StreamCell
  <2> QED  BY <2>2, <2>3, InRange
<1>5. FileOf(s) = (OuterHeader(s) \o <<ShaCell(s)>>) \o (<<HmacCell(s)>> \o W)
  BY DEF FileOf, Kdbx4File, HeaderPart, BodyPart, ShaCell, HmacCell
<1> HIDE DEF S, W
<1>6. <<ShaCell(s)>> \in Seq(S) /\ <<HmacCell(s)>> \in Seq(S)
  BY <1>2, SeqsOf
<1>7. OuterHeader(s) \o <<ShaCell(s)>> \in Seq(S) /\ <<HmacCell(s)>> \o W \in Seq(S)
  BY <1>1, <1>4, <1>6, SeqsOf DEF S
<1> QED  BY <1>5, <1>7, SeqsOf DEF S

\* a KDBX3 file,
LEMMA Kdbx3FileIn ==
    ASSUME NEW s, IsSave(s), s.format = "KDB3"
    PROVE  FileOf(s) \in Seq(FileCells(s))
<1> DEFINE S == FileCells(s)
           g == [i \in DOMAIN Kdbx3Layout |-> <<"field", Kdbx3Layout[i], FieldValue(s, Kdbx3Layout[i])>>]
<1>1. VersionCell(s) \in S /\ <<"end">> \in S /\ (\A c \in FieldCells(s) : c \in S)
      /\ \A c \in Range(Secret(s)) : c \in S
  BY FileCellsAre
<1>2. g \in Seq(S)
  <2>1. Kdbx3Layout \in Seq(Kdbx3Fields \cup {"comment"})
    BY DEF Kdbx3Layout, Kdbx3Fields
  <2>2. Len(Kdbx3Layout) \in Nat /\ DOMAIN Kdbx3Layout = 1 .. Len(Kdbx3Layout)
        /\ \A i \in 1 .. Len(Kdbx3Layout) : Kdbx3Layout[i] \in Kdbx3Fields \cup {"comment"}
    BY <2>1
  <2>3. g = [i \in 1 .. Len(Kdbx3Layout) |-> g[i]]
    BY <2>2
  <2>4. ASSUME NEW i \in 1 .. Len(Kdbx3Layout) PROVE g[i] \in S
    <3>1. Kdbx3Layout[i] \in FieldsOf(s)
      BY <2>2 DEF FieldsOf
    <3>2. g[i] \in FieldCells(s)
      BY <2>2, <3>1 DEF FieldCells
    <3> QED  BY <1>1, <3>2
  <2> HIDE DEF g, S
  <2> QED  BY <2>2, <2>3, <2>4
<1>3. FileOf(s) = <<VersionCell(s)>> \o g \o <<<<"end">>>> \o Secret(s)
  BY DEF FileOf, Kdbx3File, VersionCell, Secret, FileMaster, FilePayload
<1> HIDE DEF g
<1>4. <<VersionCell(s)>> \in Seq(S) /\ <<<<"end">>>> \in Seq(S)
  BY <1>1, SeqsOf
<1>5. Secret(s) \in Seq(S)
  <2>1. IsSeq(Secret(s))
    BY SecretIs
  <2>2. Secret(s) \in Seq(Range(Secret(s)))
    BY <2>1, InRange
  <2> HIDE DEF S
  <2> QED  BY <1>1, <2>2
<1> HIDE DEF S
<1> QED  BY <1>2, <1>3, <1>4, <1>5, SeqsOf DEF S

\* and a KDB file,
LEMMA KdbFileIn ==
    ASSUME NEW s, IsSave(s), s.format = "KDB"
    PROVE  FileOf(s) \in Seq(FileCells(s))
<1> DEFINE S == FileCells(s)
<1>1. VersionCell(s) \in S /\ <<"kdb header", KdbHeader(s)>> \in S /\ \A c \in Range(Secret(s)) : c \in S
  BY FileCellsAre
<1>3. FileOf(s) = <<VersionCell(s), <<"kdb header", KdbHeader(s)>>>> \o Secret(s)
  BY DEF FileOf, KdbFile, VersionCell, Secret, FileMaster, FilePayload
<1>5. Secret(s) \in Seq(S)
  <2>1. IsSeq(Secret(s))
    BY SecretIs
  <2>2. Secret(s) \in Seq(Range(Secret(s)))
    BY <2>1, InRange
  <2> HIDE DEF S
  <2> QED  BY <1>1, <2>2, SeqsOf
<1> HIDE DEF S
<1>6. <<VersionCell(s), <<"kdb header", KdbHeader(s)>>>> \in Seq(S)
  BY <1>1, SeqsOf
<1> QED  BY <1>3, <1>5, <1>6, SeqsOf DEF S

\* and with them each file that a save writes.
LEMMA FileIn ==
    ASSUME NEW s, IsSave(s)
    PROVE  FileOf(s) \in Seq(FileCells(s))
BY Kdbx4FileIn, Kdbx3FileIn, KdbFileIn DEF IsSave

\* An encrypted cell is at a place of the encrypted part.
LEMMA SecretCells ==
    ASSUME NEW s, IsSave(s), NEW c \in Range(Secret(s)),
           NEW P, P = WithPadding(s.outer, FilePayload(s))
    PROVE  \E i \in 1 .. Len(P) :
              /\ c = Secret(s)[i]
              /\ c = CipherCell(s.outer, FileMaster(s), FieldValue(s, "iv"), P, Secret(s), i)
<1> DEFINE E == Secret(s)
<1>1. /\ IsSeq(E) /\ Len(E) = Len(P)
      /\ \A i \in 1 .. Len(P) :
            E[i] = CipherCell(s.outer, FileMaster(s), FieldValue(s, "iv"), P, E, i)
  BY SecretIs
<1>2. Range(E) = {E[i] : i \in 1 .. Len(E)}
  BY <1>1, RangeIs
<1> HIDE DEF E
<1>3. PICK i \in 1 .. Len(E) : c = E[i]
  BY <1>2 DEF E
<1> QED  BY <1>1, <1>3 DEF E

\* The name that a cell begins with tells which one it is.
LEMMA CellKinds ==
    ASSUME NEW s, IsSave(s), NEW c \in FileCells(s)
    PROVE  /\ c[1] = "version" => c = VersionCell(s)
           /\ c[1] = "end" => c = <<"end">>
           /\ c[1] = "field" => c \in FieldCells(s)
           /\ c[1] = "sha256" => c = ShaCell(s) /\ s.format = "KDB4"
           /\ c[1] = "hmac" => c = HmacCell(s) /\ s.format = "KDB4"
           /\ c[1] = "block" => c \in HeadCells(s) /\ s.format = "KDB4"
           /\ c[1] = "kdb header" => c = <<"kdb header", KdbHeader(s)>> /\ s.format = "KDB"
           /\ c[1] \in {"cbc", "stream"} => c \in Range(Secret(s))
           /\ c[1] \in {"version", "end", "field", "sha256", "hmac", "block", "kdb header",
                        "cbc", "stream"}
<1>1. \/ c = VersionCell(s) \/ c = <<"end">> \/ c \in FieldCells(s) \/ c \in Range(Secret(s))
      \/ s.format = "KDB4" /\ c = ShaCell(s)
      \/ s.format = "KDB4" /\ c = HmacCell(s)
      \/ s.format = "KDB4" /\ c \in HeadCells(s)
      \/ s.format = "KDB" /\ c = <<"kdb header", KdbHeader(s)>>
  BY FileCellsAre
<1>2. c \in FieldCells(s) => c[1] = "field"
  BY DEF FieldCells
<1>3. c \in HeadCells(s) => c[1] = "block"
  BY DEF HeadCells, BlockHead
<1>4. c \in Range(Secret(s)) => c[1] \in {"cbc", "stream"}
  BY SecretCells DEF CipherCell
<1>5. /\ VersionCell(s)[1] = "version" /\ ShaCell(s)[1] = "sha256" /\ HmacCell(s)[1] = "hmac"
      /\ <<"end">>[1] = "end" /\ <<"kdb header", KdbHeader(s)>>[1] = "kdb header"
  BY DEF VersionCell, ShaCell, HmacCell
<1>6. CASE c = VersionCell(s)
  BY <1>5, <1>6
<1>7. CASE c = <<"end">>
  BY <1>5, <1>7
<1>8. CASE c \in FieldCells(s)
  BY <1>2, <1>8
<1>9. CASE c \in Range(Secret(s))
  BY <1>4, <1>9
<1>10. CASE s.format = "KDB4" /\ c = ShaCell(s)
  BY <1>5, <1>10
<1>11. CASE s.format = "KDB4" /\ c = HmacCell(s)
  BY <1>5, <1>11
<1>12. CASE s.format = "KDB4" /\ c \in HeadCells(s)
  BY <1>3, <1>12
<1>13. CASE s.format = "KDB" /\ c = <<"kdb header", KdbHeader(s)>>
  BY <1>5, <1>13
<1> QED  BY <1>1, <1>6, <1>7, <1>8, <1>9, <1>10, <1>11, <1>12, <1>13

----------------------------------------------------------------------------
(* What comes out of a cipher tells what went in.                          *)

\* The value that each header field of a save has.
LEMMA FieldValues ==
    ASSUME NEW s
    PROVE  /\ FieldValue(s, "cipher") = <<s.outer>>
           /\ FieldValue(s, "compression") = <<s.compression>>
           /\ FieldValue(s, "inner cipher") = <<s.inner>>
           /\ FieldValue(s, "kdf") = <<"kdf", s.kdf, KdfSeed(s)>>
           /\ FieldValue(s, "rounds") = <<"rounds", s.kdf[2]>>
           /\ FieldValue(s, "transform seed") = KdfSeed(s)
           /\ FieldValue(s, "stream key") = StreamKey(s)
           /\ FieldValue(s, "public") = s.public[1]
           /\ FieldValue(s, "seed") = <<"seed", s.n>>
           /\ FieldValue(s, "iv") = <<"iv", s.n>>
           /\ FieldValue(s, "stream start") = <<"stream start", s.n>>
           /\ FieldValue(s, "comment") = <<"comment", s.n>>
BY DEF FieldValue

\* The fields of a cell of a ciphertext.
CellOf(s, P, E, i) ==
    /\ E[i][1] = (IF Chains(s.outer) THEN "cbc" ELSE "stream")
    /\ E[i][2] = <<s.outer, FileMaster(s)>>
    /\ E[i][3] = IF ~ Chains(s.outer) THEN <<<<"iv", s.n>>, i>>
                 ELSE IF i = 1 THEN <<"iv", s.n>> ELSE E[i - 1]
    /\ E[i][4] = P[i]

\* What the cipher and key of an encrypted cell are, and what it follows.
LEMMA CipherCellIs ==
    ASSUME NEW s, IsSave(s), NEW P, P = WithPadding(s.outer, FilePayload(s)),
           NEW E, E = Secret(s), NEW i \in 1 .. Len(P)
    PROVE  CellOf(s, P, E, i)
<1>1. E[i] = CipherCell(s.outer, FileMaster(s), <<"iv", s.n>>, P, E, i)
  <2>1. E[i] = CipherCell(s.outer, FileMaster(s), FieldValue(s, "iv"), P, E, i)
    BY SecretIs
  <2> QED  BY <2>1, FieldValues
<1>2. CASE Chains(s.outer)
  <2>1. E[i] = <<"cbc", <<s.outer, FileMaster(s)>>, IF i = 1 THEN <<"iv", s.n>> ELSE E[i - 1], P[i]>>
    BY <1>1, <1>2 DEF CipherCell
  <2> DEFINE b == IF i = 1 THEN <<"iv", s.n>> ELSE E[i - 1]
  <2> HIDE DEF b
  <2>2. E[i] = <<"cbc", <<s.outer, FileMaster(s)>>, b, P[i]>>
    BY <2>1 DEF b
  <2>3. E[i][1] = "cbc" /\ E[i][2] = <<s.outer, FileMaster(s)>> /\ E[i][3] = b /\ E[i][4] = P[i]
    BY <2>2
  <2> QED  BY <1>2, <2>3 DEF b, CellOf
<1>3. CASE ~ Chains(s.outer)
  <2>1. E[i] = <<"stream", <<s.outer, FileMaster(s)>>, <<<<"iv", s.n>>, i>>, P[i]>>
    BY <1>1, <1>3 DEF CipherCell
  <2> DEFINE b == <<<<"iv", s.n>>, i>>
  <2> HIDE DEF b
  <2>2. E[i] = <<"stream", <<s.outer, FileMaster(s)>>, b, P[i]>>
    BY <2>1 DEF b
  <2>3. E[i][1] = "stream" /\ E[i][2] = <<s.outer, FileMaster(s)>> /\ E[i][3] = b /\ E[i][4] = P[i]
    BY <2>2
  <2> QED  BY <1>3, <2>3 DEF b, CellOf
<1> QED  BY <1>2, <1>3 DEF CellOf

\* An encrypted cell comes out of a cipher.
LEMMA SecretKinds ==
    ASSUME NEW s, IsSave(s), NEW c \in Range(Secret(s))
    PROVE  c[1] \in {"cbc", "stream"}
<1> DEFINE P == WithPadding(s.outer, FilePayload(s))
           E == Secret(s)
<1>1. PICK i \in 1 .. Len(P) : c = E[i]
  BY SecretCells
<1>2. P = WithPadding(s.outer, FilePayload(s)) /\ E = Secret(s)
  OBVIOUS
<1> HIDE DEF P, E
<1>3. E[i][1] = (IF Chains(s.outer) THEN "cbc" ELSE "stream")
  <2>1. CellOf(s, P, E, i)
    BY <1>1, <1>2, CipherCellIs
  <2> QED  BY <2>1 DEF CellOf
<1> QED  BY <1>1, <1>3

\* All encrypted cells of a file have its cipher and key.
LEMMA CipherCellKey ==
    ASSUME NEW s, IsSave(s), NEW P, P = WithPadding(s.outer, FilePayload(s)),
           NEW E, E = Secret(s), NEW k, k = <<s.outer, FileMaster(s)>>
    PROVE  \A i \in 1 .. Len(P) : E[i][2] = k
<1>1. \A i \in 1 .. Len(P) : CellOf(s, P, E, i)
  BY CipherCellIs
<1> QED  BY <1>1 DEF CellOf

\* No two cells of a ciphertext are the same: each tells all that is before it, or
\* how many.
LEMMA CellsDiffer ==
    ASSUME NEW s, IsSave(s), NEW P, P = WithPadding(s.outer, FilePayload(s)),
           NEW E, E = Secret(s), NEW i \in 1 .. Len(P), NEW j \in 1 .. Len(P), E[i] = E[j]
    PROVE  i = j
<1>0. IsSeq(P) /\ Len(P) \in Nat
  BY SecretIs, SeqIs
<1>1. \A k \in 1 .. Len(P) :
        /\ E[k][1] = (IF Chains(s.outer) THEN "cbc" ELSE "stream")
        /\ E[k][3] = IF ~ Chains(s.outer) THEN <<<<"iv", s.n>>, k>>
                     ELSE IF k = 1 THEN <<"iv", s.n>> ELSE E[k - 1]
  <2>1. \A k \in 1 .. Len(P) : CellOf(s, P, E, k)
    BY CipherCellIs
  <2> QED  BY <2>1 DEF CellOf
<1>2. CASE ~ Chains(s.outer)
  <2>1. <<<<"iv", s.n>>, i>> = <<<<"iv", s.n>>, j>>
    BY <1>1, <1>2
  <2> QED  BY <2>1
<1>3. CASE Chains(s.outer)
  <2> DEFINE S == {k \in Nat : \A m \in 1 .. Len(P) :
                                  k + 1 <= Len(P) /\ E[k + 1] = E[m] => k + 1 = m}
  <2>0. \A k \in 1 .. Len(P) : E[k] # <<"iv", s.n>>
    <3>1. \A k \in 1 .. Len(P) : E[k][1] = "cbc"
      BY <1>1, <1>3
    <3> QED  BY <3>1
  <2>1. 0 \in S
    <3> SUFFICES ASSUME NEW m \in 1 .. Len(P), 1 <= Len(P), E[1] = E[m], m # 1 PROVE FALSE
      OBVIOUS
    <3>1. E[1][3] = <<"iv", s.n>> /\ E[m][3] = E[m - 1]
      BY <1>0, <1>1, <1>3
    <3>2. m - 1 \in 1 .. Len(P)
      BY <1>0
    <3> QED  BY <2>0, <3>1, <3>2
  <2>2. ASSUME NEW k \in Nat, k \in S PROVE k + 1 \in S
    <3> SUFFICES ASSUME NEW m \in 1 .. Len(P), k + 2 <= Len(P), E[k + 2] = E[m]
                 PROVE  k + 2 = m
      OBVIOUS
    <3>1. k + 2 \in 1 .. Len(P) /\ k + 2 # 1 /\ (k + 2) - 1 = k + 1 /\ k + 1 \in 1 .. Len(P)
      BY <1>0
    <3>2. E[k + 2][3] = E[k + 1]
      BY <1>1, <1>3, <3>1
    <3>3. m # 1
      BY <1>1, <1>3, <2>0, <3>1, <3>2
    <3>4. E[m][3] = E[m - 1] /\ m - 1 \in 1 .. Len(P)
      BY <1>0, <1>1, <1>3, <3>3
    <3>5. k + 1 = m - 1
      BY <1>0, <2>2, <3>2, <3>4, <3>1
    <3> QED  BY <1>0, <3>5
  <2> HIDE DEF S
  <2>3. i - 1 \in S
    <3>1. i - 1 \in Nat
      BY <1>0
    <3> QED  BY <2>1, <2>2, <3>1, NumbersInduction
  <2>4. (i - 1) + 1 = i
    BY <1>0
  <2> QED  BY <1>0, <2>3, <2>4 DEF S
<1> QED  BY <1>2, <1>3

(* A value that deciphers under a key that a save derived is part of it     *)
Owned(U, cells, cipher, key, iv) ==
    /\ \A u \in U : IsSave(u)
    /\ \A u, v \in U : FileMaster(u) = FileMaster(v) => u = v
    /\ IsSeq(cells)
    /\ iv[1] \notin {"cbc", "stream"}
    /\ \A i \in 1 .. Len(cells) :
          (cells[i][1] \in {"cbc", "stream"} /\ cells[i][2] = <<cipher, key>>) =>
             \E u \in U : cells[i] \in Range(Secret(u))

OwnPayload(U, cells, cipher, key, n) ==
    \E u \in U :
       /\ u.outer = cipher /\ FileMaster(u) = key
       /\ n <= Len(WithPadding(u.outer, FilePayload(u)))
       /\ \A i \in 1 .. n : cells[i][4] = WithPadding(u.outer, FilePayload(u))[i]

\* As long as each cell comes out of a cipher, they are those that one of the
\* saves U put in, from the first one on.
LEMMA Recovered ==
    ASSUME NEW U, NEW cells, NEW cipher, NEW key, NEW iv, Owned(U, cells, cipher, key, iv),
           NEW n \in 1 .. Len(cells), \A i \in 1 .. n : Recovers(cipher, key, iv, cells, i)
    PROVE  OwnPayload(U, cells, cipher, key, n)
<1> SUFFICES \E u \in U :
              /\ u.outer = cipher /\ FileMaster(u) = key /\ iv = <<"iv", u.n>>
              /\ n <= Len(WithPadding(u.outer, FilePayload(u)))
              /\ \A i \in 1 .. n : /\ cells[i] = Secret(u)[i]
                                   /\ cells[i][4] = WithPadding(u.outer, FilePayload(u))[i]
  BY DEF OwnPayload
<1>a. /\ \A u \in U : IsSave(u)
      /\ \A u, v \in U : FileMaster(u) = FileMaster(v) => u = v
      /\ IsSeq(cells) /\ iv[1] \notin {"cbc", "stream"}
      /\ \A i \in 1 .. Len(cells) :
           (cells[i][1] \in {"cbc", "stream"} /\ cells[i][2] = <<cipher, key>>) =>
              \E u \in U : cells[i] \in Range(Secret(u))
  BY DEF Owned
<1> USE <1>a
<1> DEFINE P(u) == WithPadding(u.outer, FilePayload(u))
<1>0. Len(cells) \in Nat
  BY SeqIs
<1>1. ASSUME NEW i \in 1 .. n
      PROVE  \E u \in U : \E j \in 1 .. Len(P(u)) :
                /\ cells[i] = Secret(u)[j] /\ u.outer = cipher /\ FileMaster(u) = key
  <2>1. cells[i][1] \in {"cbc", "stream"} /\ cells[i][2] = <<cipher, key>> /\ i \in 1 .. Len(cells)
    BY <1>0 DEF Recovers
  <2>2. PICK u \in U : cells[i] \in Range(Secret(u))
    BY <2>1
  <2>3. PICK j \in 1 .. Len(P(u)) : cells[i] = Secret(u)[j]
    BY <2>2, SecretCells
  <2>4. cells[i][2] = <<u.outer, FileMaster(u)>>
    <3>1. IsSave(u) /\ P(u) = WithPadding(u.outer, FilePayload(u)) /\ Secret(u) = Secret(u)
      BY <2>2
    <3>2. Secret(u)[j][2] = <<u.outer, FileMaster(u)>>
      <4> DEFINE E == Secret(u)
                 Q == WithPadding(u.outer, FilePayload(u))
                 m == <<u.outer, FileMaster(u)>>
      <4> SUFFICES E[j][2] = m
        OBVIOUS
      <4>1. /\ IsSave(u) /\ Q = WithPadding(u.outer, FilePayload(u)) /\ E = Secret(u)
            /\ m = <<u.outer, FileMaster(u)>> /\ j \in 1 .. Len(Q)
        BY <2>2, <2>3
      <4> HIDE DEF E, Q, m
      <4> QED  BY <4>1, CipherCellKey
    <3> QED  BY <2>3, <3>2
  <2>5. u.outer = cipher /\ FileMaster(u) = key
    BY <2>1, <2>4
  <2> QED  BY <2>2, <2>3, <2>5
<1>2. PICK u \in U : \E j \in 1 .. Len(P(u)) :
         /\ cells[1] = Secret(u)[j] /\ u.outer = cipher /\ FileMaster(u) = key
  <2>1. 1 \in 1 .. n
    BY <1>0
  <2> QED  BY <1>1, <2>1
<1> DEFINE E == Secret(u)
           Q == P(u)
<1>3. ASSUME NEW i \in 1 .. n
      PROVE  \E j \in 1 .. Len(Q) : cells[i] = E[j]
  <2>1. PICK v \in U : \E j \in 1 .. Len(P(v)) :
            /\ cells[i] = Secret(v)[j] /\ v.outer = cipher /\ FileMaster(v) = key
    BY <1>1
  <2>2. v = u
    BY <1>2, <2>1
  <2> QED  BY <2>1, <2>2
<1>4. /\ IsSeq(Q) /\ Len(Q) \in Nat /\ u.outer = cipher
      /\ \A k \in 1 .. Len(Q) :
           /\ E[k][1] = (IF Chains(cipher) THEN "cbc" ELSE "stream")
           /\ E[k][3] = IF ~ Chains(cipher) THEN <<<<"iv", u.n>>, k>>
                        ELSE IF k = 1 THEN <<"iv", u.n>> ELSE E[k - 1]
           /\ E[k][4] = Q[k]
  <2>1. IsSeq(Q) /\ Len(Q) \in Nat
    BY SecretIs, SeqIs
  <2>2. u.outer = cipher
    BY <1>2
  <2>3. IsSave(u) /\ Q = WithPadding(u.outer, FilePayload(u)) /\ E = Secret(u)
    OBVIOUS
  <2> HIDE DEF E, Q
  <2>4. \A k \in 1 .. Len(Q) : CellOf(u, Q, E, k)
    BY <2>3, CipherCellIs
  <2> QED  BY <2>1, <2>2, <2>4 DEF CellOf
<1>5. \A i, j \in 1 .. Len(Q) : E[i] = E[j] => i = j
  BY CellsDiffer
<1> HIDE DEF E, Q, P
<1>6. \A i \in 1 .. n : cells[i][3] = Before(cipher, iv, cells, i)
  BY DEF Recovers
<1>7. 1 \in 1 .. n /\ 1 <= Len(Q) /\ cells[1] = E[1] /\ iv = <<"iv", u.n>>
  <2>0. 1 \in 1 .. n
    BY <1>0
  <2>1. PICK j \in 1 .. Len(Q) : cells[1] = E[j]
    BY <1>3, <2>0
  <2>2. CASE ~ Chains(cipher)
    <3>1. <<iv, 1>> = <<<<"iv", u.n>>, j>>
      BY <1>4, <1>6, <2>0, <2>1, <2>2 DEF Before
    <3>2. j = 1 /\ iv = <<"iv", u.n>>
      BY <3>1
    <3> QED  BY <1>4, <2>0, <2>1, <3>2
  <2>3. CASE Chains(cipher)
    <3>1. iv = IF j = 1 THEN <<"iv", u.n>> ELSE E[j - 1]
      BY <1>4, <1>6, <2>0, <2>1, <2>3 DEF Before
    <3>2. j = 1
      <4>1. SUFFICES ASSUME j # 1 PROVE FALSE
        OBVIOUS
      <4>2. j - 1 \in 1 .. Len(Q) /\ iv = E[j - 1]
        BY <1>4, <3>1, <4>1
      <4> QED  BY <1>4, <4>2
    <3> QED  BY <1>4, <2>0, <2>1, <3>1, <3>2
  <2> QED  BY <2>2, <2>3
<1> DEFINE S == {k \in Nat : k + 1 <= n => k + 1 <= Len(Q) /\ cells[k + 1] = E[k + 1]}
<1>8. 0 \in S
  BY <1>7
<1>9. ASSUME NEW k \in Nat, k \in S PROVE k + 1 \in S
  <2> SUFFICES ASSUME k + 2 <= n PROVE k + 2 <= Len(Q) /\ cells[k + 2] = E[k + 2]
    OBVIOUS
  <2>1. k + 1 <= Len(Q) /\ cells[k + 1] = E[k + 1]
    BY <1>0, <1>9
  <2>2. k + 2 \in 1 .. n /\ k + 2 # 1 /\ (k + 2) - 1 = k + 1
    BY <1>0
  <2>3. PICK j \in 1 .. Len(Q) : cells[k + 2] = E[j]
    BY <1>3, <2>2
  <2>4. CASE ~ Chains(cipher)
    <3>1. <<iv, k + 2>> = <<<<"iv", u.n>>, j>>
      BY <1>4, <1>6, <2>2, <2>3, <2>4 DEF Before
    <3>2. j = k + 2
      BY <3>1
    <3> QED  BY <1>4, <2>3, <3>2
  <2>5. CASE Chains(cipher)
    <3>1. cells[k + 2][3] = cells[k + 1]
      BY <1>6, <2>2, <2>5 DEF Before
    <3>2. j # 1
      <4>1. SUFFICES ASSUME j = 1 PROVE FALSE
        OBVIOUS
      <4>2. cells[k + 1] = <<"iv", u.n>>
        BY <1>4, <2>3, <2>5, <3>1, <4>1
      <4>3. k + 1 \in 1 .. Len(Q)
        BY <1>4, <2>1
      <4>4. cells[k + 1][1] = "cbc"
        BY <1>4, <2>1, <2>5, <4>3
      <4> QED  BY <4>2, <4>4
    <3>3. j - 1 \in 1 .. Len(Q) /\ k + 1 \in 1 .. Len(Q) /\ E[j - 1] = E[k + 1]
      <4>1. E[j][3] = E[j - 1]
        BY <1>4, <2>5, <3>2
      <4> QED  BY <1>4, <2>1, <2>3, <3>1, <3>2, <4>1
    <3>4. j - 1 = k + 1
      BY <1>5, <3>3
    <3>5. j = k + 2
      BY <1>4, <3>4
    <3> QED  BY <1>4, <2>3, <3>5
  <2> QED  BY <2>4, <2>5
<1> HIDE DEF S
<1>10. ASSUME NEW i \in 1 .. n PROVE i <= Len(Q) /\ cells[i] = E[i]
  <2>1. i - 1 \in Nat /\ (i - 1) + 1 = i /\ i <= n
    BY <1>0
  <2>2. i - 1 \in S
    BY <1>8, <1>9, <2>1, NumbersInduction
  <2> QED  BY <2>1, <2>2 DEF S
<1>11. n \in 1 .. n
  BY <1>0
<1>12. ASSUME NEW i \in 1 .. n PROVE cells[i] = E[i] /\ cells[i][4] = Q[i]
  <2>1. i \in 1 .. Len(Q)
    BY <1>0, <1>4, <1>10
  <2> QED  BY <1>4, <1>10, <2>1
<1> QED  BY <1>2, <1>7, <1>10, <1>11, <1>12 DEF E, Q, P

=============================================================================
