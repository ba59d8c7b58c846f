----------------------------- MODULE MergeProofs ------------------------------
(***************************************************************************)
(* The invariants of Merge, and the properties that follow from them.      *)
(*                                                                         *)
(* First what every edit of a copy and every pass of the merge makes of it,*)
(* from the definitions: a copy stays well formed (its groups are one      *)
(* tree, its entries are in one group each), the histories of an entry of  *)
(* both copies are merged without a loss, and what a pass changes is no    *)
(* more than it says.  The recursion of merge_history is over two lengths: *)
(* NumbersInduction, proved for sets, gives that the recursive function    *)
(* exists and, by the sum of the lengths, what it returns.                 *)
(*                                                                         *)
(* Then the invariants.  TreeInv says that both copies are well formed and *)
(* that what the passes still have to do is about groups and entries that  *)
(* are there.  Under it, every step is one of those of StepsAre, which say *)
(* what a step changes in the few words the other invariants need; these   *)
(* are proved apart, each for the part of the state it speaks of.          *)
(***************************************************************************)
EXTENDS Merge, DatabaseTypesProofs, SequenceTheorems

----------------------------------------------------------------------------
(* Sorting a history.                                                      *)

Before(h, i, j) == h[i].mtime < h[j].mtime \/ (h[i].mtime = h[j].mtime /\ i < j)

Place(h, j) == 1 + Cardinality({i \in DOMAIN h : Before(h, i, j)})

\* Before is a strict order of all positions, so the place of each is another
\* one, and every place from 1 to the length is taken.
LEMMA PlacesAreTaken ==
    ASSUME NEW h \in Seq(Versions)
    PROVE  /\ \A k \in DOMAIN h : \E j \in DOMAIN h : Place(h, j) = k
           /\ \A i, j \in DOMAIN h : Place(h, i) = Place(h, j) => i = j
           /\ \A j \in DOMAIN h : Place(h, j) \in DOMAIN h
           /\ \A i, j \in DOMAIN h : Before(h, i, j) => Place(h, i) < Place(h, j)
<1> DEFINE D == DOMAIN h
           n == Len(h)
           B(j) == {i \in D : Before(h, i, j)}
<1>1. D = 1 .. n /\ n \in Nat /\ IsFiniteSet(D) /\ Cardinality(D) = n
  <2>1. D = 1 .. n /\ n \in Nat
    OBVIOUS
  <2>2. IsFiniteSet(1 .. n) /\ Cardinality(1 .. n) = n
    BY <2>1, FS_Interval
  <2> QED  BY <2>1, <2>2
<1>2. \A i \in D : h[i].mtime \in Nat /\ i \in Nat
  <2>1. \A i \in D : h[i] \in Versions /\ i \in Nat
    OBVIOUS
  <2> HIDE DEF D
  <2> QED  BY <2>1 DEF Versions, Times
<1>3. \A i, j, k \in D : Before(h, i, j) /\ Before(h, j, k) => Before(h, i, k)
  BY <1>2 DEF Before
<1>4. \A i, j \in D : Before(h, i, j) \/ Before(h, j, i) \/ i = j
  BY <1>2 DEF Before
<1>5. \A i \in D : ~ Before(h, i, i)
  BY <1>2 DEF Before
<1> HIDE DEF D, n
<1>6. ASSUME NEW j \in D
      PROVE  IsFiniteSet(B(j)) /\ Cardinality(B(j)) \in Nat /\ Cardinality(B(j)) < n
  <2>1. B(j) \subseteq D \ {j}
    BY <1>5
  <2>2. IsFiniteSet(D \ {j}) /\ Cardinality(D \ {j}) = n - 1
    <3>1. /\ IsFiniteSet(D \ {j})
          /\ Cardinality(D \ {j}) = IF j \in D THEN Cardinality(D) - 1 ELSE Cardinality(D)
      BY <1>1, FS_RemoveElement
    <3> QED  BY <1>1, <3>1
  <2> HIDE DEF B
  <2>3. IsFiniteSet(B(j)) /\ Cardinality(B(j)) <= Cardinality(D \ {j})
    BY <2>1, <2>2, FS_Subset
  <2> QED  BY <1>1, <2>2, <2>3, FS_CardinalityType
<1>7. ASSUME NEW i \in D, NEW j \in D, Before(h, i, j)
      PROVE  Cardinality(B(i)) < Cardinality(B(j))
  <2>1. B(i) \cup {i} \subseteq B(j) /\ i \notin B(i)
    BY <1>3, <1>5, <1>7
  <2>2. IsFiniteSet(B(i)) /\ IsFiniteSet(B(j)) /\ Cardinality(B(i)) \in Nat
    BY <1>6
  <2> HIDE DEF B
  <2>3. /\ IsFiniteSet(B(i) \cup {i})
        /\ Cardinality(B(i) \cup {i}) = IF i \in B(i) THEN Cardinality(B(i)) ELSE Cardinality(B(i)) + 1
    BY <2>2, FS_AddElement
  <2>4. Cardinality(B(i) \cup {i}) <= Cardinality(B(j))
    BY <2>1, <2>2, FS_Subset
  <2>5. Cardinality(B(j)) \in Nat
    BY <1>6
  <2> QED  BY <2>1, <2>2, <2>3, <2>4, <2>5
<1>8. \A j \in D : Place(h, j) = 1 + Cardinality(B(j))
  BY DEF Place, D
<1> HIDE DEF B
<1>9. \A j \in D : Place(h, j) \in D
  BY <1>1, <1>6, <1>8
<1>10. \A i, j \in D : Before(h, i, j) => Place(h, i) < Place(h, j)
  BY <1>6, <1>7, <1>8
<1>11. \A i, j \in D : Place(h, i) = Place(h, j) => i = j
  <2> SUFFICES ASSUME NEW i \in D, NEW j \in D, Place(h, i) = Place(h, j), i # j
               PROVE  FALSE
    OBVIOUS
  <2>1. Place(h, i) \in Nat /\ Place(h, j) \in Nat
    BY <1>1, <1>9
  <2> QED  BY <1>4, <1>10, <2>1
<1>12. \A k \in D : \E j \in D : Place(h, j) = k
  <2> DEFINE f == [j \in D |-> Place(h, j)]
  <2>1. f \in Injection(D, D)
    BY <1>9, <1>11 DEF Injection, IsInjective
  <2> HIDE DEF f
  <2>2. f \in Surjection(D, D)
    BY <1>1, <2>1, FS_Injection
  <2> QED  BY <2>2 DEF Surjection, f
<1> QED  BY <1>9, <1>10, <1>11, <1>12 DEF D

\* ByTime puts every version of a history somewhere, and nothing else.
LEMMA ByTimeSorts ==
    ASSUME NEW h \in Seq(Versions)
    PROVE  /\ ByTime(h) \in Seq(Versions)
           /\ \A k \in DOMAIN ByTime(h) : \E j \in DOMAIN h : ByTime(h)[k] = h[j]
           /\ \A j \in DOMAIN h : \E k \in DOMAIN ByTime(h) : ByTime(h)[k] = h[j]
<1> DEFINE at(k) == CHOOSE j \in DOMAIN h : Place(h, j) = k
<1>1. ByTime(h) = [k \in DOMAIN h |-> h[at(k)]]
  BY DEF ByTime, Place, Before
<1>2. \A k \in DOMAIN h : at(k) \in DOMAIN h /\ Place(h, at(k)) = k
  BY PlacesAreTaken
<1>3. \A j \in DOMAIN h : Place(h, j) \in DOMAIN h /\ at(Place(h, j)) = j
  BY <1>2, PlacesAreTaken
<1> HIDE DEF at
<1>4. DOMAIN h = 1 .. Len(h) /\ Len(h) \in Nat /\ \A j \in DOMAIN h : h[j] \in Versions
  OBVIOUS
<1>5. ByTime(h) \in [1 .. Len(h) -> Versions] /\ DOMAIN ByTime(h) = DOMAIN h
  BY <1>1, <1>2, <1>4
<1>6. ByTime(h) \in Seq(Versions)
  BY <1>4, <1>5
<1>7. \A k \in DOMAIN h : ByTime(h)[k] = h[at(k)]
  BY <1>1
<1> QED  BY <1>2, <1>3, <1>5, <1>6, <1>7

----------------------------------------------------------------------------
(* Merging two histories: `newest` of MergedHistory is a recursive function. *)

NewestOf(f, ours, theirs, i, j) ==
    IF i = 0 /\ j = 0 THEN <<>>
    ELSE IF j = 0 \/ (i > 0 /\ ours[i].mtime > theirs[j].mtime)
      THEN <<ours[i]>> \o f[<<i - 1, j>>]
    ELSE IF i = 0 \/ theirs[j].mtime > ours[i].mtime
      THEN <<theirs[j]>> \o f[<<i, j - 1>>]
    ELSE (IF Diverged(ours[i], theirs[j]) THEN <<ours[i], theirs[j]>> ELSE <<ours[i]>>)
            \o f[<<i - 1, j - 1>>]

Positions(ours, theirs) == (0 .. Len(ours)) \X (0 .. Len(theirs))

IsNewest(f, ours, theirs) ==
    f = [p \in Positions(ours, theirs) |-> NewestOf(f, ours, theirs, p[1], p[2])]

\* MergedHistory is what any function that satisfies its recursion gives for the
\* whole of both histories.
LEMMA MergedByNewest ==
    ASSUME NEW hd, NEW hs,
           \E f : IsNewest(f, ByTime(hd), ByTime(hs))
    PROVE  \E f : /\ IsNewest(f, ByTime(hd), ByTime(hs))
                  /\ MergedHistory(hd, hs) = f[<<Len(ByTime(hd)), Len(ByTime(hs))>>]
<1> DEFINE f == CHOOSE g : IsNewest(g, ByTime(hd), ByTime(hs))
<1>1. IsNewest(f, ByTime(hd), ByTime(hs))
  OBVIOUS
<1>2. MergedHistory(hd, hs) = f[<<Len(ByTime(hd)), Len(ByTime(hs))>>]
  BY DEF MergedHistory, IsNewest, NewestOf, Positions
<1> QED  BY <1>1, <1>2

\* Two versions in front are one in front of the other.
LEMMA PairIsConcat ==
    ASSUME NEW S, NEW v \in S, NEW w \in S
    PROVE  <<v>> \o <<w>> = <<v, w>>
<1>1. <<v>> \in Seq(S) /\ <<w>> \in Seq(S) /\ <<v, w>> \in Seq(S)
  OBVIOUS
<1>2. /\ Len(<<v>>) = 1 /\ Len(<<w>>) = 1 /\ Len(<<v, w>>) = 2
      /\ <<v>>[1] = v /\ <<w>>[1] = w /\ <<v, w>>[1] = v /\ <<v, w>>[2] = w
  OBVIOUS
<1>3. /\ <<v>> \o <<w>> \in Seq(S) /\ Len(<<v>> \o <<w>>) = 2
      /\ \A k \in 1 .. 2 : (<<v>> \o <<w>>)[k] = <<v, w>>[k]
  BY <1>1, <1>2, ConcatProperties
<1> QED  BY <1>1, <1>2, <1>3, SeqEqual

\* A version v in front of the sequence s
LEMMA OneInFront ==
    ASSUME NEW v \in Versions, NEW s \in Seq(Versions)
    PROVE  /\ <<v>> \o s \in Seq(Versions)
           /\ Len(<<v>> \o s) = 1 + Len(s)
           /\ (<<v>> \o s)[1] = v
           /\ \A k \in DOMAIN s : (<<v>> \o s)[k + 1] = s[k] /\ k + 1 \in DOMAIN (<<v>> \o s)
           /\ \A k \in DOMAIN (<<v>> \o s) : k = 1 \/ (k - 1 \in DOMAIN s /\ (<<v>> \o s)[k] = s[k - 1])
           /\ 1 \in DOMAIN (<<v>> \o s)
<1> DEFINE t == <<v>> \o s
<1>1. <<v>> \in Seq(Versions) /\ Len(<<v>>) = 1 /\ <<v>>[1] = v
  OBVIOUS
<1>2. /\ t \in Seq(Versions) /\ Len(t) = 1 + Len(s)
      /\ \A k \in 1 .. 1 + Len(s) : t[k] = IF k <= 1 THEN <<v>>[k] ELSE s[k - 1]
  BY <1>1, ConcatProperties
<1> HIDE DEF t
<1>3. Len(s) \in Nat /\ DOMAIN s = 1 .. Len(s) /\ DOMAIN t = 1 .. 1 + Len(s)
  BY <1>2
<1>4. \A k \in DOMAIN s : k + 1 \in DOMAIN t /\ t[k + 1] = s[k]
  BY <1>2, <1>3
<1>5. \A k \in DOMAIN t : k = 1 \/ (k - 1 \in DOMAIN s /\ t[k] = s[k - 1])
  BY <1>2, <1>3
<1> QED  BY <1>1, <1>2, <1>3, <1>4, <1>5 DEF t

\* s is what merging the first i of ours and the first j of theirs should be:
\* nothing else is in it, all of ours is, and of theirs at least an equal.
Merges(s, ours, theirs, i, j) ==
    /\ s \in Seq(Versions)
    /\ \A k \in DOMAIN s : (\E a \in 1 .. i : s[k] = ours[a]) \/ (\E b \in 1 .. j : s[k] = theirs[b])
    /\ \A a \in 1 .. i : \E k \in DOMAIN s : s[k] = ours[a]
    /\ \A b \in 1 .. j : \E k \in DOMAIN s : ~ Diverged(s[k], theirs[b])

\* v goes in front, and is the i-th of ours or the j-th of theirs.
LEMMA InFront ==
    ASSUME NEW ours, NEW theirs, NEW s, NEW v \in Versions, NEW i, NEW j, NEW i0, NEW j0,
           Merges(s, ours, theirs, i0, j0),
           1 .. i0 \subseteq 1 .. i, 1 .. j0 \subseteq 1 .. j,
           (\E a \in 1 .. i : v = ours[a]) \/ (\E b \in 1 .. j : v = theirs[b]),
           \A a \in (1 .. i) \ (1 .. i0) : v = ours[a],
           \A b \in (1 .. j) \ (1 .. j0) : ~ Diverged(v, theirs[b])
    PROVE  Merges(<<v>> \o s, ours, theirs, i, j)
<1> DEFINE t == <<v>> \o s
<1>1. s \in Seq(Versions)
  BY DEF Merges
<1>2. /\ t \in Seq(Versions) /\ t[1] = v /\ 1 \in DOMAIN t
      /\ \A k \in DOMAIN s : t[k + 1] = s[k] /\ k + 1 \in DOMAIN t
      /\ \A k \in DOMAIN t : k = 1 \/ (k - 1 \in DOMAIN s /\ t[k] = s[k - 1])
  BY <1>1, OneInFront
<1> HIDE DEF t
<1>3. ASSUME NEW k \in DOMAIN t
      PROVE  (\E a \in 1 .. i : t[k] = ours[a]) \/ (\E b \in 1 .. j : t[k] = theirs[b])
  <2>1. CASE k = 1
    BY <1>2, <2>1
  <2>2. CASE k # 1
    <3>1. k - 1 \in DOMAIN s /\ t[k] = s[k - 1]
      BY <1>2, <2>2
    <3>2. \/ \E a \in 1 .. i0 : s[k - 1] = ours[a]
          \/ \E b \in 1 .. j0 : s[k - 1] = theirs[b]
      BY <3>1 DEF Merges
    <3> QED  BY <3>1, <3>2
  <2> QED  BY <2>1, <2>2
<1>4. ASSUME NEW a \in 1 .. i
      PROVE  \E k \in DOMAIN t : t[k] = ours[a]
  <2>1. CASE a \in 1 .. i0
    <3>1. PICK k \in DOMAIN s : s[k] = ours[a]
      BY <2>1 DEF Merges
    <3>2. t[k + 1] = ours[a] /\ k + 1 \in DOMAIN t
      BY <1>2, <3>1
    <3> QED  BY <3>2
  <2>2. CASE a \notin 1 .. i0
    BY <1>2, <2>2
  <2> QED  BY <2>1, <2>2
<1>5. ASSUME NEW b \in 1 .. j
      PROVE  \E k \in DOMAIN t : ~ Diverged(t[k], theirs[b])
  <2>1. CASE b \in 1 .. j0
    <3>1. PICK k \in DOMAIN s : ~ Diverged(s[k], theirs[b])
      BY <2>1 DEF Merges
    <3>2. t[k + 1] = s[k] /\ k + 1 \in DOMAIN t
      BY <1>2
    <3> QED  BY <3>1, <3>2
  <2>2. CASE b \notin 1 .. j0
    BY <1>2, <2>2
  <2> QED  BY <2>1, <2>2
<1>6. Merges(t, ours, theirs, i, j)
  BY <1>2, <1>3, <1>4, <1>5 DEF Merges
<1> QED  BY <1>6 DEF t

\* Our i-th version in front of a merge of those before it
LEMMA OursInFront ==
    ASSUME NEW ours \in Seq(Versions), NEW theirs, NEW i \in DOMAIN ours, NEW j \in Nat,
           NEW s, Merges(s, ours, theirs, i - 1, j)
    PROVE  Merges(<<ours[i]>> \o s, ours, theirs, i, j)
<1>1. ours[i] \in Versions /\ i \in Nat /\ i \in 1 .. i
  OBVIOUS
<1>2. 1 .. i - 1 \subseteq 1 .. i /\ \A a \in (1 .. i) \ (1 .. i - 1) : a = i
  BY <1>1
<1>3. \E a \in 1 .. i : ours[i] = ours[a]
  BY <1>1
<1>4. \A a \in (1 .. i) \ (1 .. i - 1) : ours[i] = ours[a]
  BY <1>2
<1> QED  BY <1>1, <1>2, <1>3, <1>4, InFront

\* Their j-th version in front of a merge of those before it
LEMMA TheirsInFront ==
    ASSUME NEW ours, NEW theirs \in Seq(Versions), NEW i \in Nat, NEW j \in DOMAIN theirs,
           NEW s, Merges(s, ours, theirs, i, j - 1)
    PROVE  Merges(<<theirs[j]>> \o s, ours, theirs, i, j)
<1>1. theirs[j] \in Versions /\ j \in Nat /\ j \in 1 .. j
  OBVIOUS
<1>2. 1 .. j - 1 \subseteq 1 .. j /\ \A b \in (1 .. j) \ (1 .. j - 1) : b = j
  BY <1>1
<1>3. \E b \in 1 .. j : theirs[j] = theirs[b]
  BY <1>1
<1>4. ~ Diverged(theirs[j], theirs[j])
  BY DEF Diverged
<1>5. \A b \in (1 .. j) \ (1 .. j - 1) : ~ Diverged(theirs[j], theirs[b])
  BY <1>2, <1>4
<1> QED  BY <1>1, <1>2, <1>3, <1>5, InFront

\* Equal times: ours alone stands for an equal one of theirs.
LEMMA OursForBoth ==
    ASSUME NEW ours \in Seq(Versions), NEW theirs \in Seq(Versions),
           NEW i \in DOMAIN ours, NEW j \in DOMAIN theirs, ~ Diverged(ours[i], theirs[j]),
           NEW s, Merges(s, ours, theirs, i - 1, j - 1)
    PROVE  Merges(<<ours[i]>> \o s, ours, theirs, i, j)
<1> DEFINE t == <<ours[i]>> \o s
<1>1. Merges(t, ours, theirs, i, j - 1)
  BY OursInFront
<1>2. t[1] = ours[i] /\ 1 \in DOMAIN t
  <2>1. ours[i] \in Versions /\ s \in Seq(Versions)
    BY DEF Merges
  <2> QED  BY <2>1, OneInFront
<1> HIDE DEF t
<1>3. \A b \in 1 .. j : b = j \/ b \in 1 .. j - 1
  OBVIOUS
<1>4. \A b \in 1 .. j - 1 : b \in 1 .. j
  OBVIOUS
<1>5. Merges(t, ours, theirs, i, j)
  BY <1>1, <1>2, <1>3, <1>4 DEF Merges
<1> QED  BY <1>5 DEF t

\* Equal times and different versions: both, ours first.
LEMMA BothInFront ==
    ASSUME NEW ours \in Seq(Versions), NEW theirs \in Seq(Versions),
           NEW i \in DOMAIN ours, NEW j \in DOMAIN theirs,
           NEW s, Merges(s, ours, theirs, i - 1, j - 1)
    PROVE  Merges(<<ours[i], theirs[j]>> \o s, ours, theirs, i, j)
<1>1. ours[i] \in Versions /\ theirs[j] \in Versions /\ s \in Seq(Versions)
  BY DEF Merges
<1>2. i - 1 \in Nat /\ j \in Nat
  OBVIOUS
<1>3. Merges(<<theirs[j]>> \o s, ours, theirs, i - 1, j)
  BY <1>2, TheirsInFront
<1>4. Merges(<<ours[i]>> \o (<<theirs[j]>> \o s), ours, theirs, i, j)
  BY <1>2, <1>3, OursInFront
<1>5. <<ours[i]>> \o <<theirs[j]>> = <<ours[i], theirs[j]>>
  BY <1>1, PairIsConcat
<1>6. <<ours[i]>> \o (<<theirs[j]>> \o s) = (<<ours[i]>> \o <<theirs[j]>>) \o s
  <2> DEFINE v == <<ours[i]>>
             w == <<theirs[j]>>
  <2>1. v \in Seq(Versions) /\ w \in Seq(Versions) /\ s \in Seq(Versions)
    BY <1>1
  <2> HIDE DEF v, w
  <2> QED  BY <2>1, ConcatAssociative DEF v, w
<1> QED  BY <1>4, <1>5, <1>6

\* If the recursion merges all shorter pairs of histories, it merges the first i
\* and the first j versions.
LEMMA NewestStep ==
    ASSUME NEW ours \in Seq(Versions), NEW theirs \in Seq(Versions), NEW f,
           NEW i \in 0 .. Len(ours), NEW j \in 0 .. Len(theirs),
           \A a \in 0 .. Len(ours), b \in 0 .. Len(theirs) :
              a + b < i + j => Merges(f[<<a, b>>], ours, theirs, a, b)
    PROVE  Merges(NewestOf(f, ours, theirs, i, j), ours, theirs, i, j)
<1>0. /\ Len(ours) \in Nat /\ DOMAIN ours = 1 .. Len(ours)
      /\ Len(theirs) \in Nat /\ DOMAIN theirs = 1 .. Len(theirs)
      /\ i \in Nat /\ j \in Nat
  OBVIOUS
<1>1. i # 0 => i \in DOMAIN ours /\ i - 1 \in 0 .. Len(ours)
  BY <1>0
<1>2. j # 0 => j \in DOMAIN theirs /\ j - 1 \in 0 .. Len(theirs)
  BY <1>0
<1>3. i # 0 => Merges(f[<<i - 1, j>>], ours, theirs, i - 1, j)
  <2>1. (i - 1) + j < i + j
    BY <1>0
  <2> QED  BY <1>1, <2>1
<1>4. j # 0 => Merges(f[<<i, j - 1>>], ours, theirs, i, j - 1)
  <2>1. i + (j - 1) < i + j
    BY <1>0
  <2> QED  BY <1>2, <2>1
<1>5. i # 0 /\ j # 0 => Merges(f[<<i - 1, j - 1>>], ours, theirs, i - 1, j - 1)
  <2>1. (i - 1) + (j - 1) < i + j
    BY <1>0
  <2> QED  BY <1>1, <1>2, <2>1
<1> DEFINE later == ours[i].mtime > theirs[j].mtime
           sooner == theirs[j].mtime > ours[i].mtime
           t == NewestOf(f, ours, theirs, i, j)
<1>6. t = IF i = 0 /\ j = 0 THEN <<>>
          ELSE IF j = 0 \/ (i > 0 /\ later) THEN <<ours[i]>> \o f[<<i - 1, j>>]
          ELSE IF i = 0 \/ sooner THEN <<theirs[j]>> \o f[<<i, j - 1>>]
          ELSE (IF Diverged(ours[i], theirs[j]) THEN <<ours[i], theirs[j]>> ELSE <<ours[i]>>)
                  \o f[<<i - 1, j - 1>>]
  BY DEF NewestOf
<1> HIDE DEF later, sooner, t
<1>7. CASE i = 0 /\ j = 0
  <2>1. t = <<>>
    BY <1>6, <1>7
  <2>2. Merges(<<>>, ours, theirs, 0, 0)
    BY DEF Merges
  <2> QED  BY <1>7, <2>1, <2>2 DEF t
<1>8. CASE ~ (i = 0 /\ j = 0) /\ (j = 0 \/ (i > 0 /\ later))
  <2>1. i # 0 /\ t = <<ours[i]>> \o f[<<i - 1, j>>]
    <3>1. i # 0
      BY <1>0, <1>8
    <3> QED  BY <1>6, <1>8, <3>1
  <2>2. i \in DOMAIN ours /\ Merges(f[<<i - 1, j>>], ours, theirs, i - 1, j)
    BY <1>1, <1>3, <2>1
  <2>3. Merges(<<ours[i]>> \o f[<<i - 1, j>>], ours, theirs, i, j)
    BY <1>0, <2>2, OursInFront
  <2> QED  BY <2>1, <2>3 DEF t
<1>9. CASE j # 0 /\ ~ (i > 0 /\ later) /\ (i = 0 \/ sooner)
  <2>1. t = <<theirs[j]>> \o f[<<i, j - 1>>]
    BY <1>6, <1>9
  <2>2. j \in DOMAIN theirs /\ Merges(f[<<i, j - 1>>], ours, theirs, i, j - 1)
    BY <1>2, <1>4, <1>9
  <2>3. Merges(<<theirs[j]>> \o f[<<i, j - 1>>], ours, theirs, i, j)
    BY <1>0, <2>2, TheirsInFront
  <2> QED  BY <2>1, <2>3 DEF t
<1>10. CASE j # 0 /\ ~ (i > 0 /\ later) /\ ~ (i = 0 \/ sooner)
  <2>1. t = (IF Diverged(ours[i], theirs[j]) THEN <<ours[i], theirs[j]>> ELSE <<ours[i]>>)
               \o f[<<i - 1, j - 1>>]
    BY <1>6, <1>10
  <2>2. /\ i \in DOMAIN ours /\ j \in DOMAIN theirs
        /\ Merges(f[<<i - 1, j - 1>>], ours, theirs, i - 1, j - 1)
    BY <1>1, <1>2, <1>5, <1>10
  <2>3. CASE Diverged(ours[i], theirs[j])
    <3>1. Merges(<<ours[i], theirs[j]>> \o f[<<i - 1, j - 1>>], ours, theirs, i, j)
      BY <2>2, BothInFront
    <3> QED  BY <2>1, <2>3, <3>1 DEF t
  <2>4. CASE ~ Diverged(ours[i], theirs[j])
    <3>1. Merges(<<ours[i]>> \o f[<<i - 1, j - 1>>], ours, theirs, i, j)
      BY <2>2, <2>4, OursForBoth
    <3> QED  BY <2>1, <2>4, <3>1 DEF t
  <2> QED  BY <2>3, <2>4
<1> QED  BY <1>7, <1>8, <1>9, <1>10 DEF t

----------------------------------------------------------------------------
(* That function exists: it is filled in along the diagonals.              *)

\* f satisfies the recursion at all positions below the k-th diagonal
FilledTo(f, ours, theirs, k) ==
    \A i \in 0 .. Len(ours), j \in 0 .. Len(theirs) :
        i + j < k => f[<<i, j>>] = NewestOf(f, ours, theirs, i, j)

\* f and g are the same below the k-th diagonal
SameBelow(f, g, ours, theirs, k) ==
    \A a \in 0 .. Len(ours), b \in 0 .. Len(theirs) : a + b < k => f[<<a, b>>] = g[<<a, b>>]

\* The recursion looks at earlier diagonals only.
LEMMA NewestLooksBack ==
    \A ours, theirs \in Seq(Versions) : \A f, g, n :
        SameBelow(f, g, ours, theirs, n) =>
            \A i \in 0 .. Len(ours), j \in 0 .. Len(theirs) :
                n = i + j => NewestOf(f, ours, theirs, i, j) = NewestOf(g, ours, theirs, i, j)
<1> SUFFICES ASSUME NEW ours \in Seq(Versions), NEW theirs \in Seq(Versions), NEW f, NEW g, NEW n,
                    SameBelow(f, g, ours, theirs, n),
                    NEW i \in 0 .. Len(ours), NEW j \in 0 .. Len(theirs), n = i + j
             PROVE  NewestOf(f, ours, theirs, i, j) = NewestOf(g, ours, theirs, i, j)
  OBVIOUS
<1>0. Len(ours) \in Nat /\ Len(theirs) \in Nat /\ i \in Nat /\ j \in Nat
  OBVIOUS
<1>1. i # 0 => f[<<i - 1, j>>] = g[<<i - 1, j>>]
  <2>1. i # 0 => i - 1 \in 0 .. Len(ours) /\ (i - 1) + j < i + j
    BY <1>0
  <2> QED  BY <2>1 DEF SameBelow
<1>2. j # 0 => f[<<i, j - 1>>] = g[<<i, j - 1>>]
  <2>1. j # 0 => j - 1 \in 0 .. Len(theirs) /\ i + (j - 1) < i + j
    BY <1>0
  <2> QED  BY <2>1 DEF SameBelow
<1>3. i # 0 /\ j # 0 => f[<<i - 1, j - 1>>] = g[<<i - 1, j - 1>>]
  <2>1. i # 0 /\ j # 0 => /\ i - 1 \in 0 .. Len(ours) /\ j - 1 \in 0 .. Len(theirs)
                          /\ (i - 1) + (j - 1) < i + j
    BY <1>0
  <2> QED  BY <2>1 DEF SameBelow
<1>4. i > 0 <=> i # 0
  BY <1>0
<1> QED  BY <1>1, <1>2, <1>3, <1>4 DEF NewestOf

\* The recursion of MergedHistory has a solution.
LEMMA NewestExists ==
    ASSUME NEW ours \in Seq(Versions), NEW theirs \in Seq(Versions)
    PROVE  \E f : IsNewest(f, ours, theirs)
<1> DEFINE P == Positions(ours, theirs)
           S == {k \in Nat : \E f : FilledTo(f, ours, theirs, k)}
<1>0. Len(ours) \in Nat /\ Len(theirs) \in Nat
  OBVIOUS
<1>1. 0 \in S
  BY <1>0 DEF FilledTo
<1>2. ASSUME NEW k \in Nat, k \in S
      PROVE  k + 1 \in S
  <2>1. PICK f : FilledTo(f, ours, theirs, k)
    BY <1>2
  <2>2. PICK g : g = [p \in P |-> IF p[1] + p[2] < k THEN f[p] ELSE NewestOf(f, ours, theirs, p[1], p[2])]
    OBVIOUS
  <2>3. \A i \in 0 .. Len(ours), j \in 0 .. Len(theirs) :
           g[<<i, j>>] = IF i + j < k THEN f[<<i, j>>] ELSE NewestOf(f, ours, theirs, i, j)
    BY <2>2 DEF Positions
  <2>4. ASSUME NEW i \in 0 .. Len(ours), NEW j \in 0 .. Len(theirs), i + j < k + 1
        PROVE  g[<<i, j>>] = NewestOf(g, ours, theirs, i, j)
    <3>1. i \in Nat /\ j \in Nat
      BY <1>0
    <3>2. PICK n : n = i + j
      OBVIOUS
    <3>3. SameBelow(f, g, ours, theirs, n)
      <4> SUFFICES ASSUME NEW a \in 0 .. Len(ours), NEW b \in 0 .. Len(theirs), a + b < n
                   PROVE  f[<<a, b>>] = g[<<a, b>>]
        BY DEF SameBelow
      <4>1. a + b < k
        BY <1>0, <2>4, <3>1, <3>2
      <4> QED  BY <2>3, <4>1
    <3>4. NewestOf(f, ours, theirs, i, j) = NewestOf(g, ours, theirs, i, j)
      BY <3>2, <3>3, NewestLooksBack
    <3>5. g[<<i, j>>] = NewestOf(f, ours, theirs, i, j)
      BY <2>1, <2>3 DEF FilledTo
    <3> QED  BY <3>4, <3>5
  <2>5. FilledTo(g, ours, theirs, k + 1)
    BY <2>4 DEF FilledTo
  <2> QED  BY <2>5
<1>3. Nat \subseteq S
  <2> HIDE DEF S
  <2> QED  BY <1>1, <1>2, NumbersInduction
<1> DEFINE k == Len(ours) + Len(theirs) + 1
<1>4. PICK f : FilledTo(f, ours, theirs, k)
  BY <1>0, <1>3
<1>5. PICK g : g = [p \in P |-> NewestOf(f, ours, theirs, p[1], p[2])]
  OBVIOUS
<1>6. \A i \in 0 .. Len(ours), j \in 0 .. Len(theirs) : g[<<i, j>>] = NewestOf(f, ours, theirs, i, j)
  BY <1>5 DEF Positions
<1>7. \A i \in 0 .. Len(ours), j \in 0 .. Len(theirs) : g[<<i, j>>] = f[<<i, j>>]
  <2> SUFFICES ASSUME NEW i \in 0 .. Len(ours), NEW j \in 0 .. Len(theirs)
               PROVE  g[<<i, j>>] = f[<<i, j>>]
    OBVIOUS
  <2>1. i + j < k
    BY <1>0
  <2> QED  BY <1>4, <1>6, <2>1 DEF FilledTo
<1> HIDE DEF P, S, k
<1>8. ASSUME NEW i \in 0 .. Len(ours), NEW j \in 0 .. Len(theirs)
      PROVE  NewestOf(f, ours, theirs, i, j) = NewestOf(g, ours, theirs, i, j)
  <2>1. PICK n : n = i + j
    OBVIOUS
  <2>2. SameBelow(f, g, ours, theirs, n)
    BY <1>7 DEF SameBelow
  <2> QED  BY <2>1, <2>2, NewestLooksBack
<1>9. \A p \in P : p[1] \in 0 .. Len(ours) /\ p[2] \in 0 .. Len(theirs)
  BY DEF P, Positions
<1>10. g = [p \in P |-> NewestOf(g, ours, theirs, p[1], p[2])]
  BY <1>8, <1>9, <1>5
<1> QED  BY <1>10 DEF IsNewest, P

\* Every position holds the merge of what comes up to there.
LEMMA NewestMerges ==
    ASSUME NEW ours \in Seq(Versions), NEW theirs \in Seq(Versions), NEW f,
           IsNewest(f, ours, theirs)
    PROVE  Merges(f[<<Len(ours), Len(theirs)>>], ours, theirs, Len(ours), Len(theirs))
<1> DEFINE done(k) == \A i \in 0 .. Len(ours), j \in 0 .. Len(theirs) :
                         i + j < k => Merges(f[<<i, j>>], ours, theirs, i, j)
           S == {k \in Nat : done(k)}
<1>0. Len(ours) \in Nat /\ Len(theirs) \in Nat
  OBVIOUS
<1>1. \A i \in 0 .. Len(ours), j \in 0 .. Len(theirs) :
         f[<<i, j>>] = NewestOf(f, ours, theirs, i, j)
  <2> SUFFICES ASSUME NEW i \in 0 .. Len(ours), NEW j \in 0 .. Len(theirs)
               PROVE  f[<<i, j>>] = NewestOf(f, ours, theirs, i, j)
    OBVIOUS
  <2> DEFINE p == <<i, j>>
  <2>1. p \in Positions(ours, theirs) /\ p[1] = i /\ p[2] = j
    BY DEF Positions
  <2> HIDE DEF p
  <2>2. f[p] = NewestOf(f, ours, theirs, p[1], p[2])
    BY <2>1 DEF IsNewest
  <2> QED  BY <2>1, <2>2 DEF p
<1>2. 0 \in S
  BY <1>0
<1>3. ASSUME NEW k \in Nat, k \in S
      PROVE  k + 1 \in S
  <2>1. done(k)
    BY <1>3
  <2>2. ASSUME NEW i \in 0 .. Len(ours), NEW j \in 0 .. Len(theirs), i + j < k + 1
        PROVE  Merges(f[<<i, j>>], ours, theirs, i, j)
    <3>1. i \in Nat /\ j \in Nat
      BY <1>0
    <3>2. ASSUME NEW a \in 0 .. Len(ours), NEW b \in 0 .. Len(theirs), a + b < i + j
          PROVE  Merges(f[<<a, b>>], ours, theirs, a, b)
      <4>1. a + b < k
        BY <1>0, <2>2, <3>1, <3>2
      <4> QED  BY <2>1, <4>1
    <3>3. Merges(NewestOf(f, ours, theirs, i, j), ours, theirs, i, j)
      BY <3>2, NewestStep
    <3> QED  BY <1>1, <3>3
  <2>3. done(k + 1)
    BY <2>2
  <2> QED  BY <2>3
<1>4. Nat \subseteq S
  <2> HIDE DEF S
  <2> QED  BY <1>2, <1>3, NumbersInduction
<1>5. Len(ours) + Len(theirs) + 1 \in S
  BY <1>0, <1>4
<1>6. Len(ours) \in 0 .. Len(ours) /\ Len(theirs) \in 0 .. Len(theirs)
      /\ Len(ours) + Len(theirs) < Len(ours) + Len(theirs) + 1
  BY <1>0
<1> QED  BY <1>5, <1>6

\* merge_history loses no version of the destination and, up to its times, none
\* of the source, and makes none up.
THEOREM HistoriesMerge ==
    ASSUME NEW hd \in Seq(Versions), NEW hs \in Seq(Versions)
    PROVE  /\ MergedHistory(hd, hs) \in Seq(Versions)
           /\ \A k \in DOMAIN MergedHistory(hd, hs) :
                 \/ \E a \in DOMAIN hd : MergedHistory(hd, hs)[k] = hd[a]
                 \/ \E b \in DOMAIN hs : MergedHistory(hd, hs)[k] = hs[b]
           /\ \A a \in DOMAIN hd : \E k \in DOMAIN MergedHistory(hd, hs) :
                 MergedHistory(hd, hs)[k] = hd[a]
           /\ \A b \in DOMAIN hs : \E k \in DOMAIN MergedHistory(hd, hs) :
                 ~ Diverged(MergedHistory(hd, hs)[k], hs[b])
<1> DEFINE ours == ByTime(hd)
           theirs == ByTime(hs)
           h == MergedHistory(hd, hs)
<1>1. /\ ours \in Seq(Versions)
      /\ \A k \in DOMAIN ours : \E j \in DOMAIN hd : ours[k] = hd[j]
      /\ \A j \in DOMAIN hd : \E k \in DOMAIN ours : ours[k] = hd[j]
  BY ByTimeSorts
<1>2. /\ theirs \in Seq(Versions)
      /\ \A k \in DOMAIN theirs : \E j \in DOMAIN hs : theirs[k] = hs[j]
      /\ \A j \in DOMAIN hs : \E k \in DOMAIN theirs : theirs[k] = hs[j]
  BY ByTimeSorts
<1>3. Merges(h, ours, theirs, Len(ours), Len(theirs))
  <2>1. \E f : IsNewest(f, ours, theirs)
    BY <1>1, <1>2, NewestExists
  <2>2. PICK f : IsNewest(f, ours, theirs) /\ h = f[<<Len(ours), Len(theirs)>>]
    BY <2>1, MergedByNewest
  <2> QED  BY <1>1, <1>2, <2>2, NewestMerges
<1>4. DOMAIN ours = 1 .. Len(ours) /\ DOMAIN theirs = 1 .. Len(theirs)
  BY <1>1, <1>2
<1> HIDE DEF ours, theirs, h
<1>5. ASSUME NEW k \in DOMAIN h
      PROVE  (\E a \in DOMAIN hd : h[k] = hd[a]) \/ (\E b \in DOMAIN hs : h[k] = hs[b])
  <2>1. (\E a \in DOMAIN ours : h[k] = ours[a]) \/ (\E b \in DOMAIN theirs : h[k] = theirs[b])
    BY <1>3, <1>4 DEF Merges
  <2> QED  BY <1>1, <1>2, <2>1
<1>6. \A a \in DOMAIN hd : \E k \in DOMAIN h : h[k] = hd[a]
  BY <1>1, <1>3, <1>4 DEF Merges
<1>7. ASSUME NEW b \in DOMAIN hs
      PROVE  \E k \in DOMAIN h : ~ Diverged(h[k], hs[b])
  <2>1. PICK k \in DOMAIN theirs : theirs[k] = hs[b]
    BY <1>2
  <2> QED  BY <1>3, <1>4, <2>1 DEF Merges
<1>8. h \in Seq(Versions)
  BY <1>3 DEF Merges
<1> QED  BY <1>5, <1>6, <1>7, <1>8 DEF h

----------------------------------------------------------------------------
(* A well-formed copy.                                                     *)

Formed(d) ==
    /\ DOMAIN d = DOMAIN NewDatabase
    /\ IsMap(d.groups, GroupIds, Groups)
    /\ IsMap(d.entries, EntryIds, Lives)
    /\ IsMap(d.icons, IconIds, Icons)
    /\ IsMap(d.deleted, GroupIds \cup EntryIds \cup IconIds, Times)
    /\ IsTree(d.groups)
    /\ IsPlaced(d.groups, d.entries)

\* A change of the groups, the entries and the tombstones: x is d but for these.
Changed(d, x, gs, es, ds) ==
    /\ DOMAIN x = DOMAIN NewDatabase
    /\ x.groups = gs /\ x.entries = es /\ x.deleted = ds /\ x.icons = d.icons

\* A copy is well formed if the groups, entries and tombstones it got are.
LEMMA ChangedForm ==
    ASSUME NEW d, Formed(d), NEW gs, NEW es, NEW ds, NEW x, Changed(d, x, gs, es, ds),
           IsMap(gs, GroupIds, Groups), Agree(gs), Spans(gs),
           IsMap(es, EntryIds, Lives), IsPlaced(gs, es),
           IsMap(ds, GroupIds \cup EntryIds \cup IconIds, Times)
    PROVE  Formed(x)
BY TreeHolds DEF Formed, Changed

\* The fields of a database
LEMMA FieldsOf ==
    ASSUME NEW d, DOMAIN d = DOMAIN NewDatabase
    PROVE  DOMAIN d = {"groups", "entries", "attachments", "icons", "meta", "deleted"}
BY DEF NewDatabase

\* What Formed says, in the words of the lemmas about trees
LEMMA FormedParts ==
    ASSUME NEW d, Formed(d)
    PROVE  /\ DOMAIN d = {"groups", "entries", "attachments", "icons", "meta", "deleted"}
           /\ IsMap(d.groups, GroupIds, Groups) /\ Agree(d.groups) /\ Spans(d.groups)
           /\ \A g \in DOMAIN d.groups : d.groups[g] \in Groups /\ g \in GroupIds
           /\ IsMap(d.entries, EntryIds, Lives) /\ IsPlaced(d.groups, d.entries)
           /\ \A e \in DOMAIN d.entries : d.entries[e] \in Lives /\ Live(d.entries, e) \in Versions
           /\ IsMap(d.deleted, GroupIds \cup EntryIds \cup IconIds, Times)
           /\ IsMap(d.icons, IconIds, Icons)
<1>1. DOMAIN d = {"groups", "entries", "attachments", "icons", "meta", "deleted"}
  BY FieldsOf DEF Formed
<1>2. /\ IsMap(d.groups, GroupIds, Groups) /\ Agree(d.groups) /\ Spans(d.groups)
      /\ \A g \in DOMAIN d.groups : d.groups[g] \in Groups /\ g \in GroupIds
  BY TreeHolds DEF Formed, IsMap
<1>3. \A e \in DOMAIN d.entries : d.entries[e] \in Lives /\ Live(d.entries, e) \in Versions
  <2>1. \A e \in DOMAIN d.entries : d.entries[e] \in Lives
    BY DEF Formed, IsMap
  <2> QED  BY <2>1 DEF Lives, Live
<1> QED  BY <1>1, <1>2, <1>3 DEF Formed

\* History::add_entry after the live version was replaced
LEMMA RecordedType ==
    ASSUME NEW d, Formed(d), NEW e \in DOMAIN d.entries, NEW v \in Versions
    PROVE  /\ IsMap(Recorded(d, e, v), EntryIds, Lives)
           /\ DOMAIN Recorded(d, e, v) = DOMAIN d.entries
           /\ Live(Recorded(d, e, v), e) = v
           /\ Len(Recorded(d, e, v)[e]) > 1
           /\ \A k \in DOMAIN Recorded(d, e, v)[e] :
                 Recorded(d, e, v)[e][k] = v \/ \E i \in DOMAIN d.entries[e] : Recorded(d, e, v)[e][k] = d.entries[e][i]
           /\ \A c \in DOMAIN d.entries \ {e} : Recorded(d, e, v)[c] = d.entries[c]
<1> DEFINE vs == d.entries[e]
           ws == [vs EXCEPT ![1] = v]
           top == <<v, vs[1]>>
           rest == Tail(ws)
           rs == WithHistory(ws, vs[1])
<1>1. vs \in Seq(Versions) /\ vs # <<>> /\ vs[1] \in Versions
  BY FormedParts DEF Lives, Live
<1>2. /\ ws \in Seq(Versions) /\ ws # <<>> /\ Head(ws) = v
      /\ Len(Tail(ws)) = Len(vs) - 1 /\ Len(vs) \in Nat \ {0}
      /\ \A k \in 1 .. Len(vs) - 1 : Tail(ws)[k] = vs[k + 1] /\ k + 1 \in DOMAIN vs
  BY <1>1
<1>3. rest \in Seq(Versions) /\ Len(rest) = Len(vs) - 1
      /\ \A k \in 1 .. Len(vs) - 1 : rest[k] = vs[k + 1]
  BY <1>2
<1>4. top \in Seq(Versions) /\ Len(top) = 2 /\ top[1] = v /\ top[2] = vs[1]
  BY <1>1
<1>5. rs = top \o rest
  BY <1>2 DEF WithHistory
<1>6. Recorded(d, e, v) = [d.entries EXCEPT ![e] = rs]
  BY DEF Recorded
<1> HIDE DEF vs, ws, top, rest, rs
<1>7. /\ rs \in Seq(Versions) /\ Len(rs) = 2 + Len(rest)
      /\ \A k \in 1 .. 2 + Len(rest) : rs[k] = IF k <= 2 THEN top[k] ELSE rest[k - 2]
  <2>1. /\ top \o rest \in Seq(Versions) /\ Len(top \o rest) = Len(top) + Len(rest)
        /\ \A k \in 1 .. Len(top) + Len(rest) :
              (top \o rest)[k] = IF k <= Len(top) THEN top[k] ELSE rest[k - Len(top)]
    BY <1>3, <1>4, ConcatProperties
  <2> QED  BY <1>4, <1>5, <2>1
<1>8. rs \in Lives /\ Len(rs) > 1 /\ rs[1] = v
  BY <1>2, <1>3, <1>4, <1>7 DEF Lives
<1>9. \A k \in DOMAIN rs : rs[k] = v \/ \E i \in DOMAIN vs : rs[k] = vs[i]
  <2> SUFFICES ASSUME NEW k \in DOMAIN rs
               PROVE  rs[k] = v \/ \E i \in DOMAIN vs : rs[k] = vs[i]
    OBVIOUS
  <2>1. k \in Nat /\ k >= 1 /\ k <= 1 + Len(vs) /\ 1 \in DOMAIN vs
    BY <1>1, <1>2, <1>3, <1>7
  <2>2. k = 1 => rs[k] = v
    BY <1>8
  <2>3. k = 2 => rs[k] = vs[1]
    BY <1>4, <1>7, <2>1, <1>2
  <2>4. k > 2 => rs[k] = vs[k - 1] /\ k - 1 \in DOMAIN vs
    <3>1. k > 2 => k - 2 \in 1 .. Len(vs) - 1 /\ rs[k] = rest[k - 2]
      BY <1>2, <1>3, <1>7, <2>1
    <3> QED  BY <1>2, <1>3, <2>1, <3>1
  <2> QED  BY <2>1, <2>2, <2>3, <2>4
<1>10. \A c \in DOMAIN d.entries : d.entries[c] \in Lives /\ c \in EntryIds
  BY FormedParts DEF IsMap
<1>11. IsMap(Recorded(d, e, v), EntryIds, Lives)
  BY <1>6, <1>8, <1>10 DEF IsMap
<1> QED  BY <1>6, <1>8, <1>9, <1>11 DEF Live, vs

\* Burying: tombstones keep their type
LEMMA BuriedType ==
    ASSUME NEW ids, NEW m, IsMap(m, ids, Times), NEW f, IsMap(f, ids, Times)
    PROVE  IsMap([x \in DOMAIN m \cup DOMAIN f |-> IF x \in DOMAIN f THEN f[x] ELSE m[x]], ids, Times)
BY DEF IsMap

----------------------------------------------------------------------------
(* Groups that leave, with everything below them.                          *)

\* Without a child-closed set of groups that leaves the root, the groups are a
\* tree as before.
LEMMA RemovalTree ==
    ASSUME NEW gs, Agree(gs), Spans(gs), NEW S, S \subseteq DOMAIN gs \ {Root}, ChildClosed(gs, S),
           NEW hs, DOMAIN hs = DOMAIN gs \ S,
           \A x \in DOMAIN hs : hs[x].parent = gs[x].parent /\ hs[x].groups = gs[x].groups \ S
    PROVE  Agree(hs) /\ Spans(hs)
<1>1. ASSUME NEW x \in DOMAIN hs \ {Root}
      PROVE  hs[x].parent \in DOMAIN hs
  <2>1. gs[x].parent \in DOMAIN gs /\ x \in gs[gs[x].parent].groups
    BY DEF Agree
  <2>2. gs[x].parent \notin S
    BY <2>1 DEF ChildClosed
  <2> QED  BY <2>1, <2>2
<1>2. ASSUME NEW p \in DOMAIN hs
      PROVE  hs[p].groups = {x \in DOMAIN hs : hs[x].parent = p}
  <2>1. gs[p].groups = {x \in DOMAIN gs : gs[x].parent = p}
    BY DEF Agree
  <2> QED  BY <2>1
<1>3. Agree(hs)
  BY <1>1, <1>2 DEF Agree
<1>4. ASSUME NEW W \in SUBSET DOMAIN hs, Root \in W, ChildClosed(hs, W)
      PROVE  W = DOMAIN hs
  <2>1. ChildClosed(gs, W \cup S)
    BY <1>4 DEF ChildClosed
  <2>2. W \cup S = DOMAIN gs
    BY <1>4, <2>1 DEF Spans
  <2> QED  BY <2>2
<1> QED  BY <1>3, <1>4 DEF Spans

\* What Removed leaves of the groups
LEMMA RemovedFields ==
    ASSUME NEW d, Formed(d), NEW S, NEW E
    PROVE  /\ DOMAIN Removed(d, S, E) = DOMAIN NewDatabase
           /\ DOMAIN Removed(d, S, E).groups = DOMAIN d.groups \ S
           /\ \A x \in DOMAIN d.groups \ S :
                 /\ Removed(d, S, E).groups[x].parent = d.groups[x].parent
                 /\ Removed(d, S, E).groups[x].groups = d.groups[x].groups \ S
                 /\ Removed(d, S, E).groups[x].entries
                      = d.groups[x].entries \ {e \in E : Live(d.entries, e).parent = x}
                 /\ Removed(d, S, E).groups[x].icon = d.groups[x].icon
                 /\ Removed(d, S, E).groups[x].ltime = d.groups[x].ltime
                 /\ Removed(d, S, E).groups[x].mtime = d.groups[x].mtime
           /\ IsMap(Removed(d, S, E).groups, GroupIds, Groups)
           /\ Removed(d, S, E).entries = Without(d.entries, E)
           /\ Removed(d, S, E).icons = d.icons
           /\ Removed(d, S, E).deleted = d.deleted
           /\ Removed(d, S, E).meta = d.meta
<1> DEFINE kept == UnlistEntries(d.groups, d.entries, E)
           gs == [x \in DOMAIN kept \ S |-> [kept[x] EXCEPT !.groups = @ \ S]]
           r == Removed(d, S, E)
<1>0. DOMAIN d = DOMAIN NewDatabase
  BY DEF Formed
<1>1. DOMAIN d = {"groups", "entries", "attachments", "icons", "meta", "deleted"}
  BY FormedParts
<1>2. /\ DOMAIN r = DOMAIN d /\ r.groups = gs /\ r.entries = Without(d.entries, E)
      /\ r.icons = d.icons /\ r.deleted = d.deleted /\ r.meta = d.meta
  BY <1>1 DEF Removed
<1>3. IsMap(kept, GroupIds, Groups) /\ DOMAIN kept = DOMAIN d.groups
  <2>1. IsMap(d.groups, GroupIds, Groups)
    BY FormedParts
  <2>2. IsMap(kept, GroupIds, Groups)
    BY <2>1, UnlistType
  <2> QED  BY <2>2 DEF UnlistEntries
<1>4. ASSUME NEW x \in DOMAIN d.groups
      PROVE  /\ kept[x].entries = d.groups[x].entries \ {e \in E : Live(d.entries, e).parent = x}
             /\ kept[x].groups = d.groups[x].groups /\ kept[x].parent = d.groups[x].parent
             /\ kept[x].icon = d.groups[x].icon /\ kept[x].ltime = d.groups[x].ltime
             /\ kept[x].mtime = d.groups[x].mtime /\ kept[x] \in Groups
  <2> DEFINE listed == d.groups[x].entries \ {e \in E : Live(d.entries, e).parent = x}
             hint == IF d.groups[x].ltve \in E THEN None ELSE d.groups[x].ltve
  <2>1. d.groups[x] \in Groups
    BY FormedParts
  <2>2. kept[x] = [d.groups[x] EXCEPT !.entries = listed, !.ltve = hint]
    BY DEF UnlistEntries
  <2>3. kept[x] \in Groups
    BY <1>3 DEF IsMap
  <2> HIDE DEF listed, hint, kept
  <2>4. kept[x].entries = listed
    BY <2>1, <2>2 DEF Groups
  <2>5. /\ kept[x].groups = d.groups[x].groups /\ kept[x].parent = d.groups[x].parent
        /\ kept[x].icon = d.groups[x].icon /\ kept[x].ltime = d.groups[x].ltime
        /\ kept[x].mtime = d.groups[x].mtime
    BY <2>1, <2>2 DEF Groups
  <2> QED  BY <2>3, <2>4, <2>5 DEF listed
<1> HIDE DEF kept
<1>5. ASSUME NEW x \in DOMAIN d.groups \ S
      PROVE  /\ gs[x].parent = kept[x].parent /\ gs[x].groups = kept[x].groups \ S
             /\ gs[x].entries = kept[x].entries /\ gs[x].icon = kept[x].icon
             /\ gs[x].ltime = kept[x].ltime /\ gs[x].mtime = kept[x].mtime
             /\ gs[x] \in Groups
  <2>1. gs[x] = [kept[x] EXCEPT !.groups = @ \ S] /\ kept[x] \in Groups
    BY <1>3, <1>4
  <2> HIDE DEF gs
  <2> QED  BY <2>1 DEF Groups
<1>6. DOMAIN gs = DOMAIN d.groups \ S
  BY <1>3
<1> HIDE DEF gs
<1>7. IsMap(gs, GroupIds, Groups)
  <2>1. DOMAIN gs \subseteq GroupIds
    BY <1>3, <1>6 DEF IsMap
  <2>2. \A x \in DOMAIN gs : gs[x] \in Groups
    BY <1>5, <1>6
  <2>3. gs = [x \in DOMAIN gs |-> gs[x]]
    BY DEF gs
  <2> QED  BY <2>1, <2>2, <2>3 DEF IsMap
<1>8. DOMAIN r.groups = DOMAIN d.groups \ S
  BY <1>2, <1>6
<1>9. \A x \in DOMAIN d.groups \ S :
         /\ r.groups[x].parent = d.groups[x].parent
         /\ r.groups[x].groups = d.groups[x].groups \ S
         /\ r.groups[x].icon = d.groups[x].icon
         /\ r.groups[x].ltime = d.groups[x].ltime
         /\ r.groups[x].mtime = d.groups[x].mtime
  BY <1>2, <1>4, <1>5
<1>10. \A x \in DOMAIN d.groups \ S :
          r.groups[x].entries = d.groups[x].entries \ {e \in E : Live(d.entries, e).parent = x}
  BY <1>2, <1>4, <1>5
<1> HIDE DEF r
<1> QED  BY <1>0, <1>2, <1>7, <1>8, <1>9, <1>10 DEF r

\* A removal of whole subtrees and of at least the entries in them
LEMMA RemovedForm ==
    ASSUME NEW d, Formed(d), NEW S, S \subseteq DOMAIN d.groups \ {Root}, ChildClosed(d.groups, S),
           NEW E, E \subseteq DOMAIN d.entries, EntriesUnder(d.groups, S) \subseteq E
    PROVE  Formed(Removed(d, S, E))
<1> DEFINE x == Removed(d, S, E)
<1>1. /\ DOMAIN x = DOMAIN NewDatabase
      /\ DOMAIN x.groups = DOMAIN d.groups \ S
      /\ IsMap(x.groups, GroupIds, Groups)
      /\ x.entries = Without(d.entries, E) /\ x.icons = d.icons /\ x.deleted = d.deleted
      /\ \A g \in DOMAIN d.groups \ S :
            x.groups[g].parent = d.groups[g].parent /\ x.groups[g].groups = d.groups[g].groups \ S
  BY RemovedFields
<1>2. \A g \in DOMAIN d.groups \ S :
         x.groups[g].entries = d.groups[g].entries \ {e \in E : Live(d.entries, e).parent = g}
  BY RemovedFields
<1>3. /\ IsMap(d.groups, GroupIds, Groups) /\ Agree(d.groups) /\ Spans(d.groups)
      /\ IsMap(d.entries, EntryIds, Lives) /\ IsPlaced(d.groups, d.entries)
      /\ IsMap(d.deleted, GroupIds \cup EntryIds \cup IconIds, Times)
  BY FormedParts
<1> HIDE DEF x
<1>4. Agree(x.groups) /\ Spans(x.groups)
  BY <1>1, <1>3, RemovalTree
<1>5. \A e \in DOMAIN d.entries : Live(d.entries, e).parent \in S => e \in E
  <2>1. \A g \in S : d.groups[g].entries = {e \in DOMAIN d.entries : Live(d.entries, e).parent = g}
    BY <1>3 DEF IsPlaced
  <2> QED  BY <2>1 DEF EntriesUnder
<1>6. IsPlaced(x.groups, x.entries)
  <2> DEFINE gs == x.groups
  <2>1. /\ DOMAIN gs = DOMAIN d.groups \ S
        /\ \A g \in DOMAIN gs :
              gs[g].entries = d.groups[g].entries \ {e \in E : Live(d.entries, e).parent = g}
    BY <1>1, <1>2
  <2> HIDE DEF gs
  <2>2. IsPlaced(gs, Without(d.entries, E))
    BY <1>3, <1>5, <2>1, RemovalPlacement
  <2> QED  BY <1>1, <2>2 DEF gs
<1>7. IsMap(x.entries, EntryIds, Lives)
  BY <1>1, <1>3, WithoutType
<1>8. Formed(x)
  BY <1>1, <1>3, <1>4, <1>6, <1>7, ChangedForm DEF Changed
<1> QED  BY <1>8 DEF x

----------------------------------------------------------------------------
(* What an edit makes of a copy d: a well-formed x, and                    *)

IconsOf(d) == DOMAIN d.icons \cup BuiltIns \cup {None}

\* every icon shown exists, ...
Resolves(d) ==
    /\ IconMentions(d.groups, d.entries) \subseteq IconsOf(d)
    /\ Backreferenced(d.groups, d.icons)

\* ... new identifiers are new in both copies, and a changed entry has a history.
Grown(d, x) ==
    /\ DOMAIN x.entries \ DOMAIN d.entries \subseteq EntryIds \ (Known(dest) \cup Known(source))
    /\ \A e \in DOMAIN d.entries \cap DOMAIN x.entries :
          \/ Len(x.entries[e]) > 1
          \/ /\ Len(x.entries[e]) = Len(d.entries[e])
             /\ Live(x.entries, e).mtime = Live(d.entries, e).mtime
    /\ DOMAIN x.deleted \subseteq DOMAIN d.deleted \cup GroupIds \cup EntryIds
    /\ DOMAIN x.icons \ DOMAIN d.icons
          \subseteq IconIds \ (DOMAIN dest.icons \cup DOMAIN source.icons
                                 \cup DOMAIN dest.deleted \cup DOMAIN source.deleted)
    /\ IsFiniteSet(DOMAIN d.groups) => IsFiniteSet(DOMAIN x.groups)
    /\ IsFiniteSet(DOMAIN d.entries) => IsFiniteSet(DOMAIN x.entries)

EditOf(d, x) == Formed(x) /\ Grown(d, x) /\ (Resolves(d) => Resolves(x))

\* Resolves, group by group and version by version
LEMMA ResolvesParts ==
    ASSUME NEW d
    PROVE  Resolves(d) <=>
             /\ \A g \in DOMAIN d.groups : d.groups[g].icon \in IconsOf(d)
             /\ \A e \in DOMAIN d.entries : \A i \in DOMAIN d.entries[e] :
                   d.entries[e][i].icon \in IconsOf(d)
             /\ Backreferenced(d.groups, d.icons)
BY DEF Resolves, IconMentions, VersionsOf

\* Groups and versions that show what they did, or nothing
LEMMA ChangedResolves ==
    ASSUME NEW d, NEW gs, NEW es, NEW ds, NEW x, Changed(d, x, gs, es, ds),
           \A g \in DOMAIN gs : gs[g].icon = None \/ (g \in DOMAIN d.groups /\ gs[g].icon = d.groups[g].icon),
           \A e \in DOMAIN es : \A k \in DOMAIN es[e] :
              \/ es[e][k].icon = None
              \/ e \in DOMAIN d.entries /\ \E i \in DOMAIN d.entries[e] : es[e][k].icon = d.entries[e][i].icon,
           IsMap(d.icons, IconIds, Icons)
    PROVE  Resolves(d) => Resolves(x)
<1> SUFFICES ASSUME Resolves(d)
             PROVE  Resolves(x)
  OBVIOUS
<1>1. IconsOf(x) = IconsOf(d) /\ None \in IconsOf(d) /\ x.groups = gs /\ x.entries = es /\ x.icons = d.icons
  BY DEF Changed, IconsOf
<1>2. \A g \in DOMAIN gs : gs[g].icon \in IconsOf(d)
  BY <1>1, ResolvesParts
<1>3. \A e \in DOMAIN es : \A k \in DOMAIN es[e] : es[e][k].icon \in IconsOf(d)
  BY <1>1, ResolvesParts
<1>4. None \notin DOMAIN d.icons
  BY SentinelAssumption DEF IsMap
<1>5. Backreferenced(gs, d.icons)
  BY <1>4, ResolvesParts DEF Backreferenced
<1> QED  BY <1>1, <1>2, <1>3, <1>5, ResolvesParts

\* A set with one element more than a finite one is finite.
LEMMA OneMore ==
    ASSUME NEW S, NEW T, NEW y, S \subseteq T \cup {y}, IsFiniteSet(T)
    PROVE  IsFiniteSet(S)
<1>1. IsFiniteSet(T \cup {y})
  BY FS_AddElement
<1> QED  BY <1>1, FS_Subset

\* A change that keeps the entries that are there as they are
LEMMA ChangedGrown ==
    ASSUME NEW d, NEW gs, NEW es, NEW ds, NEW x, Changed(d, x, gs, es, ds),
           DOMAIN es \ DOMAIN d.entries \subseteq EntryIds \ (Known(dest) \cup Known(source)),
           \A e \in DOMAIN d.entries \cap DOMAIN es : es[e] = d.entries[e] \/ Len(es[e]) > 1,
           DOMAIN ds \subseteq DOMAIN d.deleted \cup GroupIds \cup EntryIds,
           NEW g, DOMAIN gs \subseteq DOMAIN d.groups \cup {g},
           NEW e, DOMAIN es \subseteq DOMAIN d.entries \cup {e}
    PROVE  Grown(d, x)
<1>1. x.groups = gs /\ x.entries = es /\ x.icons = d.icons /\ x.deleted = ds
  BY DEF Changed
<1>2. IsFiniteSet(DOMAIN d.groups) => IsFiniteSet(DOMAIN gs)
  BY OneMore
<1>3. IsFiniteSet(DOMAIN d.entries) => IsFiniteSet(DOMAIN es)
  BY OneMore
<1> QED  BY <1>1, <1>2, <1>3 DEF Grown, Live

\* A new entry has one version, and a place.
LEMMA NewVersionType ==
    ASSUME NEW p \in GroupIds, NEW t \in Times
    PROVE  <<NewVersion(p, t)>> \in Lives
<1>1. EmptyMap \in AttachmentMaps
  BY AttachmentMapType, EmptyMapType
<1>2. NewVersion(p, t) \in Versions
  BY <1>1, NoContentAssumption DEF NewVersion, Versions, IconValues
<1> QED  BY <1>2 DEF Lives

----------------------------------------------------------------------------
(* The edits of groups.                                                    *)

\* A new group is listed by its parent, and nobody knows its identifier.
LEMMA AddGroupEdit ==
    ASSUME NEW d, Formed(d), d = dest \/ d = source, NEW t \in Times, NEW x \in AddGroup(d, t)
    PROVE  EditOf(d, x)
<1>1. PICK p \in DOMAIN d.groups, g \in GroupIds \ (Known(dest) \cup Known(source)) :
         x = [d EXCEPT !.groups = AddGroupTo(@, p, g, t)]
  BY DEF AddGroup
<1> DEFINE gs == AddGroupTo(d.groups, p, g, t)
<1>2. /\ DOMAIN d = {"groups", "entries", "attachments", "icons", "meta", "deleted"}
      /\ IsMap(d.groups, GroupIds, Groups) /\ Agree(d.groups) /\ Spans(d.groups)
      /\ \A y \in DOMAIN d.groups : d.groups[y] \in Groups
      /\ IsMap(d.entries, EntryIds, Lives) /\ IsPlaced(d.groups, d.entries)
      /\ IsMap(d.deleted, GroupIds \cup EntryIds \cup IconIds, Times)
      /\ IsMap(d.icons, IconIds, Icons)
  BY FormedParts
<1>3. g \notin DOMAIN d.groups /\ g # None
  BY SentinelAssumption DEF Known
<1>4. Agree(gs) /\ Spans(gs)
  BY <1>2, <1>3, AddGroupTree
<1>5. IsPlaced(gs, d.entries)
  BY <1>2, <1>3, AddGroupPlacement
<1>6. IsMap(gs, GroupIds, Groups)
  BY <1>2, AddGroupType DEF Times
<1>7. \A y \in DOMAIN gs : gs[y].icon = None \/ (y \in DOMAIN d.groups /\ gs[y].icon = d.groups[y].icon)
  BY <1>2 DEF AddGroupTo, Put, NewGroup, Groups
<1>8. DOMAIN gs = DOMAIN d.groups \cup {g}
  BY DEF AddGroupTo, Put
<1>9. Changed(d, x, gs, d.entries, d.deleted)
  BY <1>1, <1>2, FieldsOf DEF Changed, Formed
<1> HIDE DEF gs
<1>10. Formed(x)
  BY <1>2, <1>4, <1>5, <1>6, <1>9, ChangedForm
<1>11. Resolves(d) => Resolves(x)
  BY <1>2, <1>7, <1>9, ChangedResolves
<1>12. Grown(d, x)
  BY <1>8, <1>9, ChangedGrown
<1> QED  BY <1>10, <1>11, <1>12 DEF EditOf

\* An edit that leaves tree, lists and icons of the groups alone
LEMMA GroupsEdit ==
    ASSUME NEW d, Formed(d), NEW x, NEW gs, Changed(d, x, gs, d.entries, d.deleted),
           IsMap(gs, GroupIds, Groups), Agree(gs), Spans(gs), DOMAIN gs = DOMAIN d.groups,
           \A y \in DOMAIN gs : gs[y].entries = d.groups[y].entries /\ gs[y].icon = d.groups[y].icon
    PROVE  EditOf(d, x)
<1>2. /\ IsMap(d.entries, EntryIds, Lives) /\ IsPlaced(d.groups, d.entries)
      /\ IsMap(d.deleted, GroupIds \cup EntryIds \cup IconIds, Times)
      /\ IsMap(d.icons, IconIds, Icons)
  BY FormedParts
<1>5. IsPlaced(gs, d.entries)
  BY <1>2 DEF IsPlaced
<1>10. Formed(x)
  BY <1>2, <1>5, ChangedForm
<1>11. Resolves(d) => Resolves(x)
  BY <1>2, ChangedResolves
<1>12. Grown(d, x)
  BY ChangedGrown
<1> QED  BY <1>10, <1>11, <1>12 DEF EditOf

\* A new content of a group disturbs nothing.
LEMMA EditGroupEdit ==
    ASSUME NEW d, Formed(d), NEW t \in Times, NEW x \in EditGroup(d, t)
    PROVE  EditOf(d, x)
<1>1. PICK g \in DOMAIN d.groups, c \in Contents :
         x = [d EXCEPT !.groups[g].content = c, !.groups[g].mtime = t]
  BY DEF EditGroup
<1> DEFINE gs == [d.groups EXCEPT ![g].content = c, ![g].mtime = t]
<1>2. /\ DOMAIN d = {"groups", "entries", "attachments", "icons", "meta", "deleted"}
      /\ IsMap(d.groups, GroupIds, Groups) /\ Agree(d.groups) /\ Spans(d.groups)
      /\ \A y \in DOMAIN d.groups : d.groups[y] \in Groups
  BY FormedParts
<1>3. Changed(d, x, gs, d.entries, d.deleted)
  BY <1>1, <1>2, FieldsOf DEF Changed, Formed
<1>4. IsMap(gs, GroupIds, Groups)
  BY <1>2, EditedType
<1>5. DOMAIN gs = DOMAIN d.groups
  OBVIOUS
<1>6. \A y \in DOMAIN gs :
         /\ gs[y].entries = d.groups[y].entries /\ gs[y].icon = d.groups[y].icon
         /\ gs[y].parent = d.groups[y].parent /\ gs[y].groups = d.groups[y].groups
  BY <1>2 DEF Groups
<1> HIDE DEF gs
<1>7. Agree(gs) /\ Spans(gs)
  BY <1>2, <1>5, <1>6, SameTree
<1> QED  BY <1>3, <1>4, <1>5, <1>6, <1>7, GroupsEdit

\* MoveGroupTo changes of the other fields only the parent of g.
LEMMA MovedGroupFields ==
    ASSUME NEW gs, IsMap(gs, GroupIds, Groups), NEW g, NEW q
    PROVE  /\ DOMAIN MoveGroupTo(gs, g, q) = DOMAIN gs
           /\ \A y \in DOMAIN gs :
                 /\ MoveGroupTo(gs, g, q)[y].entries = gs[y].entries
                 /\ MoveGroupTo(gs, g, q)[y].icon = gs[y].icon
                 /\ MoveGroupTo(gs, g, q)[y].content = gs[y].content
                 /\ MoveGroupTo(gs, g, q)[y].mtime = gs[y].mtime
                 /\ MoveGroupTo(gs, g, q)[y].ltime = gs[y].ltime
                 /\ MoveGroupTo(gs, g, q)[y].parent = IF y = g THEN q ELSE gs[y].parent
<1>1. DOMAIN MoveGroupTo(gs, g, q) = DOMAIN gs
  BY DEF MoveGroupTo
<1>2. ASSUME NEW y \in DOMAIN gs
      PROVE  /\ MoveGroupTo(gs, g, q)[y].entries = gs[y].entries
             /\ MoveGroupTo(gs, g, q)[y].icon = gs[y].icon
             /\ MoveGroupTo(gs, g, q)[y].content = gs[y].content
             /\ MoveGroupTo(gs, g, q)[y].mtime = gs[y].mtime
             /\ MoveGroupTo(gs, g, q)[y].ltime = gs[y].ltime
             /\ MoveGroupTo(gs, g, q)[y].parent = IF y = g THEN q ELSE gs[y].parent
  <2> DEFINE listed == (IF y = gs[g].parent THEN gs[y].groups \ {g} ELSE gs[y].groups)
                            \cup (IF y = q THEN {g} ELSE {})
             parent == IF y = g THEN q ELSE gs[y].parent
             prev   == IF y = g THEN gs[g].parent ELSE gs[y].prev
  <2>1. gs[y] \in Groups
    BY DEF IsMap
  <2>2. MoveGroupTo(gs, g, q)[y] = [gs[y] EXCEPT !.groups = listed, !.parent = parent, !.prev = prev]
    BY DEF MoveGroupTo
  <2> HIDE DEF listed, parent, prev
  <2>3. MoveGroupTo(gs, g, q)[y].parent = parent
    BY <2>1, <2>2 DEF Groups
  <2>4. /\ MoveGroupTo(gs, g, q)[y].entries = gs[y].entries
        /\ MoveGroupTo(gs, g, q)[y].icon = gs[y].icon
        /\ MoveGroupTo(gs, g, q)[y].content = gs[y].content
        /\ MoveGroupTo(gs, g, q)[y].mtime = gs[y].mtime
        /\ MoveGroupTo(gs, g, q)[y].ltime = gs[y].ltime
    BY <2>1, <2>2 DEF Groups
  <2> QED  BY <2>3, <2>4 DEF parent
<1> QED  BY <1>1, <1>2

\* A group that may move takes its subtree along.
LEMMA MoveGroupEdit ==
    ASSUME NEW d, Formed(d), NEW t \in Times, NEW x \in MoveGroup(d, t)
    PROVE  EditOf(d, x)
<1>1. PICK g \in DOMAIN d.groups, q \in DOMAIN d.groups, stamped \in BOOLEAN :
         /\ CanMoveGroup(d.groups, g, q)
         /\ x = [d EXCEPT !.groups = MovedAt(d.groups, g, q, t, stamped)]
  <2>1. PICK m \in (DOMAIN d.groups) \X (DOMAIN d.groups), stamped \in BOOLEAN :
           /\ CanMoveGroup(d.groups, m[1], m[2])
           /\ x = [d EXCEPT !.groups = MovedAt(d.groups, m[1], m[2], t, stamped)]
    BY DEF MoveGroup
  <2>2. m[1] \in DOMAIN d.groups /\ m[2] \in DOMAIN d.groups
    OBVIOUS
  <2> QED  BY <2>1, <2>2
<1> DEFINE moved == MoveGroupTo(d.groups, g, q)
           gs == [moved EXCEPT ![g].ltime = t, ![g].mtime = IF stamped THEN t ELSE @]
<1>2. /\ DOMAIN d = {"groups", "entries", "attachments", "icons", "meta", "deleted"}
      /\ IsMap(d.groups, GroupIds, Groups) /\ Agree(d.groups) /\ Spans(d.groups)
      /\ \A y \in DOMAIN d.groups : d.groups[y] \in Groups
  BY FormedParts
<1>3. Changed(d, x, gs, d.entries, d.deleted)
  <2>1. gs = MovedAt(d.groups, g, q, t, stamped)
    BY DEF MovedAt
  <2> HIDE DEF gs
  <2> QED  BY <1>1, <1>2, <2>1, FieldsOf DEF Changed, Formed
<1>4. /\ IsMap(moved, GroupIds, Groups) /\ Agree(moved) /\ Spans(moved)
      /\ DOMAIN moved = DOMAIN d.groups
      /\ \A y \in DOMAIN moved :
            moved[y].entries = d.groups[y].entries /\ moved[y].icon = d.groups[y].icon
  <2>1. IsMap(moved, GroupIds, Groups)
    BY <1>2, MoveGroupType
  <2>2. Agree(moved) /\ Spans(moved)
    BY <1>1, <1>2, MoveGroupTree
  <2> QED  BY <1>2, <2>1, <2>2, MovedGroupFields
<1> HIDE DEF moved
<1>5. \A y \in DOMAIN moved : moved[y] \in Groups
  BY <1>4 DEF IsMap
<1>6. DOMAIN gs = DOMAIN moved /\ gs = [y \in DOMAIN moved |-> gs[y]]
  OBVIOUS
<1>7. ASSUME NEW y \in DOMAIN moved
      PROVE  /\ gs[y] \in Groups
             /\ gs[y].entries = moved[y].entries /\ gs[y].icon = moved[y].icon
             /\ gs[y].parent = moved[y].parent /\ gs[y].groups = moved[y].groups
  <2>1. moved[y] \in Groups /\ moved[y].mtime \in Times
    BY <1>5 DEF Groups
  <2> DEFINE at == IF stamped THEN t ELSE moved[y].mtime
  <2>2. CASE y = g
    <3>1. gs[y] = [moved[y] EXCEPT !.ltime = t, !.mtime = at]
      BY <2>2
    <3>2. at \in Times
      BY <2>1
    <3> HIDE DEF at, gs
    <3> QED  BY <2>1, <3>1, <3>2 DEF Groups
  <2>3. CASE y # g
    <3>1. gs[y] = moved[y]
      BY <2>3
    <3> QED  BY <2>1, <3>1
  <2> QED  BY <2>2, <2>3
<1> HIDE DEF gs
<1>8. IsMap(gs, GroupIds, Groups)
  BY <1>4, <1>6, <1>7 DEF IsMap
<1>9. Agree(gs) /\ Spans(gs)
  BY <1>4, <1>6, <1>7, SameTree
<1>10. DOMAIN gs = DOMAIN d.groups
  BY <1>4, <1>6
<1>11. \A y \in DOMAIN gs : gs[y].entries = d.groups[y].entries /\ gs[y].icon = d.groups[y].icon
  BY <1>4, <1>6, <1>7
<1> QED  BY <1>3, <1>8, <1>9, <1>10, <1>11, GroupsEdit

\* Buried changes nothing but tombstones.
LEMMA BuriedFields ==
    ASSUME NEW d, DOMAIN d = DOMAIN NewDatabase, NEW f
    PROVE  /\ Changed(d, Buried(d, f), d.groups, d.entries, Buried(d, f).deleted)
           /\ Buried(d, f).meta = d.meta
           /\ DOMAIN Buried(d, f).deleted = DOMAIN d.deleted \cup DOMAIN f
           /\ \A x \in DOMAIN d.deleted \cup DOMAIN f :
                 Buried(d, f).deleted[x] = IF x \in DOMAIN f THEN f[x] ELSE d.deleted[x]
<1>1. DOMAIN d = {"groups", "entries", "attachments", "icons", "meta", "deleted"}
  BY FieldsOf
<1> QED  BY <1>1 DEF Buried, Changed

\* Tombstones leave a copy well formed.
LEMMA BuriedForm ==
    ASSUME NEW d, Formed(d), NEW f, IsMap(f, GroupIds \cup EntryIds \cup IconIds, Times)
    PROVE  Formed(Buried(d, f))
<1> DEFINE ids == GroupIds \cup EntryIds \cup IconIds
           b == Buried(d, f)
           m == [x \in DOMAIN d.deleted \cup DOMAIN f |-> IF x \in DOMAIN f THEN f[x] ELSE d.deleted[x]]
<1>1. DOMAIN d = {"groups", "entries", "attachments", "icons", "meta", "deleted"} /\ IsMap(d.deleted, ids, Times)
  BY FormedParts
<1>2. b.deleted = m
  BY <1>1 DEF Buried
<1>3. IsMap(m, ids, Times)
  <2> HIDE DEF ids
  <2> QED  BY <1>1, BuriedType DEF ids
<1>4. /\ DOMAIN b = DOMAIN NewDatabase
      /\ b.groups = d.groups /\ b.entries = d.entries /\ b.icons = d.icons
  BY BuriedFields DEF Changed, Formed
<1> HIDE DEF b, m
<1>5. Formed(b)
  BY <1>2, <1>3, <1>4 DEF Formed
<1> QED  BY <1>5 DEF b

\* Groups and entries are removed, and those removed get tombstones.
LEMMA RemovalEdit ==
    ASSUME NEW d, Formed(d), NEW S, S \subseteq DOMAIN d.groups \ {Root}, ChildClosed(d.groups, S),
           NEW E, E \subseteq DOMAIN d.entries, EntriesUnder(d.groups, S) \subseteq E,
           NEW t \in Times
    PROVE  EditOf(d, RemovedAt(d, S, E, t))
<1> DEFINE r == Removed(d, S, E)
           f == [y \in S \cup E |-> t]
           x == Buried(r, f)
<1>1. Formed(r)
  BY RemovedForm
<1>2. /\ DOMAIN r = DOMAIN NewDatabase
      /\ DOMAIN r.groups = DOMAIN d.groups \ S
      /\ \A g \in DOMAIN d.groups \ S : r.groups[g].icon = d.groups[g].icon
      /\ r.entries = Without(d.entries, E) /\ r.icons = d.icons /\ r.deleted = d.deleted
  BY RemovedFields
<1>3. IsMap(d.groups, GroupIds, Groups) /\ IsMap(d.entries, EntryIds, Lives) /\ IsMap(d.icons, IconIds, Icons)
  BY FormedParts
<1> HIDE DEF r
<1>4. IsMap(f, GroupIds \cup EntryIds \cup IconIds, Times)
  BY <1>3 DEF IsMap
<1>5. Formed(x)
  BY <1>1, <1>4, BuriedForm
<1>6. Changed(r, x, r.groups, r.entries, x.deleted) /\ DOMAIN x.deleted = DOMAIN r.deleted \cup DOMAIN f
  BY <1>2, BuriedFields
<1>7. DOMAIN x.deleted \subseteq DOMAIN d.deleted \cup GroupIds \cup EntryIds
  BY <1>2, <1>3, <1>6 DEF IsMap
<1>8. Changed(d, x, r.groups, r.entries, x.deleted)
  BY <1>2, <1>6 DEF Changed
<1> HIDE DEF x, f
<1>9. DOMAIN r.entries = DOMAIN d.entries \ E /\ \A e \in DOMAIN r.entries : r.entries[e] = d.entries[e]
  BY <1>2 DEF Without
<1>10. Resolves(d) => Resolves(x)
  <2>1. \A g \in DOMAIN r.groups : g \in DOMAIN d.groups /\ r.groups[g].icon = d.groups[g].icon
    BY <1>2
  <2>2. \A e \in DOMAIN r.entries : \A k \in DOMAIN r.entries[e] :
           e \in DOMAIN d.entries /\ \E i \in DOMAIN d.entries[e] : r.entries[e][k].icon = d.entries[e][i].icon
    BY <1>9
  <2> QED  BY <1>3, <1>8, <2>1, <2>2, ChangedResolves
<1>11. Grown(d, x)
  <2>1. DOMAIN r.groups \subseteq DOMAIN d.groups \cup {Root} /\ DOMAIN r.entries \subseteq DOMAIN d.entries \cup {Root}
    BY <1>2, <1>9
  <2>2. DOMAIN r.entries \ DOMAIN d.entries \subseteq EntryIds \ (Known(dest) \cup Known(source))
    BY <1>9
  <2>3. \A e \in DOMAIN d.entries \cap DOMAIN r.entries : r.entries[e] = d.entries[e] \/ Len(r.entries[e]) > 1
    BY <1>9
  <2> QED  BY <1>7, <1>8, <2>1, <2>2, <2>3, ChangedGrown
<1>12. EditOf(d, x)
  BY <1>5, <1>10, <1>11 DEF EditOf
<1> QED  BY <1>12 DEF x, f, r, RemovedAt

\* A group goes with its subtree and the entries in it.
LEMMA RemoveGroupEdit ==
    ASSUME NEW d, Formed(d), NEW t \in Times, NEW x \in RemoveGroup(d, t)
    PROVE  EditOf(d, x)
<1>1. PICK g \in DOMAIN d.groups \ {Root} :
         x = LET S == Subtree(d.groups, g)
             IN RemovedAt(d, S, EntriesUnder(d.groups, S), t)
  BY DEF RemoveGroup
<1> DEFINE S == Subtree(d.groups, g)
           E == EntriesUnder(d.groups, S)
<1>2. Agree(d.groups) /\ IsPlaced(d.groups, d.entries)
  BY FormedParts
<1>3. S \subseteq DOMAIN d.groups \ {Root} /\ ChildClosed(d.groups, S)
  BY <1>2, SubtreeLeast, RootNotBelow
<1>4. E \subseteq DOMAIN d.entries
  BY <1>2, <1>3 DEF EntriesUnder, IsPlaced
<1>5. x = RemovedAt(d, S, E, t)
  BY <1>1
<1> HIDE DEF S
<1>6. EntriesUnder(d.groups, S) \subseteq E
  OBVIOUS
<1> HIDE DEF E
<1> QED  BY <1>3, <1>4, <1>5, <1>6, RemovalEdit

\* An entry goes alone.
LEMMA RemoveEntryEdit ==
    ASSUME NEW d, Formed(d), NEW t \in Times, NEW x \in RemoveEntry(d, t)
    PROVE  EditOf(d, x)
<1>1. PICK e \in DOMAIN d.entries : x = RemovedAt(d, {}, {e}, t)
  BY DEF RemoveEntry
<1>2. ChildClosed(d.groups, {}) /\ EntriesUnder(d.groups, {}) \subseteq {e}
  BY DEF ChildClosed, EntriesUnder
<1> QED  BY <1>1, <1>2, RemovalEdit

----------------------------------------------------------------------------
(* The edits of entries.                                                   *)

\* A new entry is listed by its group, and nobody knows its identifier.
LEMMA AddEntryEdit ==
    ASSUME NEW d, Formed(d), d = dest \/ d = source, NEW t \in Times, NEW x \in AddEntry(d, t)
    PROVE  EditOf(d, x)
<1>1. PICK p \in DOMAIN d.groups, e \in EntryIds \ (Known(dest) \cup Known(source)) :
         x = WithEntry(d, p, e, t)
  BY DEF AddEntry
<1> DEFINE gs == [d.groups EXCEPT ![p].entries = @ \cup {e}]
           es == Put(d.entries, e, <<NewVersion(p, t)>>)
<1>2. /\ DOMAIN d = {"groups", "entries", "attachments", "icons", "meta", "deleted"}
      /\ IsMap(d.groups, GroupIds, Groups) /\ Agree(d.groups) /\ Spans(d.groups)
      /\ \A y \in DOMAIN d.groups : d.groups[y] \in Groups /\ y \in GroupIds
      /\ IsMap(d.entries, EntryIds, Lives) /\ IsPlaced(d.groups, d.entries)
      /\ IsMap(d.deleted, GroupIds \cup EntryIds \cup IconIds, Times)
      /\ IsMap(d.icons, IconIds, Icons)
  BY FormedParts
<1>3. e \notin DOMAIN d.entries
  BY DEF Known
<1>4. Changed(d, x, gs, es, d.deleted)
  BY <1>1, <1>2, FieldsOf DEF Changed, Formed, WithEntry
<1>5. IsMap(gs, GroupIds, Groups)
  BY <1>2, ListedType
<1>6. /\ DOMAIN gs = DOMAIN d.groups
      /\ \A y \in DOMAIN d.groups :
            /\ gs[y].parent = d.groups[y].parent /\ gs[y].groups = d.groups[y].groups
            /\ gs[y].icon = d.groups[y].icon
  BY <1>2 DEF Groups
<1>7. IsMap(es, EntryIds, Lives)
  BY <1>2, NewVersionType, PutType
<1>8. IsPlaced(gs, es)
  BY <1>2, <1>3, AddEntryPlacement
<1>9. /\ DOMAIN es = DOMAIN d.entries \cup {e}
      /\ \A y \in DOMAIN d.entries : es[y] = d.entries[y]
      /\ es[e] = <<NewVersion(p, t)>>
  BY <1>3 DEF Put
<1>10. \A k \in DOMAIN es[e] : es[e][k].icon = None
  BY <1>9 DEF NewVersion
<1> HIDE DEF gs, es
<1>11. Agree(gs) /\ Spans(gs)
  BY <1>2, <1>6, SameTree
<1>12. Formed(x)
  BY <1>2, <1>4, <1>5, <1>7, <1>8, <1>11, ChangedForm
<1>13. Resolves(d) => Resolves(x)
  <2>1. \A c \in DOMAIN es : \A k \in DOMAIN es[c] :
           \/ es[c][k].icon = None
           \/ c \in DOMAIN d.entries /\ \E i \in DOMAIN d.entries[c] : es[c][k].icon = d.entries[c][i].icon
    BY <1>9, <1>10
  <2> QED  BY <1>2, <1>4, <1>6, <2>1, ChangedResolves
<1>14. Grown(d, x)
  <2>1. DOMAIN es \ DOMAIN d.entries \subseteq EntryIds \ (Known(dest) \cup Known(source))
    BY <1>9
  <2>2. DOMAIN gs \subseteq DOMAIN d.groups \cup {p}
    BY <1>6
  <2>3. \A c \in DOMAIN d.entries \cap DOMAIN es : es[c] = d.entries[c] \/ Len(es[c]) > 1
    BY <1>9
  <2> QED  BY <1>4, <1>9, <2>1, <2>2, <2>3, ChangedGrown
<1> QED  BY <1>12, <1>13, <1>14 DEF EditOf

\* An edit that leaves the tree alone and gives one entry another version
LEMMA RecordedEdit ==
    ASSUME NEW d, Formed(d), NEW x, NEW gs, NEW e \in DOMAIN d.entries, NEW v \in Versions,
           v.icon = Live(d.entries, e).icon,
           Changed(d, x, gs, Recorded(d, e, v), d.deleted),
           IsMap(gs, GroupIds, Groups), Agree(gs), Spans(gs), DOMAIN gs = DOMAIN d.groups,
           \A y \in DOMAIN gs : gs[y].icon = d.groups[y].icon,
           IsPlaced(gs, Recorded(d, e, v))
    PROVE  EditOf(d, x)
<1> DEFINE es == Recorded(d, e, v)
<1>1. /\ IsMap(d.entries, EntryIds, Lives)
      /\ IsMap(d.deleted, GroupIds \cup EntryIds \cup IconIds, Times)
      /\ IsMap(d.icons, IconIds, Icons) /\ d.entries[e] \in Lives
  BY FormedParts
<1>2. /\ IsMap(es, EntryIds, Lives) /\ DOMAIN es = DOMAIN d.entries
      /\ Len(es[e]) > 1
      /\ \A k \in DOMAIN es[e] : es[e][k] = v \/ \E i \in DOMAIN d.entries[e] : es[e][k] = d.entries[e][i]
      /\ \A c \in DOMAIN d.entries \ {e} : es[c] = d.entries[c]
  BY RecordedType
<1>3. 1 \in DOMAIN d.entries[e] /\ v.icon = d.entries[e][1].icon
  BY <1>1 DEF Lives, Live
<1> HIDE DEF es
<1>4. \A c \in DOMAIN es : \A k \in DOMAIN es[c] :
         c \in DOMAIN d.entries /\ \E i \in DOMAIN d.entries[c] : es[c][k].icon = d.entries[c][i].icon
  <2> SUFFICES ASSUME NEW c \in DOMAIN es, NEW k \in DOMAIN es[c]
               PROVE  \E i \in DOMAIN d.entries[c] : es[c][k].icon = d.entries[c][i].icon
    BY <1>2
  <2>1. CASE c = e
    <3>1. CASE es[e][k] = v
      BY <1>3, <2>1, <3>1
    <3>2. CASE \E i \in DOMAIN d.entries[e] : es[e][k] = d.entries[e][i]
      BY <2>1, <3>2
    <3> QED  BY <1>2, <2>1, <3>1, <3>2
  <2>2. CASE c # e
    BY <1>2, <2>2
  <2> QED  BY <2>1, <2>2
<1>5. Formed(x)
  BY <1>1, <1>2, ChangedForm DEF es
<1>6. Changed(d, x, gs, es, d.deleted)
  BY DEF es
<1>7. Resolves(d) => Resolves(x)
  BY <1>1, <1>4, <1>6, ChangedResolves
<1>8. Grown(d, x)
  <2>1. DOMAIN es \ DOMAIN d.entries \subseteq EntryIds \ (Known(dest) \cup Known(source))
    BY <1>2
  <2>2. \A c \in DOMAIN d.entries \cap DOMAIN es : es[c] = d.entries[c] \/ Len(es[c]) > 1
    BY <1>2
  <2>3. DOMAIN gs \subseteq DOMAIN d.groups \cup {e} /\ DOMAIN es \subseteq DOMAIN d.entries \cup {e}
    BY <1>2
  <2> QED  BY <1>6, <2>1, <2>2, <2>3, ChangedGrown
<1> QED  BY <1>5, <1>7, <1>8 DEF EditOf

\* The content that is replaced goes into the history.
LEMMA EditEntryEdit ==
    ASSUME NEW d, Formed(d), NEW t \in Times, NEW x \in EditEntry(d, t)
    PROVE  EditOf(d, x)
<1>1. PICK e \in DOMAIN d.entries, c \in Contents :
         x = [d EXCEPT !.entries =
                Recorded(d, e, [Live(d.entries, e) EXCEPT !.content = c, !.mtime = t])]
  BY DEF EditEntry
<1> DEFINE w == Live(d.entries, e)
           v == [w EXCEPT !.content = c, !.mtime = t]
<1>2. /\ DOMAIN d = {"groups", "entries", "attachments", "icons", "meta", "deleted"}
      /\ IsMap(d.groups, GroupIds, Groups) /\ Agree(d.groups) /\ Spans(d.groups)
      /\ IsPlaced(d.groups, d.entries) /\ w \in Versions
  BY FormedParts
<1>3. v \in Versions /\ v.icon = w.icon /\ v.parent = w.parent
  <2> HIDE DEF w
  <2> QED  BY <1>2 DEF Versions
<1> HIDE DEF v
<1>4. Changed(d, x, d.groups, Recorded(d, e, v), d.deleted)
  BY <1>1, <1>2, FieldsOf DEF Changed, Formed, v
<1>5. SameParents(d.entries, Recorded(d, e, v))
  BY <1>3, RecordedType DEF SameParents, Live
<1>6. IsPlaced(d.groups, Recorded(d, e, v))
  BY <1>2, <1>5, SamePlacement DEF SameLists
<1> QED  BY <1>2, <1>3, <1>4, <1>6, RecordedEdit

\* A moved version names the group it moved to.
LEMMA MovedType ==
    ASSUME NEW v \in Versions, NEW q \in GroupIds, NEW t \in Times
    PROVE  /\ Moved(v, q, t) \in Versions
           /\ Moved(v, q, t).parent = q /\ Moved(v, q, t).icon = v.icon
           /\ Moved(v, q, t).mtime = v.mtime /\ Moved(v, q, t).content = v.content
BY DEF Moved, Versions

\* RelistEntry changes nothing but the lists of entries.
LEMMA RelistedFields ==
    ASSUME NEW gs, IsMap(gs, GroupIds, Groups), NEW e, NEW p, NEW q
    PROVE  /\ DOMAIN RelistEntry(gs, e, p, q) = DOMAIN gs
           /\ \A y \in DOMAIN gs :
                 /\ RelistEntry(gs, e, p, q)[y].parent = gs[y].parent
                 /\ RelistEntry(gs, e, p, q)[y].groups = gs[y].groups
                 /\ RelistEntry(gs, e, p, q)[y].icon = gs[y].icon
                 /\ RelistEntry(gs, e, p, q)[y].ltime = gs[y].ltime
                 /\ RelistEntry(gs, e, p, q)[y].mtime = gs[y].mtime
<1>1. ASSUME NEW y \in DOMAIN gs
      PROVE  /\ RelistEntry(gs, e, p, q)[y].parent = gs[y].parent
             /\ RelistEntry(gs, e, p, q)[y].groups = gs[y].groups
             /\ RelistEntry(gs, e, p, q)[y].icon = gs[y].icon
             /\ RelistEntry(gs, e, p, q)[y].ltime = gs[y].ltime
             /\ RelistEntry(gs, e, p, q)[y].mtime = gs[y].mtime
  <2> DEFINE listed == (IF y = p THEN gs[y].entries \ {e} ELSE gs[y].entries)
                            \cup (IF y = q THEN {e} ELSE {})
  <2>1. gs[y] \in Groups
    BY DEF IsMap
  <2>2. RelistEntry(gs, e, p, q)[y] = [gs[y] EXCEPT !.entries = listed]
    BY DEF RelistEntry
  <2> HIDE DEF listed
  <2> QED  BY <2>1, <2>2 DEF Groups
<1> QED  BY <1>1 DEF RelistEntry

\* A moved entry is listed by its new group, and has a history.
LEMMA MoveEntryEdit ==
    ASSUME NEW d, Formed(d), NEW t \in Times, NEW x \in MoveEntry(d, t)
    PROVE  EditOf(d, x)
<1>1. PICK e \in DOMAIN d.entries, q \in DOMAIN d.groups :
         x = [d EXCEPT !.groups = RelistEntry(d.groups, e, Live(d.entries, e).parent, q),
                       !.entries = Recorded(d, e, Moved(Live(d.entries, e), q, t))]
  BY DEF MoveEntry
<1> DEFINE w == Live(d.entries, e)
           v == Moved(w, q, t)
           gs == RelistEntry(d.groups, e, w.parent, q)
           es == Recorded(d, e, v)
<1>2. /\ DOMAIN d = {"groups", "entries", "attachments", "icons", "meta", "deleted"}
      /\ IsMap(d.groups, GroupIds, Groups) /\ Agree(d.groups) /\ Spans(d.groups)
      /\ \A y \in DOMAIN d.groups : d.groups[y] \in Groups /\ y \in GroupIds
      /\ IsMap(d.entries, EntryIds, Lives)
      /\ IsPlaced(d.groups, d.entries) /\ w \in Versions
  BY FormedParts
<1>3. v \in Versions /\ v.icon = w.icon /\ v.parent = q
  BY <1>2, MovedType
<1>4. Changed(d, x, gs, es, d.deleted)
  <2> HIDE DEF gs, es
  <2>1. x = [d EXCEPT !.groups = gs, !.entries = es]
    BY <1>1 DEF gs, es
  <2> QED  BY <1>2, <2>1, FieldsOf DEF Changed, Formed
<1>5. /\ DOMAIN gs = DOMAIN d.groups
      /\ \A y \in DOMAIN d.groups :
            /\ gs[y].parent = d.groups[y].parent /\ gs[y].groups = d.groups[y].groups
            /\ gs[y].icon = d.groups[y].icon
  BY <1>2, RelistedFields
<1>6. IsMap(gs, GroupIds, Groups)
  <2>1. e \in EntryIds
    BY <1>2 DEF IsMap
  <2> QED  BY <1>2, <2>1, RelistType
<1>7. /\ DOMAIN es = DOMAIN d.entries
      /\ \A c \in DOMAIN d.entries : Live(es, c).parent = IF c = e THEN q ELSE Live(d.entries, c).parent
  <2> HIDE DEF v
  <2> QED  BY <1>3, RecordedType DEF Live
<1> HIDE DEF v
<1>8. IsPlaced(gs, es)
  <2> HIDE DEF es
  <2> QED  BY <1>2, <1>7, MoveEntryPlacement
<1> HIDE DEF gs
<1>9. Agree(gs) /\ Spans(gs)
  BY <1>2, <1>5, SameTree
<1> QED  BY <1>3, <1>4, <1>5, <1>6, <1>8, <1>9, RecordedEdit

----------------------------------------------------------------------------
(* The edits of custom icons.                                              *)

\* g shows c, one of the icons ics, which are those of d and at most c more.
LEMMA ShownEdit ==
    ASSUME NEW d, Formed(d), NEW t \in Times, NEW g \in DOMAIN d.groups,
           NEW ics, IsMap(ics, IconIds, Icons), NEW c \in DOMAIN ics,
           DOMAIN d.icons \subseteq DOMAIN ics,
           \A k \in DOMAIN d.icons : ics[k] = d.icons[k],
           DOMAIN ics \ DOMAIN d.icons
             \subseteq {c} \cap (IconIds \ (DOMAIN dest.icons \cup DOMAIN source.icons
                                  \cup DOMAIN dest.deleted \cup DOMAIN source.deleted))
    PROVE  EditOf(d, Shown(d, g, c, ics, t))
<1> DEFINE x == Shown(d, g, c, ics, t)
           gs == [d.groups EXCEPT ![g].icon = c, ![g].mtime = t]
           shown(k) == IF k = c THEN ics[k].groups \cup {g} ELSE ics[k].groups \ {g}
           is == [k \in DOMAIN ics |-> [ics[k] EXCEPT !.groups = shown(k)]]
<1>1. /\ DOMAIN d = {"groups", "entries", "attachments", "icons", "meta", "deleted"}
      /\ IsMap(d.groups, GroupIds, Groups) /\ Agree(d.groups) /\ Spans(d.groups)
      /\ \A y \in DOMAIN d.groups : d.groups[y] \in Groups /\ y \in GroupIds
      /\ IsMap(d.entries, EntryIds, Lives)
      /\ IsPlaced(d.groups, d.entries)
      /\ IsMap(d.icons, IconIds, Icons)
  BY FormedParts
<1>2. /\ DOMAIN x = DOMAIN NewDatabase
      /\ x.groups = gs /\ x.entries = d.entries /\ x.deleted = d.deleted
  BY <1>1, FieldsOf DEF Shown, Formed
<1>3. x.icons = is
  BY <1>1 DEF Shown
<1>4. c \in IconIds /\ \A k \in DOMAIN ics : ics[k] \in Icons
  BY DEF IsMap
<1>5. /\ DOMAIN gs = DOMAIN d.groups
      /\ \A y \in DOMAIN d.groups :
            /\ gs[y] \in Groups
            /\ gs[y].parent = d.groups[y].parent /\ gs[y].groups = d.groups[y].groups
            /\ gs[y].entries = d.groups[y].entries
            /\ gs[y].icon = IF y = g THEN c ELSE d.groups[y].icon
  <2>1. c \in IconValues /\ t \in Times
    BY <1>4 DEF IconValues
  <2>2. DOMAIN gs = DOMAIN d.groups
    OBVIOUS
  <2>3. ASSUME NEW y \in DOMAIN d.groups
        PROVE  /\ gs[y] \in Groups
               /\ gs[y].parent = d.groups[y].parent /\ gs[y].groups = d.groups[y].groups
               /\ gs[y].entries = d.groups[y].entries
               /\ gs[y].icon = IF y = g THEN c ELSE d.groups[y].icon
    <3>1. d.groups[y] \in Groups
      BY <1>1
    <3>2. CASE y = g
      <4>1. gs[y] = [[d.groups[y] EXCEPT !.icon = c] EXCEPT !.mtime = t]
        BY <3>2
      <4> HIDE DEF gs
      <4> QED  BY <2>1, <3>1, <3>2, <4>1 DEF Groups
    <3>3. CASE y # g
      <4>1. gs[y] = d.groups[y]
        BY <3>3
      <4> HIDE DEF gs
      <4> QED  BY <3>1, <3>3, <4>1
    <3> QED  BY <3>2, <3>3
  <2> HIDE DEF gs
  <2> QED  BY <2>2, <2>3
<1>6. gs = [y \in DOMAIN gs |-> gs[y]]
  OBVIOUS
<1>7. /\ DOMAIN is = DOMAIN ics
      /\ \A k \in DOMAIN ics : is[k] \in Icons /\ is[k].groups = shown(k)
  <2>1. ASSUME NEW k \in DOMAIN ics
        PROVE  is[k] \in Icons /\ is[k].groups = shown(k)
    <3>1. shown(k) \in SUBSET GroupIds /\ ics[k] \in Icons
      BY <1>1, <1>4 DEF Icons
    <3>2. is[k] = [ics[k] EXCEPT !.groups = shown(k)]
      OBVIOUS
    <3> HIDE DEF shown, is
    <3> QED  BY <3>1, <3>2 DEF Icons
  <2> QED  BY <2>1
<1>8. is = [k \in DOMAIN is |-> is[k]]
  OBVIOUS
<1> HIDE DEF gs, is, x, shown
<1>9. IsMap(gs, GroupIds, Groups) /\ IsMap(is, IconIds, Icons)
  <2>1. DOMAIN gs \subseteq GroupIds /\ DOMAIN is \subseteq IconIds
    BY <1>1, <1>5, <1>7 DEF IsMap
  <2> QED  BY <1>5, <1>6, <1>7, <1>8, <2>1 DEF IsMap
<1>10. Agree(gs) /\ Spans(gs)
  BY <1>1, <1>5, SameTree
<1>11. IsPlaced(gs, d.entries)
  BY <1>1, <1>5 DEF IsPlaced
<1>12. Formed(x)
  BY <1>1, <1>2, <1>3, <1>9, <1>10, <1>11, TreeHolds DEF Formed
<1>13. Resolves(d) => Resolves(x)
  <2> SUFFICES ASSUME Resolves(d)
               PROVE  Resolves(x)
    OBVIOUS
  <2>1. /\ \A y \in DOMAIN d.groups : d.groups[y].icon \in IconsOf(d)
        /\ \A e \in DOMAIN d.entries : \A i \in DOMAIN d.entries[e] : d.entries[e][i].icon \in IconsOf(d)
        /\ Backreferenced(d.groups, d.icons)
    BY ResolvesParts
  <2>2. IconsOf(d) \subseteq IconsOf(x) /\ c \in IconsOf(x)
    BY <1>3, <1>7 DEF IconsOf
  <2>3. \A y \in DOMAIN gs : gs[y].icon \in IconsOf(x)
    BY <1>5, <2>1, <2>2
  <2>4. \A e \in DOMAIN x.entries : \A i \in DOMAIN x.entries[e] : x.entries[e][i].icon \in IconsOf(x)
    BY <1>2, <2>1, <2>2
  <2>5. ASSUME NEW y \in DOMAIN gs, gs[y].icon \in DOMAIN is
        PROVE  y \in is[gs[y].icon].groups
    <3>1. CASE y = g
      BY <1>5, <1>7, <2>5, <3>1 DEF shown
    <3>2. CASE y # g
      <4>1. gs[y].icon = d.groups[y].icon /\ gs[y].icon \in DOMAIN ics
        BY <1>5, <1>7, <2>5, <3>2
      <4>2. gs[y].icon \in IconIds
        BY <4>1 DEF IsMap
      <4>3. gs[y].icon \in DOMAIN d.icons
        BY <1>5, <2>1, <4>1, <4>2, SentinelAssumption DEF IconsOf
      <4>4. y \in ics[gs[y].icon].groups
        BY <1>5, <2>1, <4>1, <4>3 DEF Backreferenced
      <4> QED  BY <1>7, <3>2, <4>1, <4>4 DEF shown
    <3> QED  BY <3>1, <3>2
  <2>6. Backreferenced(gs, is)
    BY <2>5 DEF Backreferenced
  <2> QED  BY <1>2, <1>3, <2>3, <2>4, <2>6, ResolvesParts
<1>14. Grown(d, x)
  BY <1>2, <1>3, <1>5, <1>7 DEF Grown
<1>15. EditOf(d, x)
  BY <1>12, <1>13, <1>14 DEF EditOf
<1> QED  BY <1>15 DEF x

\* An icon that is shown is one of the copy's, or new in both.
LEMMA ShowIconEdit ==
    ASSUME NEW d, Formed(d), d = dest \/ d = source, NEW t \in Times, NEW x \in ShowIcon(d, t)
    PROVE  EditOf(d, x)
<1>1. IsMap(d.icons, IconIds, Icons)
  BY FormedParts
<1>2. CASE x \in {Shown(d, y[1], y[2], d.icons, t) : y \in (DOMAIN d.groups) \X DOMAIN d.icons}
  <2>1. PICK g \in DOMAIN d.groups, c \in DOMAIN d.icons : x = Shown(d, g, c, d.icons, t)
    BY <1>2
  <2> QED  BY <1>1, <2>1, ShownEdit
<1>3. CASE x \in {Shown(d, y[1], y[2], Put(d.icons, y[2], [groups |-> {}, mtime |-> t]), t) :
                    y \in (DOMAIN d.groups) \X
                      (IconIds \ (DOMAIN dest.icons \cup DOMAIN source.icons
                                    \cup DOMAIN dest.deleted \cup DOMAIN source.deleted))}
  <2>1. PICK g \in DOMAIN d.groups,
             c \in IconIds \ (DOMAIN dest.icons \cup DOMAIN source.icons
                                \cup DOMAIN dest.deleted \cup DOMAIN source.deleted) :
           x = Shown(d, g, c, Put(d.icons, c, [groups |-> {}, mtime |-> t]), t)
    BY <1>3
  <2> DEFINE ics == Put(d.icons, c, [groups |-> {}, mtime |-> t])
  <2>2. IsMap(ics, IconIds, Icons)
    <3>1. [groups |-> {}, mtime |-> t] \in Icons
      BY DEF Icons
    <3> QED  BY <1>1, <3>1, PutType
  <2>3. /\ DOMAIN ics = DOMAIN d.icons \cup {c}
        /\ c \notin DOMAIN d.icons
        /\ \A k \in DOMAIN d.icons : ics[k] = d.icons[k]
    BY DEF Put
  <2> HIDE DEF ics
  <2>4. EditOf(d, Shown(d, g, c, ics, t))
    BY <2>2, <2>3, ShownEdit
  <2> QED  BY <2>1, <2>4 DEF ics
<1> QED  BY <1>2, <1>3 DEF ShowIcon

\* Removing an icon that d.icons[c].groups lists the groups of
LEMMA RemoveIconEdit ==
    ASSUME NEW d, Formed(d), NEW x \in RemoveIcon(d)
    PROVE  EditOf(d, x)
<1>0. PICK c \in DOMAIN d.icons : x = WithoutIcon(d, c)
  BY DEF RemoveIcon
<1>1. x = [d EXCEPT !.icons = Without(@, {c}),
                    !.groups = [g \in DOMAIN d.groups |->
                       IF g \in d.icons[c].groups THEN Unshown(d.groups[g], c) ELSE d.groups[g]],
                    !.entries = [e \in DOMAIN d.entries |->
                       [i \in DOMAIN d.entries[e] |-> Unshown(d.entries[e][i], c)]]]
  BY <1>0 DEF WithoutIcon
<1> DEFINE gs == [g \in DOMAIN d.groups |->
                     IF g \in d.icons[c].groups THEN Unshown(d.groups[g], c) ELSE d.groups[g]]
           es == [e \in DOMAIN d.entries |->
                    [i \in DOMAIN d.entries[e] |-> Unshown(d.entries[e][i], c)]]
<1>2. /\ DOMAIN d = {"groups", "entries", "attachments", "icons", "meta", "deleted"}
      /\ IsMap(d.groups, GroupIds, Groups) /\ Agree(d.groups) /\ Spans(d.groups)
      /\ \A y \in DOMAIN d.groups : d.groups[y] \in Groups /\ y \in GroupIds
      /\ IsMap(d.entries, EntryIds, Lives)
      /\ IsPlaced(d.groups, d.entries)
      /\ IsMap(d.icons, IconIds, Icons)
  BY FormedParts
<1>3. /\ DOMAIN x = DOMAIN NewDatabase
      /\ x.groups = gs /\ x.entries = es /\ x.deleted = d.deleted /\ x.icons = Without(d.icons, {c})
  <2> HIDE DEF gs, es
  <2>1. x = [d EXCEPT !.icons = Without(@, {c}), !.groups = gs, !.entries = es]
    BY <1>1 DEF gs, es
  <2> QED  BY <1>2, <2>1, FieldsOf DEF Formed
<1>4. ASSUME NEW g \in DOMAIN d.groups
      PROVE  /\ gs[g] \in Groups
             /\ gs[g].parent = d.groups[g].parent /\ gs[g].groups = d.groups[g].groups
             /\ gs[g].entries = d.groups[g].entries
             /\ gs[g].icon = IF g \in d.icons[c].groups /\ d.groups[g].icon = c
                               THEN None ELSE d.groups[g].icon
  <2> DEFINE icon == IF g \in d.icons[c].groups /\ d.groups[g].icon = c THEN None ELSE d.groups[g].icon
  <2>1. d.groups[g] \in Groups /\ icon \in IconValues
    BY <1>2 DEF Groups, IconValues
  <2>2. gs[g] = [d.groups[g] EXCEPT !.icon = icon]
    <3>1. CASE g \in d.icons[c].groups
      BY <3>1 DEF Unshown
    <3>2. CASE g \notin d.icons[c].groups
      BY <2>1, <3>2 DEF Groups
    <3> QED  BY <3>1, <3>2
  <2> HIDE DEF icon, gs
  <2>3. /\ gs[g] \in Groups /\ gs[g].icon = icon
        /\ gs[g].parent = d.groups[g].parent /\ gs[g].groups = d.groups[g].groups
        /\ gs[g].entries = d.groups[g].entries
    BY <2>1, <2>2 DEF Groups
  <2> QED  BY <2>3 DEF icon
<1>5. DOMAIN gs = DOMAIN d.groups /\ gs = [y \in DOMAIN gs |-> gs[y]]
  OBVIOUS
<1>6. \A v \in Versions :
         /\ Unshown(v, c) \in Versions /\ Unshown(v, c).parent = v.parent
         /\ Unshown(v, c).mtime = v.mtime
         /\ Unshown(v, c).icon = IF v.icon = c THEN None ELSE v.icon
  <2> SUFFICES ASSUME NEW v \in Versions
               PROVE  /\ Unshown(v, c) \in Versions /\ Unshown(v, c).parent = v.parent
                      /\ Unshown(v, c).mtime = v.mtime
                      /\ Unshown(v, c).icon = IF v.icon = c THEN None ELSE v.icon
    OBVIOUS
  <2> DEFINE icon == IF v.icon = c THEN None ELSE v.icon
  <2>1. icon \in IconValues
    BY DEF Versions, IconValues
  <2>2. Unshown(v, c) = [v EXCEPT !.icon = icon]
    BY DEF Unshown
  <2> HIDE DEF icon
  <2>3. /\ Unshown(v, c) \in Versions /\ Unshown(v, c).parent = v.parent
        /\ Unshown(v, c).mtime = v.mtime /\ Unshown(v, c).icon = icon
    BY <2>1, <2>2 DEF Versions
  <2> QED  BY <2>3 DEF icon
<1>7. /\ DOMAIN es = DOMAIN d.entries /\ es = [e \in DOMAIN d.entries |-> es[e]]
      /\ \A e \in DOMAIN d.entries :
            /\ DOMAIN es[e] = DOMAIN d.entries[e]
            /\ \A i \in DOMAIN d.entries[e] : es[e][i] = Unshown(d.entries[e][i], c)
  OBVIOUS
<1> HIDE DEF gs, es
<1>8. ASSUME NEW e \in DOMAIN d.entries
      PROVE  /\ 1 \in DOMAIN d.entries[e] /\ d.entries[e] \in Seq(Versions)
             /\ \A i \in DOMAIN d.entries[e] : d.entries[e][i] \in Versions
  <2>1. d.entries[e] \in Lives
    BY <1>2 DEF IsMap
  <2> QED  BY <2>1 DEF Lives
<1>9. IsMap(es, EntryIds, Lives)
  <2>1. \A e \in DOMAIN d.entries : es[e] \in [DOMAIN d.entries[e] -> Versions]
    <3> SUFFICES ASSUME NEW e \in DOMAIN d.entries
                 PROVE  es[e] \in [DOMAIN d.entries[e] -> Versions]
      OBVIOUS
    <3>1. es[e] = [i \in DOMAIN d.entries[e] |-> Unshown(d.entries[e][i], c)]
      BY DEF es
    <3> QED  BY <1>6, <1>8, <3>1
  <2> QED  BY <1>2, <1>7, <2>1, VersionsRewritten
<1>10. IsMap(gs, GroupIds, Groups)
  <2>1. DOMAIN gs \subseteq GroupIds
    BY <1>2, <1>5 DEF IsMap
  <2> QED  BY <1>4, <1>5, <2>1 DEF IsMap
<1>11. Agree(gs) /\ Spans(gs)
  BY <1>2, <1>4, <1>5, SameTree
<1>12. SameParents(d.entries, es) /\ SameLists(d.groups, gs)
  BY <1>4, <1>5, <1>6, <1>7, <1>8 DEF SameParents, SameLists, Live
<1>13. IsPlaced(gs, es)
  BY <1>2, <1>12, SamePlacement
<1>14. IsMap(x.icons, IconIds, Icons)
  BY <1>2, <1>3, WithoutType
<1>15. Formed(x)
  BY <1>3, <1>9, <1>10, <1>11, <1>13, <1>14, TreeHolds DEF Formed
<1>16. DOMAIN x.icons = DOMAIN d.icons \ {c} /\ \A k \in DOMAIN x.icons : x.icons[k] = d.icons[k]
  BY <1>3 DEF Without
<1>17. Resolves(d) => Resolves(x)
  <2> SUFFICES ASSUME Resolves(d)
               PROVE  Resolves(x)
    OBVIOUS
  <2>1. /\ \A y \in DOMAIN d.groups : d.groups[y].icon \in IconsOf(d)
        /\ \A e \in DOMAIN d.entries : \A i \in DOMAIN d.entries[e] : d.entries[e][i].icon \in IconsOf(d)
        /\ Backreferenced(d.groups, d.icons)
    BY ResolvesParts
  <2>2. IconsOf(x) = IconsOf(d) \ {c}
    <3>1. c \in IconIds
      BY <1>2 DEF IsMap
    <3> QED  BY <1>16, <3>1, SentinelAssumption DEF IconsOf
  <2>3. None \in IconsOf(x)
    BY DEF IconsOf
  <2>4. \A y \in DOMAIN gs : gs[y].icon = None \/ (gs[y].icon = d.groups[y].icon /\ gs[y].icon # c)
    BY <1>4, <1>5, <2>1 DEF Backreferenced
  <2>5. \A y \in DOMAIN gs : gs[y].icon \in IconsOf(x)
    BY <1>5, <2>1, <2>2, <2>3, <2>4
  <2>6. \A e \in DOMAIN es : \A i \in DOMAIN es[e] : es[e][i].icon \in IconsOf(x)
    <3> SUFFICES ASSUME NEW e \in DOMAIN es, NEW i \in DOMAIN es[e]
                 PROVE  es[e][i].icon \in IconsOf(x)
      OBVIOUS
    <3>1. e \in DOMAIN d.entries /\ i \in DOMAIN d.entries[e] /\ d.entries[e][i] \in Versions
      BY <1>7, <1>8
    <3>2. es[e][i].icon = IF d.entries[e][i].icon = c THEN None ELSE d.entries[e][i].icon
      BY <1>6, <1>7, <3>1
    <3> QED  BY <2>1, <2>2, <2>3, <3>1, <3>2
  <2>7. None \notin DOMAIN x.icons
    BY <1>14, SentinelAssumption DEF IsMap
  <2>8. Backreferenced(gs, x.icons)
    BY <1>5, <1>16, <2>1, <2>4, <2>7 DEF Backreferenced
  <2> QED  BY <1>3, <2>5, <2>6, <2>8, ResolvesParts
<1>18. Grown(d, x)
  <2>1. \A e \in DOMAIN d.entries \cap DOMAIN x.entries :
           /\ Len(x.entries[e]) = Len(d.entries[e])
           /\ Live(x.entries, e).mtime = Live(d.entries, e).mtime
    <3> SUFFICES ASSUME NEW e \in DOMAIN d.entries
                 PROVE  Len(es[e]) = Len(d.entries[e]) /\ es[e][1].mtime = d.entries[e][1].mtime
      BY <1>3, <1>7 DEF Live
    <3>1. es[e] \in Seq(Versions) /\ d.entries[e] \in Seq(Versions)
      BY <1>7, <1>8, <1>9 DEF IsMap, Lives
    <3>2. DOMAIN es[e] = 1 .. Len(es[e]) /\ DOMAIN d.entries[e] = 1 .. Len(d.entries[e])
      BY <3>1
    <3>3. Len(es[e]) = Len(d.entries[e])
      <4> DEFINE m == Len(es[e])
                 n == Len(d.entries[e])
      <4>0. m \in Nat /\ n \in Nat
        BY <3>1, LenProperties
      <4>1. m \in Nat /\ n \in Nat /\ 1 .. m = 1 .. n
        <5>1. DOMAIN es[e] = DOMAIN d.entries[e]
          BY <1>7
        <5> QED  BY <3>2, <4>0, <5>1
      <4> HIDE DEF m, n
      <4>2. m = n
        BY <4>1
      <4> QED  BY <4>2 DEF m, n
    <3> QED  BY <1>6, <1>7, <1>8, <3>3
  <2> QED  BY <1>3, <1>5, <1>7, <1>16, <2>1 DEF Grown
<1> QED  BY <1>15, <1>17, <1>18 DEF EditOf

\* Every edit
LEMMA Edits ==
    ASSUME NEW d, Formed(d), d = dest \/ d = source, NEW t \in Times, NEW x \in Edited(d, t)
    PROVE  EditOf(d, x)
BY AddGroupEdit, AddEntryEdit, EditGroupEdit, MoveGroupEdit, RemoveGroupEdit, EditEntryEdit,
   MoveEntryEdit, RemoveEntryEdit, ShowIconEdit, RemoveIconEdit DEF Edited

----------------------------------------------------------------------------
(* The passes up to the removal of entries.                                *)

\* Tombstones taken over from the copy s
LEMMA TakenTombstones ==
    ASSUME NEW s, Formed(s), NEW X, X \subseteq DOMAIN s.deleted
    PROVE  IsMap([c \in X |-> s.deleted[c]], GroupIds \cup EntryIds \cup IconIds, Times)
<1>1. IsMap(s.deleted, GroupIds \cup EntryIds \cup IconIds, Times)
  BY FormedParts
<1> QED  BY <1>1 DEF IsMap

\* merge_icons: the icons are those of both but the ones deleted in the source
LEMMA MergedIconsForm ==
    ASSUME NEW d, Formed(d), NEW s, Formed(s)
    PROVE  /\ Formed(MergedIcons(d, s))
           /\ MergedIcons(d, s).groups = d.groups /\ MergedIcons(d, s).entries = d.entries
           /\ \A x \in DOMAIN MergedIcons(d, s).deleted \ IconIds :
                 x \in DOMAIN d.deleted /\ MergedIcons(d, s).deleted[x] = d.deleted[x]
           /\ \A c \in DOMAIN d.icons :
                 c \in DOMAIN MergedIcons(d, s).icons \/ c \in DOMAIN s.deleted
           /\ \A c \in DOMAIN s.icons :
                 c \in DOMAIN MergedIcons(d, s).icons \/ c \in DOMAIN d.deleted
<1> DEFINE added == {c \in DOMAIN s.icons \ DOMAIN d.icons :
                        ~DeletedSince(d, c, s.icons[c].mtime)}
           gone  == {c \in DOMAIN d.icons \ DOMAIN s.icons :
                        DeletedSince(s, c, d.icons[c].mtime)}
           newer == {c \in DOMAIN d.icons \cap DOMAIN s.icons :
                        s.icons[c].mtime > d.icons[c].mtime}
           ics == [c \in (DOMAIN d.icons \ gone) \cup added |->
                      IF c \in added \cup newer THEN s.icons[c] ELSE d.icons[c]]
           f == [c \in gone |-> s.deleted[c]]
           b == [d EXCEPT !.icons = ics]
           x == Buried(b, f)
<1>1. MergedIcons(d, s) = x
  BY DEF MergedIcons
<1>2. /\ DOMAIN d = {"groups", "entries", "attachments", "icons", "meta", "deleted"}
      /\ IsMap(d.icons, IconIds, Icons) /\ IsMap(s.icons, IconIds, Icons)
  BY FormedParts
<1>3. added \subseteq DOMAIN s.icons /\ newer \subseteq DOMAIN s.icons
  OBVIOUS
<1>4. gone \subseteq DOMAIN d.icons /\ gone \subseteq DOMAIN s.deleted
  BY DEF DeletedSince
<1>5. \A c \in DOMAIN s.icons : c \in DOMAIN d.icons \/ c \in added \/ c \in DOMAIN d.deleted
  BY DEF DeletedSince
<1>6. \A c \in DOMAIN s.icons : c \notin gone
  OBVIOUS
<1> HIDE DEF added, gone, newer
<1>7. DOMAIN ics = (DOMAIN d.icons \ gone) \cup added
  OBVIOUS
<1>8. IsMap(ics, IconIds, Icons)
  BY <1>2, <1>3, <1>7 DEF IsMap
<1>9. IsMap(f, GroupIds \cup EntryIds \cup IconIds, Times)
  BY <1>4, TakenTombstones
<1>10. DOMAIN f = gone
  OBVIOUS
<1> HIDE DEF ics, f
<1>11. /\ DOMAIN b = DOMAIN NewDatabase
       /\ b.groups = d.groups /\ b.entries = d.entries /\ b.icons = ics /\ b.deleted = d.deleted
  BY <1>2, FieldsOf DEF Formed
<1> HIDE DEF b
<1>12. Formed(b)
  BY <1>8, <1>11 DEF Formed
<1>13. Formed(x)
  BY <1>9, <1>12, BuriedForm
<1>14. /\ x.groups = d.groups /\ x.entries = d.entries /\ x.icons = ics
       /\ DOMAIN x.deleted = DOMAIN d.deleted \cup gone
       /\ \A y \in DOMAIN d.deleted \cup gone :
             x.deleted[y] = IF y \in gone THEN f[y] ELSE d.deleted[y]
  BY <1>10, <1>11, BuriedFields DEF Changed
<1> HIDE DEF x
<1>15. gone \subseteq IconIds
  BY <1>2, <1>4 DEF IsMap
<1>16. \A y \in DOMAIN x.deleted \ IconIds : y \in DOMAIN d.deleted /\ x.deleted[y] = d.deleted[y]
  BY <1>14, <1>15
<1>17. \A c \in DOMAIN d.icons : c \in DOMAIN x.icons \/ c \in DOMAIN s.deleted
  BY <1>4, <1>7, <1>14
<1>18. \A c \in DOMAIN s.icons : c \in DOMAIN x.icons \/ c \in DOMAIN d.deleted
  BY <1>5, <1>6, <1>7, <1>14
<1> QED  BY <1>1, <1>13, <1>14, <1>16, <1>17, <1>18

\* The groups to add are new, and the parents of one that are new are added, too.
LEMMA AddedGroupsClosed ==
    ASSUME NEW d, NEW s
    PROVE  /\ AddedGroups(d, s) \subseteq DOMAIN s.groups \ DOMAIN d.groups
           /\ \A x \in AddedGroups(d, s) :
                 s.groups[x].parent \in DOMAIN s.groups \ DOMAIN d.groups =>
                    s.groups[x].parent \in AddedGroups(d, s)
           /\ \A g \in DOMAIN s.groups \ DOMAIN d.groups :
                 ~DeletedSince(d, g, LastUpdate(s, g)) => g \in AddedGroups(d, s)
<1> DEFINE new == DOMAIN s.groups \ DOMAIN d.groups
           add == {g \in new : ~DeletedSince(d, g, LastUpdate(s, g))}
           closed(S) == add \subseteq S /\ (\A x \in S : s.groups[x].parent \in new => s.groups[x].parent \in S)
           A == AddedGroups(d, s)
<1>1. A = {g \in new : \A S \in SUBSET new : closed(S) => g \in S}
  BY DEF AddedGroups, WithParents
<1> HIDE DEF A
<1>2. ASSUME NEW x \in A, s.groups[x].parent \in new
      PROVE  s.groups[x].parent \in A
  BY <1>1, <1>2
<1>3. add \subseteq A
  BY <1>1
<1> QED  BY <1>1, <1>2, <1>3 DEF A

\* A group g with the groups X below it that are added
LEMMA GroupsAddedFields ==
    ASSUME NEW d, Formed(d), NEW s, Formed(s)
    PROVE  LET A == AddedGroups(d, s)
               x == GroupsAdded(d, s)
               below(g) == {y \in A : s.groups[y].parent = g}
           IN  /\ Changed(d, x, x.groups, d.entries, d.deleted)
               /\ DOMAIN x.groups = DOMAIN d.groups \cup A
               /\ IsMap(x.groups, GroupIds, Groups)
               /\ \A g \in A :
                     /\ x.groups[g].parent = s.groups[g].parent
                     /\ x.groups[g].groups = below(g) /\ x.groups[g].entries = {}
                     /\ x.groups[g].icon = s.groups[g].icon
               /\ \A g \in DOMAIN d.groups \ A :
                     /\ x.groups[g].parent = d.groups[g].parent
                     /\ x.groups[g].groups = d.groups[g].groups \cup below(g)
                     /\ x.groups[g].entries = d.groups[g].entries
                     /\ x.groups[g].icon = d.groups[g].icon
                     /\ x.groups[g].ltime = d.groups[g].ltime
<1> DEFINE A == AddedGroups(d, s)
           new(g) == [s.groups[g] EXCEPT !.groups = {}, !.entries = {}, !.prev = None]
           below(g) == {y \in A : s.groups[y].parent = g}
           grown(h, g) == WithSubgroups(h, below(g))
           gs == [g \in DOMAIN d.groups \cup A |->
                     grown(IF g \in A THEN new(g) ELSE d.groups[g], g)]
           x == GroupsAdded(d, s)
<1>1. /\ DOMAIN d = {"groups", "entries", "attachments", "icons", "meta", "deleted"}
      /\ \A g \in DOMAIN d.groups : d.groups[g] \in Groups /\ g \in GroupIds
      /\ \A g \in DOMAIN s.groups : s.groups[g] \in Groups /\ g \in GroupIds
  BY FormedParts
<1>2. A \subseteq DOMAIN s.groups \ DOMAIN d.groups
  BY AddedGroupsClosed
<1>3. \A g : below(g) \in SUBSET GroupIds
  BY <1>1, <1>2
<1> HIDE DEF A
<1>4. x = [d EXCEPT !.groups = gs]
  BY DEF GroupsAdded, A
<1> HIDE DEF below
<1>5. ASSUME NEW g, NEW h \in Groups
      PROVE  /\ grown(h, g) \in Groups /\ grown(h, g).groups = h.groups \cup below(g)
             /\ grown(h, g).parent = h.parent /\ grown(h, g).entries = h.entries
             /\ grown(h, g).icon = h.icon /\ grown(h, g).ltime = h.ltime
  <2>1. h.groups \cup below(g) \in SUBSET GroupIds
    BY <1>3 DEF Groups
  <2>2. grown(h, g) = [h EXCEPT !.groups = h.groups \cup below(g)]
    BY DEF WithSubgroups
  <2> HIDE DEF grown
  <2> QED  BY <2>1, <2>2 DEF Groups
<1>6. ASSUME NEW g \in A
      PROVE  /\ new(g) \in Groups /\ new(g).groups = {} /\ new(g).entries = {}
             /\ new(g).parent = s.groups[g].parent /\ new(g).icon = s.groups[g].icon
  BY <1>1, <1>2 DEF Groups
<1> HIDE DEF new, grown
<1>7. DOMAIN gs = DOMAIN d.groups \cup A /\ gs = [g \in DOMAIN gs |-> gs[g]]
  OBVIOUS
<1>8. \A g \in A : gs[g] = grown(new(g), g)
  OBVIOUS
<1>9. \A g \in DOMAIN d.groups \ A : gs[g] = grown(d.groups[g], g)
  OBVIOUS
<1> HIDE DEF gs
<1>10. \A g \in DOMAIN gs : gs[g] \in Groups
  BY <1>1, <1>5, <1>6, <1>7, <1>8, <1>9
<1>11. IsMap(gs, GroupIds, Groups)
  BY <1>1, <1>2, <1>7, <1>10 DEF IsMap
<1>12. /\ DOMAIN x = DOMAIN NewDatabase
       /\ x.groups = gs /\ x.entries = d.entries /\ x.deleted = d.deleted /\ x.icons = d.icons
  BY <1>1, <1>4, FieldsOf DEF Formed
<1> HIDE DEF x
<1>13. ASSUME NEW g \in A
       PROVE  /\ gs[g].parent = s.groups[g].parent
              /\ gs[g].groups = below(g) /\ gs[g].entries = {}
              /\ gs[g].icon = s.groups[g].icon
  <2>1. new(g) \in Groups
    BY <1>6
  <2>2. grown(new(g), g).groups = {} \cup below(g)
    <3>1. grown(new(g), g).groups = new(g).groups \cup below(g)
      BY <1>5, <2>1
    <3>2. new(g).groups = {}
      BY <1>6
    <3> QED  BY <3>1, <3>2
  <2>3. gs[g].groups = below(g)
    BY <1>8, <2>2
  <2>4. /\ grown(new(g), g).parent = new(g).parent /\ grown(new(g), g).entries = new(g).entries
        /\ grown(new(g), g).icon = new(g).icon
    BY <1>5, <2>1
  <2> QED  BY <1>6, <1>8, <2>3, <2>4
<1>14. ASSUME NEW g \in DOMAIN d.groups \ A
       PROVE  /\ gs[g].parent = d.groups[g].parent
              /\ gs[g].groups = d.groups[g].groups \cup below(g)
              /\ gs[g].entries = d.groups[g].entries
              /\ gs[g].icon = d.groups[g].icon
              /\ gs[g].ltime = d.groups[g].ltime
  BY <1>1, <1>5, <1>9
<1> QED  BY <1>7, <1>11, <1>12, <1>13, <1>14 DEF x, A, below, Changed

\* hs is gs with the groups A of ss, and of their parents there those that gs has not
GrownBy(gs, ss, A, hs) ==
    /\ A \subseteq DOMAIN ss \ DOMAIN gs
    /\ \A x \in A : ss[x].parent \in DOMAIN ss \ DOMAIN gs => ss[x].parent \in A
    /\ DOMAIN hs = DOMAIN gs \cup A
    /\ \A g \in A : hs[g].parent = ss[g].parent /\ hs[g].groups = {y \in A : ss[y].parent = g}
    /\ \A g \in DOMAIN gs \ A :
          /\ hs[g].parent = gs[g].parent
          /\ hs[g].groups = gs[g].groups \cup {y \in A : ss[y].parent = g}

\* The added groups hang together: the old tree is still spanned, and were some
\* of the added ones not, the rest of the source's groups would be closed under
\* the child sets of the source, without being all of them.
LEMMA GroupsAddedTree ==
    ASSUME NEW gs, Agree(gs), Spans(gs), NEW ss, Agree(ss), Spans(ss), NEW A, NEW hs,
           GrownBy(gs, ss, A, hs)
    PROVE  Agree(hs) /\ Spans(hs)
<1>0. /\ A \subseteq DOMAIN ss \ DOMAIN gs
      /\ \A x \in A : ss[x].parent \in DOMAIN ss \ DOMAIN gs => ss[x].parent \in A
      /\ DOMAIN hs = DOMAIN gs \cup A
      /\ \A g \in A : hs[g].parent = ss[g].parent /\ hs[g].groups = {y \in A : ss[y].parent = g}
      /\ \A g \in DOMAIN gs \ A :
            /\ hs[g].parent = gs[g].parent
            /\ hs[g].groups = gs[g].groups \cup {y \in A : ss[y].parent = g}
  BY DEF GrownBy
<1>1. Root \in DOMAIN gs /\ Root \in DOMAIN ss /\ Root \notin A
  BY <1>0 DEF Agree
<1>2. \A x \in A : ss[x].parent \in DOMAIN hs
  <2> SUFFICES ASSUME NEW x \in A
               PROVE  ss[x].parent \in DOMAIN hs
    OBVIOUS
  <2>1. ss[x].parent \in DOMAIN ss
    BY <1>0, <1>1 DEF Agree
  <2> QED  BY <1>0, <2>1
<1>3. \A x \in DOMAIN hs \ {Root} : hs[x].parent \in DOMAIN hs
  BY <1>0, <1>2 DEF Agree
<1>4. ASSUME NEW p \in DOMAIN hs
      PROVE  hs[p].groups = {x \in DOMAIN hs : hs[x].parent = p}
  <2>1. CASE p \in A
    <3>1. \A x \in DOMAIN gs : gs[x].parent # p
      BY <1>0, <2>1 DEF Agree
    <3> QED  BY <1>0, <2>1, <3>1
  <2>2. CASE p \notin A
    <3>1. gs[p].groups = {x \in DOMAIN gs : gs[x].parent = p}
      BY <1>0, <2>2 DEF Agree
    <3> QED  BY <1>0, <2>2, <3>1
  <2> QED  BY <1>0, <2>1, <2>2
<1>5. Agree(hs)
  <2>1. None \notin DOMAIN hs /\ hs[Root].parent = None
    BY <1>0, <1>1 DEF Agree
  <2> QED  BY <1>0, <1>1, <1>3, <1>4, <2>1 DEF Agree
<1>6. ASSUME NEW S \in SUBSET DOMAIN hs, Root \in S, ChildClosed(hs, S)
      PROVE  S = DOMAIN hs
  <2>1. ChildClosed(gs, S \cap DOMAIN gs)
    BY <1>0, <1>6 DEF ChildClosed
  <2>2. DOMAIN gs \subseteq S
    BY <1>0, <1>1, <1>6, <2>1 DEF Spans
  <2> DEFINE W == DOMAIN ss \ (A \ S)
  <2>3. ASSUME NEW y \in W, NEW c \in ss[y].groups \cap DOMAIN ss
        PROVE  c \in W
    <3>1. ss[c].parent = y
      BY <1>0 DEF Agree
    <3> SUFFICES ASSUME c \in A
                 PROVE  c \in S
      OBVIOUS
    <3>2. y \in DOMAIN hs
      BY <1>0, <1>2, <3>1
    <3>3. y \in S
      BY <1>0, <2>2, <3>2
    <3>4. c \in hs[y].groups
      BY <1>0, <3>1, <3>2
    <3> QED  BY <1>0, <1>6, <3>3, <3>4 DEF ChildClosed
  <2>4. ChildClosed(ss, W)
    BY <1>0, <2>3 DEF ChildClosed
  <2>5. W = DOMAIN ss
    BY <1>0, <1>1, <2>4 DEF Spans
  <2> QED  BY <1>0, <2>2, <2>5
<1> QED  BY <1>5, <1>6 DEF Spans

\* merge_groups: with the added groups the copy is well formed.
LEMMA GroupsAddedForm ==
    ASSUME NEW d, Formed(d), NEW s, Formed(s)
    PROVE  Formed(GroupsAdded(d, s))
<1> DEFINE A == AddedGroups(d, s)
           x == GroupsAdded(d, s)
           below(g) == {y \in A : s.groups[y].parent = g}
<1>1. /\ Agree(d.groups) /\ Spans(d.groups) /\ Agree(s.groups) /\ Spans(s.groups)
      /\ IsMap(d.entries, EntryIds, Lives) /\ IsPlaced(d.groups, d.entries)
      /\ IsMap(d.deleted, GroupIds \cup EntryIds \cup IconIds, Times)
  BY FormedParts
<1>2. /\ A \subseteq DOMAIN s.groups \ DOMAIN d.groups
      /\ \A y \in A : s.groups[y].parent \in DOMAIN s.groups \ DOMAIN d.groups => s.groups[y].parent \in A
  BY AddedGroupsClosed
<1>3. /\ Changed(d, x, x.groups, d.entries, d.deleted)
      /\ DOMAIN x.groups = DOMAIN d.groups \cup A
      /\ IsMap(x.groups, GroupIds, Groups)
      /\ \A g \in A :
            /\ x.groups[g].parent = s.groups[g].parent
            /\ x.groups[g].groups = below(g) /\ x.groups[g].entries = {}
      /\ \A g \in DOMAIN d.groups \ A :
            /\ x.groups[g].parent = d.groups[g].parent
            /\ x.groups[g].groups = d.groups[g].groups \cup below(g)
            /\ x.groups[g].entries = d.groups[g].entries
  BY GroupsAddedFields
<1> HIDE DEF A, x
<1>4. Agree(x.groups) /\ Spans(x.groups)
  <2> DEFINE hs == x.groups
  <2>1. GrownBy(d.groups, s.groups, A, hs)
    BY <1>2, <1>3 DEF GrownBy
  <2> HIDE DEF hs
  <2>2. Agree(hs) /\ Spans(hs)
    BY <1>1, <2>1, GroupsAddedTree
  <2> QED  BY <2>2 DEF hs
<1>5. IsPlaced(x.groups, d.entries)
  <2>1. \A e \in DOMAIN d.entries : Live(d.entries, e).parent \in DOMAIN d.groups
    BY <1>1 DEF IsPlaced
  <2>2. ASSUME NEW g \in DOMAIN x.groups
        PROVE  x.groups[g].entries = {e \in DOMAIN d.entries : Live(d.entries, e).parent = g}
    <3>1. CASE g \in A
      BY <1>2, <1>3, <2>1, <3>1
    <3>2. CASE g \notin A
      BY <1>1, <1>3, <3>2 DEF IsPlaced
    <3> QED  BY <3>1, <3>2
  <2> QED  BY <1>3, <2>1, <2>2 DEF IsPlaced
<1>6. Formed(x)
  BY <1>1, <1>3, <1>4, <1>5, ChangedForm
<1> QED  BY <1>6 DEF x

\* The tombstones that CondemnGroups takes over
LEMMA CondemnedForm ==
    ASSUME NEW d, Formed(d), NEW s, Formed(s)
    PROVE  LET D == DoomedGroups(d, s)
               x == Buried(d, [g \in D |-> s.deleted[g]])
           IN  /\ Formed(x)
               /\ Changed(d, x, d.groups, d.entries, x.deleted)
               /\ D \subseteq DOMAIN d.groups \ {Root}
               /\ D \subseteq DOMAIN s.deleted
               /\ D = {} => /\ DOMAIN x.deleted = DOMAIN d.deleted
                            /\ \A y \in DOMAIN d.deleted : x.deleted[y] = d.deleted[y]
<1> DEFINE D == DoomedGroups(d, s)
           f == [g \in D |-> s.deleted[g]]
           x == Buried(d, f)
<1>1. DOMAIN d = DOMAIN NewDatabase /\ Root \in DOMAIN s.groups
  BY FormedParts DEF Formed, Agree
<1>2. D \subseteq DOMAIN d.groups \ {Root} /\ D \subseteq DOMAIN s.deleted
  BY <1>1 DEF DoomedGroups, DeletedSince
<1> HIDE DEF D
<1>3. IsMap(f, GroupIds \cup EntryIds \cup IconIds, Times) /\ DOMAIN f = D
  BY <1>2, TakenTombstones
<1>4. Formed(x)
  BY <1>3, BuriedForm
<1>5. /\ Changed(d, x, d.groups, d.entries, x.deleted)
      /\ DOMAIN x.deleted = DOMAIN d.deleted \cup D
      /\ \A y \in DOMAIN d.deleted \cup D :
            x.deleted[y] = IF y \in D THEN f[y] ELSE d.deleted[y]
  BY <1>1, <1>3, BuriedFields
<1> HIDE DEF f, x
<1>6. D = {} => /\ DOMAIN x.deleted = DOMAIN d.deleted
                /\ \A y \in DOMAIN d.deleted : x.deleted[y] = d.deleted[y]
  BY <1>5
<1> QED  BY <1>2, <1>4, <1>5, <1>6 DEF D, x, f

\* The entries taken over, with what the groups then list
LEMMA EntriesAddedForm ==
    ASSUME NEW d, Formed(d), NEW s, Formed(s)
    PROVE  LET A == AddedEntries(d, s)
               x == EntriesAdded(d, s)
           IN  /\ Formed(x)
               /\ Changed(d, x, x.groups, x.entries, d.deleted)
               /\ A \subseteq DOMAIN s.entries \ DOMAIN d.entries
               /\ DOMAIN x.entries = DOMAIN d.entries \cup A
               /\ \A e \in A : x.entries[e] = s.entries[e]
               /\ \A e \in DOMAIN d.entries : x.entries[e] = d.entries[e]
               /\ DOMAIN x.groups = DOMAIN d.groups
               /\ \A g \in DOMAIN d.groups :
                     /\ x.groups[g].parent = d.groups[g].parent
                     /\ x.groups[g].ltime = d.groups[g].ltime
                     /\ x.groups[g].icon = d.groups[g].icon
<1> DEFINE A == AddedEntries(d, s)
           x == EntriesAdded(d, s)
           below(g) == {e \in A : Live(s.entries, e).parent = g}
           gs == [g \in DOMAIN d.groups |-> WithEntries(d.groups[g], below(g))]
           es == [e \in DOMAIN d.entries \cup A |-> IF e \in A THEN s.entries[e] ELSE d.entries[e]]
<1>1. /\ DOMAIN d = {"groups", "entries", "attachments", "icons", "meta", "deleted"}
      /\ IsMap(d.groups, GroupIds, Groups) /\ Agree(d.groups) /\ Spans(d.groups)
      /\ \A g \in DOMAIN d.groups : d.groups[g] \in Groups /\ g \in GroupIds
      /\ IsMap(d.entries, EntryIds, Lives) /\ IsPlaced(d.groups, d.entries)
      /\ IsMap(s.entries, EntryIds, Lives)
      /\ IsMap(d.deleted, GroupIds \cup EntryIds \cup IconIds, Times)
  BY FormedParts
<1>2. /\ A \subseteq DOMAIN s.entries \ DOMAIN d.entries
      /\ \A e \in A : Live(s.entries, e).parent \in DOMAIN d.groups
  BY DEF AddedEntries
<1> HIDE DEF A
<1>3. x = [d EXCEPT !.entries = es, !.groups = gs]
  BY DEF EntriesAdded, A
<1>4. /\ DOMAIN es = DOMAIN d.entries \cup A
      /\ \A e \in A : es[e] = s.entries[e]
      /\ \A e \in DOMAIN d.entries : es[e] = d.entries[e]
      /\ es = [e \in DOMAIN es |-> es[e]]
  BY <1>2
<1>5. \A g : below(g) \in SUBSET EntryIds
  BY <1>1, <1>2 DEF IsMap
<1> HIDE DEF below
<1>6. ASSUME NEW g \in DOMAIN d.groups
      PROVE  /\ gs[g] \in Groups
             /\ gs[g].parent = d.groups[g].parent /\ gs[g].groups = d.groups[g].groups
             /\ gs[g].entries = d.groups[g].entries \cup below(g)
             /\ gs[g].ltime = d.groups[g].ltime /\ gs[g].icon = d.groups[g].icon
  <2> DEFINE l == d.groups[g].entries \cup below(g)
  <2>1. d.groups[g] \in Groups /\ l \in SUBSET EntryIds
    BY <1>1, <1>5 DEF Groups
  <2>2. gs[g] = [d.groups[g] EXCEPT !.entries = l]
    BY DEF WithEntries
  <2> HIDE DEF gs, l
  <2>3. /\ gs[g] \in Groups
        /\ gs[g].parent = d.groups[g].parent /\ gs[g].groups = d.groups[g].groups
        /\ gs[g].entries = l
        /\ gs[g].ltime = d.groups[g].ltime /\ gs[g].icon = d.groups[g].icon
    BY <2>1, <2>2 DEF Groups
  <2> QED  BY <2>3 DEF l
<1>7. DOMAIN gs = DOMAIN d.groups /\ gs = [g \in DOMAIN gs |-> gs[g]]
  OBVIOUS
<1> HIDE DEF gs, es
<1>8. IsMap(gs, GroupIds, Groups)
  BY <1>1, <1>6, <1>7 DEF IsMap
<1>9. IsMap(es, EntryIds, Lives)
  <2>1. DOMAIN es \subseteq EntryIds
    BY <1>1, <1>2, <1>4 DEF IsMap
  <2>2. \A e \in DOMAIN es : es[e] \in Lives
    BY <1>1, <1>2, <1>4 DEF IsMap
  <2> QED  BY <1>4, <2>1, <2>2 DEF IsMap
<1>10. Agree(gs) /\ Spans(gs)
  BY <1>1, <1>6, <1>7, SameTree
<1>11. IsPlaced(gs, es)
  <2>1. \A e \in DOMAIN d.entries : Live(es, e).parent = Live(d.entries, e).parent
    BY <1>4 DEF Live
  <2>2. \A e \in A : Live(es, e).parent = Live(s.entries, e).parent
    BY <1>4 DEF Live
  <2>3. \A e \in DOMAIN es : Live(es, e).parent \in DOMAIN gs
    BY <1>1, <1>2, <1>4, <1>7, <2>1, <2>2 DEF IsPlaced
  <2>4. ASSUME NEW g \in DOMAIN gs
        PROVE  gs[g].entries = {e \in DOMAIN es : Live(es, e).parent = g}
    <3>1. gs[g].entries = {e \in DOMAIN d.entries : Live(d.entries, e).parent = g} \cup below(g)
      BY <1>1, <1>6, <1>7 DEF IsPlaced
    <3> QED  BY <1>4, <2>1, <2>2, <3>1 DEF below
  <2> QED  BY <2>3, <2>4 DEF IsPlaced
<1>12. Changed(d, x, gs, es, d.deleted)
  BY <1>1, <1>3, FieldsOf DEF Changed, Formed
<1> HIDE DEF x
<1>13. Formed(x)
  BY <1>1, <1>8, <1>9, <1>10, <1>11, <1>12, ChangedForm
<1>14. x.groups = gs /\ x.entries = es
  BY <1>12 DEF Changed
<1>15. Changed(d, x, x.groups, x.entries, d.deleted)
  BY <1>12, <1>14
<1> QED  BY <1>2, <1>4, <1>6, <1>7, <1>13, <1>14, <1>15 DEF A, x

\* merge_entries: the entries that the source deleted go.
LEMMA EntriesRemovedForm ==
    ASSUME NEW d, Formed(d), NEW s, Formed(s)
    PROVE  LET E == DoomedEntries(d, s)
               x == Buried(Removed(d, {}, E), [e \in E |-> s.deleted[e]])
           IN  /\ Formed(x)
               /\ Changed(d, x, x.groups, x.entries, x.deleted)
               /\ DOMAIN x.entries = DOMAIN d.entries \ E
               /\ \A e \in DOMAIN x.entries : x.entries[e] = d.entries[e]
               /\ DOMAIN x.groups = DOMAIN d.groups
               /\ \A g \in DOMAIN d.groups :
                     /\ x.groups[g].parent = d.groups[g].parent
                     /\ x.groups[g].ltime = d.groups[g].ltime
                     /\ x.groups[g].icon = d.groups[g].icon
               /\ DOMAIN x.deleted = DOMAIN d.deleted \cup E
<1> DEFINE E == DoomedEntries(d, s)
           f == [e \in E |-> s.deleted[e]]
           r == Removed(d, {}, E)
           x == Buried(r, f)
<1>1. DOMAIN d = DOMAIN NewDatabase
  BY DEF Formed
<1>2. E \subseteq DOMAIN d.entries /\ E \subseteq DOMAIN s.deleted
  BY DEF DoomedEntries, DeletedSince
<1> HIDE DEF E
<1>3. IsMap(f, GroupIds \cup EntryIds \cup IconIds, Times) /\ DOMAIN f = E
  BY <1>2, TakenTombstones
<1> HIDE DEF f
<1>4. Formed(r)
  <2> DEFINE S == {}
  <2>1. S \subseteq DOMAIN d.groups \ {Root} /\ ChildClosed(d.groups, S) /\ EntriesUnder(d.groups, S) \subseteq E
    BY DEF ChildClosed, EntriesUnder
  <2> HIDE DEF S
  <2>2. Formed(Removed(d, S, E))
    BY <1>2, <2>1, RemovedForm
  <2> QED  BY <2>2 DEF S
<1>5. /\ DOMAIN r = DOMAIN NewDatabase
      /\ DOMAIN r.groups = DOMAIN d.groups \ {}
      /\ \A g \in DOMAIN d.groups \ {} :
            /\ r.groups[g].parent = d.groups[g].parent
            /\ r.groups[g].ltime = d.groups[g].ltime
            /\ r.groups[g].icon = d.groups[g].icon
      /\ r.entries = Without(d.entries, E)
      /\ r.icons = d.icons /\ r.deleted = d.deleted
  <2> DEFINE S == {}
  <2> HIDE DEF S
  <2>1. /\ DOMAIN Removed(d, S, E) = DOMAIN NewDatabase
        /\ DOMAIN Removed(d, S, E).groups = DOMAIN d.groups \ S
        /\ \A g \in DOMAIN d.groups \ S :
              /\ Removed(d, S, E).groups[g].parent = d.groups[g].parent
              /\ Removed(d, S, E).groups[g].ltime = d.groups[g].ltime
              /\ Removed(d, S, E).groups[g].icon = d.groups[g].icon
        /\ Removed(d, S, E).entries = Without(d.entries, E)
        /\ Removed(d, S, E).icons = d.icons /\ Removed(d, S, E).deleted = d.deleted
    BY RemovedFields
  <2> QED  BY <2>1 DEF S
<1> HIDE DEF r
<1>6. Formed(x)
  BY <1>3, <1>4, BuriedForm
<1>7. Changed(r, x, r.groups, r.entries, x.deleted) /\ DOMAIN x.deleted = DOMAIN r.deleted \cup E
  BY <1>3, <1>5, BuriedFields
<1>8. Changed(d, x, x.groups, x.entries, x.deleted) /\ x.groups = r.groups /\ x.entries = r.entries
  BY <1>5, <1>7 DEF Changed
<1> HIDE DEF x
<1>9. /\ DOMAIN x.entries = DOMAIN d.entries \ E
      /\ \A e \in DOMAIN x.entries : x.entries[e] = d.entries[e]
  BY <1>5, <1>8 DEF Without
<1> QED  BY <1>5, <1>6, <1>7, <1>8, <1>9 DEF x, r, f, E

----------------------------------------------------------------------------
(* The pass over the entries of both.                                      *)

\* us is vs with the history of ws as well, and with the content that is newer.
VersionsMerge(us, vs, ws) ==
    /\ us \in Lives
    /\ us[1].parent = vs[1].parent
    /\ us[1].content = (IF ws[1].mtime > vs[1].mtime THEN ws[1] ELSE vs[1]).content
    /\ \A k \in DOMAIN us :
          \/ \E i \in DOMAIN vs : us[k].icon = vs[i].icon
          \/ \E j \in DOMAIN ws : us[k].icon = ws[j].icon
    /\ Len(vs) > 1 \/ Len(ws) > 1 =>
          \A i \in DOMAIN vs : \E k \in DOMAIN us : us[k].content = vs[i].content

\* The live version of an entry and its history
LEMMA LiveAndTail ==
    ASSUME NEW vs \in Lives
    PROVE  /\ vs[1] \in Versions /\ 1 \in DOMAIN vs
           /\ Tail(vs) \in Seq(Versions)
           /\ \A i \in DOMAIN vs : i = 1 \/ (i - 1 \in DOMAIN Tail(vs) /\ Tail(vs)[i - 1] = vs[i])
           /\ \A i \in DOMAIN Tail(vs) : i + 1 \in DOMAIN vs /\ Tail(vs)[i] = vs[i + 1]
           /\ Len(vs) > 1 => 1 \in DOMAIN Tail(vs)
<1>1. /\ vs \in Seq(Versions) /\ vs # <<>>
  BY DEF Lives
<1>2. /\ Tail(vs) \in Seq(Versions) /\ Len(Tail(vs)) = Len(vs) - 1 /\ Len(vs) \in Nat \ {0}
      /\ \A i \in 1 .. Len(vs) - 1 : Tail(vs)[i] = vs[i + 1]
  BY <1>1
<1>3. DOMAIN vs = 1 .. Len(vs) /\ DOMAIN Tail(vs) = 1 .. Len(vs) - 1
  BY <1>1, <1>2
<1>4. vs[1] \in Versions /\ 1 \in DOMAIN vs
  BY <1>1, <1>2, <1>3
<1> QED  BY <1>2, <1>3, <1>4

\* Versions that have not diverged have the same content.
LEMMA SameBelowTimes ==
    ASSUME NEW v \in Versions, NEW w \in Versions, ~ Diverged(v, w)
    PROVE  v.content = w.content
<1>1. [v EXCEPT !.mtime = 0, !.ltime = 0].content = [w EXCEPT !.mtime = 0, !.ltime = 0].content
  BY DEF Diverged
<1> QED  BY <1>1 DEF Versions

\* The versions of an entry after both histories were merged and the newer
\* content taken
LEMMA MergedVersionsMerge ==
    ASSUME NEW vs \in Lives, NEW ws \in Lives
    PROVE  VersionsMerge(MergedVersions(vs, ws), vs, ws)
<1> DEFINE v == vs[1]
           w == ws[1]
           h == MergedHistory(Tail(vs), Tail(ws))
           n == [v EXCEPT !.content = w.content, !.icon = w.icon, !.mtime = w.mtime]
           us == MergedVersions(vs, ws)
<1>1. /\ v \in Versions /\ 1 \in DOMAIN vs
      /\ Tail(vs) \in Seq(Versions)
      /\ \A i \in DOMAIN vs : i = 1 \/ (i - 1 \in DOMAIN Tail(vs) /\ Tail(vs)[i - 1] = vs[i])
      /\ \A i \in DOMAIN Tail(vs) : i + 1 \in DOMAIN vs /\ Tail(vs)[i] = vs[i + 1]
      /\ Len(vs) > 1 => 1 \in DOMAIN Tail(vs)
  BY LiveAndTail
<1>2. /\ w \in Versions /\ 1 \in DOMAIN ws
      /\ Tail(ws) \in Seq(Versions)
      /\ \A i \in DOMAIN Tail(ws) : i + 1 \in DOMAIN ws /\ Tail(ws)[i] = ws[i + 1]
      /\ Len(ws) > 1 => 1 \in DOMAIN Tail(ws)
  BY LiveAndTail
<1>3. /\ h \in Seq(Versions)
      /\ \A k \in DOMAIN h : \/ \E a \in DOMAIN Tail(vs) : h[k] = Tail(vs)[a]
                             \/ \E b \in DOMAIN Tail(ws) : h[k] = Tail(ws)[b]
      /\ \A a \in DOMAIN Tail(vs) : \E k \in DOMAIN h : h[k] = Tail(vs)[a]
      /\ \A b \in DOMAIN Tail(ws) : \E k \in DOMAIN h : ~ Diverged(h[k], Tail(ws)[b])
  BY <1>1, <1>2, HistoriesMerge
<1>4. us = IF w.mtime > v.mtime THEN <<n>> \o Replaced(v, h) ELSE <<v>> \o h
  BY DEF MergedVersions
<1>5. /\ n \in Versions /\ n.parent = v.parent /\ n.content = w.content /\ n.icon = w.icon
  BY <1>1, <1>2 DEF Versions
<1> HIDE DEF n, h, us
<1>6. \A k \in DOMAIN h : \/ \E i \in DOMAIN vs : h[k].icon = vs[i].icon
                          \/ \E j \in DOMAIN ws : h[k].icon = ws[j].icon
  <2> SUFFICES ASSUME NEW k \in DOMAIN h
               PROVE  \/ \E i \in DOMAIN vs : h[k].icon = vs[i].icon
                      \/ \E j \in DOMAIN ws : h[k].icon = ws[j].icon
    OBVIOUS
  <2>1. CASE \E a \in DOMAIN Tail(vs) : h[k] = Tail(vs)[a]
    <3>1. PICK a \in DOMAIN Tail(vs) : h[k] = Tail(vs)[a]
      BY <2>1
    <3>2. a + 1 \in DOMAIN vs /\ h[k] = vs[a + 1]
      BY <1>1, <3>1
    <3> QED  BY <3>2
  <2>2. CASE \E b \in DOMAIN Tail(ws) : h[k] = Tail(ws)[b]
    <3>1. PICK b \in DOMAIN Tail(ws) : h[k] = Tail(ws)[b]
      BY <2>2
    <3>2. b + 1 \in DOMAIN ws /\ h[k] = ws[b + 1]
      BY <1>2, <3>1
    <3> QED  BY <3>2
  <2> QED  BY <1>3, <2>1, <2>2
<1>7. \A i \in DOMAIN vs : i = 1 \/ \E k \in DOMAIN h : h[k].content = vs[i].content
  <2> SUFFICES ASSUME NEW i \in DOMAIN vs, i # 1
               PROVE  \E k \in DOMAIN h : h[k].content = vs[i].content
    OBVIOUS
  <2>1. i - 1 \in DOMAIN Tail(vs) /\ Tail(vs)[i - 1] = vs[i]
    BY <1>1
  <2> QED  BY <1>3, <2>1
<1>8. Len(vs) > 1 \/ Len(ws) > 1 => h # <<>>
  <2> SUFFICES ASSUME Len(vs) > 1 \/ Len(ws) > 1
               PROVE  h # <<>>
    OBVIOUS
  <2>1. PICK k : k \in DOMAIN h
    BY <1>1, <1>2, <1>3
  <2> QED  BY <2>1
<1>9. CASE w.mtime > v.mtime
  <2> DEFINE r == Replaced(v, h)
  <2>1. r = IF h # <<>> /\ Diverged(v, h[1]) THEN <<v>> \o h ELSE h
    BY DEF Replaced
  <2>2. r \in Seq(Versions)
    BY <1>1, <1>3, <2>1, OneInFront
  <2>3. \A k \in DOMAIN h : \E l \in DOMAIN r : r[l] = h[k]
    <3>1. CASE h # <<>> /\ Diverged(v, h[1])
      <4>1. r = <<v>> \o h
        BY <2>1, <3>1
      <4> HIDE DEF r
      <4>2. \A k \in DOMAIN h : (<<v>> \o h)[k + 1] = h[k] /\ k + 1 \in DOMAIN (<<v>> \o h)
        BY <1>1, <1>3, OneInFront
      <4> QED  BY <4>1, <4>2
    <3>2. CASE ~(h # <<>> /\ Diverged(v, h[1]))
      BY <2>1, <3>2
    <3> QED  BY <3>1, <3>2
  <2>4. \A l \in DOMAIN r : r[l] = v \/ \E k \in DOMAIN h : r[l] = h[k]
    <3>1. CASE h # <<>> /\ Diverged(v, h[1])
      <4>1. r = <<v>> \o h
        BY <2>1, <3>1
      <4> HIDE DEF r
      <4>2. \A l \in DOMAIN (<<v>> \o h) :
               l = 1 \/ (l - 1 \in DOMAIN h /\ (<<v>> \o h)[l] = h[l - 1])
        BY <1>1, <1>3, OneInFront
      <4>3. (<<v>> \o h)[1] = v
        BY <1>1, <1>3, OneInFront
      <4> QED  BY <4>1, <4>2, <4>3
    <3>2. CASE ~(h # <<>> /\ Diverged(v, h[1]))
      BY <2>1, <3>2
    <3> QED  BY <3>1, <3>2
  <2>5. h # <<>> => \E l \in DOMAIN r : r[l].content = v.content
    <3>1. CASE h # <<>> /\ Diverged(v, h[1])
      <4>1. r = <<v>> \o h
        BY <2>1, <3>1
      <4> HIDE DEF r
      <4>2. (<<v>> \o h)[1] = v /\ 1 \in DOMAIN (<<v>> \o h)
        BY <1>1, <1>3, OneInFront
      <4> QED  BY <4>1, <4>2
    <3>2. CASE h # <<>> /\ ~ Diverged(v, h[1])
      <4>1. 1 \in DOMAIN h /\ h[1] \in Versions
        BY <1>3, <3>2
      <4>2. v.content = h[1].content
        BY <1>1, <3>2, <4>1, SameBelowTimes
      <4> QED  BY <2>3, <4>1, <4>2
    <3> QED  BY <3>1, <3>2
  <2> HIDE DEF r
  <2>6. us = <<n>> \o r
    BY <1>4, <1>9 DEF r
  <2>7. /\ us \in Seq(Versions) /\ us[1] = n /\ 1 \in DOMAIN us
        /\ \A k \in DOMAIN r : us[k + 1] = r[k] /\ k + 1 \in DOMAIN us
        /\ \A k \in DOMAIN us : k = 1 \/ (k - 1 \in DOMAIN r /\ us[k] = r[k - 1])
    BY <1>5, <2>2, <2>6, OneInFront
  <2>8. us \in Lives
    BY <2>7 DEF Lives
  <2>9. \A k \in DOMAIN us : \/ \E i \in DOMAIN vs : us[k].icon = vs[i].icon
                             \/ \E j \in DOMAIN ws : us[k].icon = ws[j].icon
    <3> SUFFICES ASSUME NEW k \in DOMAIN us
                 PROVE  \/ \E i \in DOMAIN vs : us[k].icon = vs[i].icon
                        \/ \E j \in DOMAIN ws : us[k].icon = ws[j].icon
      OBVIOUS
    <3>1. CASE k = 1
      BY <1>2, <1>5, <2>7, <3>1
    <3>2. CASE k # 1
      <4>1. k - 1 \in DOMAIN r /\ us[k] = r[k - 1]
        BY <2>7, <3>2
      <4>2. CASE us[k] = v
        BY <1>1, <4>2
      <4>3. CASE \E l \in DOMAIN h : us[k] = h[l]
        BY <1>6, <4>3
      <4> QED  BY <2>4, <4>1, <4>2, <4>3
    <3> QED  BY <3>1, <3>2
  <2>10. ASSUME Len(vs) > 1 \/ Len(ws) > 1, NEW i \in DOMAIN vs
         PROVE  \E k \in DOMAIN us : us[k].content = vs[i].content
    <3>1. \E l \in DOMAIN r : r[l].content = vs[i].content
      <4>1. CASE i = 1
        BY <1>8, <2>5, <2>10, <4>1
      <4>2. CASE i # 1
        BY <1>7, <2>3, <4>2
      <4> QED  BY <4>1, <4>2
    <3> QED  BY <2>7, <3>1
  <2>11. us[1].parent = vs[1].parent
    BY <1>5, <2>7
  <2>12. us[1].content = (IF ws[1].mtime > vs[1].mtime THEN ws[1] ELSE vs[1]).content
    BY <1>5, <1>9, <2>7
  <2> HIDE DEF v, w
  <2>13. Len(vs) > 1 \/ Len(ws) > 1 =>
            \A i \in DOMAIN vs : \E k \in DOMAIN us : us[k].content = vs[i].content
    BY <2>10
  <2> QED  BY <2>8, <2>9, <2>11, <2>12, <2>13 DEF VersionsMerge, us
<1>10. CASE ~(w.mtime > v.mtime)
  <2>1. us = <<v>> \o h
    BY <1>4, <1>10
  <2>2. /\ us \in Seq(Versions) /\ us[1] = v /\ 1 \in DOMAIN us
        /\ \A k \in DOMAIN h : us[k + 1] = h[k] /\ k + 1 \in DOMAIN us
        /\ \A k \in DOMAIN us : k = 1 \/ (k - 1 \in DOMAIN h /\ us[k] = h[k - 1])
    BY <1>1, <1>3, <2>1, OneInFront
  <2>3. us \in Lives
    BY <2>2 DEF Lives
  <2>4. \A k \in DOMAIN us : \/ \E i \in DOMAIN vs : us[k].icon = vs[i].icon
                             \/ \E j \in DOMAIN ws : us[k].icon = ws[j].icon
    BY <1>1, <1>6, <2>2
  <2>5. \A i \in DOMAIN vs : \E k \in DOMAIN us : us[k].content = vs[i].content
    BY <1>7, <2>2
  <2>6. us[1].parent = vs[1].parent
    BY <2>2
  <2>7. us[1].content = (IF ws[1].mtime > vs[1].mtime THEN ws[1] ELSE vs[1]).content
    BY <1>10, <2>2
  <2> HIDE DEF v, w
  <2> QED  BY <2>3, <2>4, <2>5, <2>6, <2>7 DEF VersionsMerge, us
<1> QED  BY <1>9, <1>10

\* x is d but for where e is and for its versions.
SameButEntry(d, x, e) ==
    /\ Formed(x)
    /\ Changed(d, x, x.groups, x.entries, d.deleted)
    /\ DOMAIN x.groups = DOMAIN d.groups
    /\ \A g \in DOMAIN d.groups :
          /\ x.groups[g].parent = d.groups[g].parent
          /\ x.groups[g].ltime = d.groups[g].ltime
          /\ x.groups[g].icon = d.groups[g].icon
    /\ DOMAIN x.entries = DOMAIN d.entries
    /\ \A c \in DOMAIN d.entries \ {e} : x.entries[c] = d.entries[c]

\* The move of the source, later than that of the destination, to a group that
\* the destination has
MovesEntry(d, s, e) ==
    /\ Live(s.entries, e).parent # Live(d.entries, e).parent
    /\ Live(s.entries, e).ltime > Live(d.entries, e).ltime
    /\ Live(s.entries, e).parent \in DOMAIN d.groups

\* The entry is listed where the later move put it, and is otherwise as it was.
LEMMA EntryRelocatedForm ==
    ASSUME Formed(dest), Formed(source), NEW e \in DOMAIN dest.entries \cap DOMAIN source.entries
    PROVE  LET x == EntryRelocated(e)
               us == x.entries[e]
               vs == dest.entries[e]
           IN  /\ SameButEntry(dest, x, e)
               /\ us[1].parent = IF MovesEntry(dest, source, e) THEN Live(source.entries, e).parent
                                 ELSE vs[1].parent
               /\ DOMAIN us = DOMAIN vs /\ Len(us) = Len(vs)
               /\ \A i \in DOMAIN vs : /\ us[i].content = vs[i].content
                                       /\ us[i].icon = vs[i].icon
                                       /\ us[i].mtime = vs[i].mtime
<1> DEFINE x == EntryRelocated(e)
           vs == dest.entries[e]
           v == Live(dest.entries, e)
           w == Live(source.entries, e)
<1>1. /\ DOMAIN dest = {"groups", "entries", "attachments", "icons", "meta", "deleted"}
      /\ IsMap(dest.groups, GroupIds, Groups) /\ Agree(dest.groups) /\ Spans(dest.groups)
      /\ \A y \in DOMAIN dest.groups : dest.groups[y] \in Groups /\ y \in GroupIds
      /\ IsMap(dest.entries, EntryIds, Lives)
      /\ IsPlaced(dest.groups, dest.entries) /\ v \in Versions /\ w \in Versions
      /\ IsMap(dest.deleted, GroupIds \cup EntryIds \cup IconIds, Times)
      /\ vs \in Lives
  BY FormedParts
<1>2. /\ 1 \in DOMAIN vs /\ vs \in Seq(Versions)
  BY <1>1 DEF Lives
<1>3. CASE ~MovesEntry(dest, source, e)
  <2>1. x = dest
    BY <1>3 DEF EntryRelocated, MovesEntry
  <2>2. SameButEntry(dest, dest, e)
    BY DEF SameButEntry, Changed, Formed
  <2> QED  BY <1>3, <2>1, <2>2
<1>4. CASE MovesEntry(dest, source, e)
  <2> DEFINE q == w.parent
             n == Moved(v, q, w.ltime)
             gs == RelistEntry(dest.groups, e, v.parent, q)
             es == [dest.entries EXCEPT ![e][1] = n]
  <2>1. x = [dest EXCEPT !.groups = gs, !.entries = es]
    BY <1>4 DEF EntryRelocated, MovesEntry
  <2>2. q \in DOMAIN dest.groups /\ q \in GroupIds /\ w.ltime \in Times
    BY <1>1, <1>4 DEF MovesEntry, Versions
  <2>3. /\ n \in Versions /\ n.parent = q /\ n.icon = v.icon
        /\ n.mtime = v.mtime /\ n.content = v.content
    BY <1>1, <2>2, MovedType
  <2> HIDE DEF n
  <2>4. IsMap(es, EntryIds, Lives)
    BY <1>1, <1>2, <2>3, EntriesUpdate
  <2>5. /\ DOMAIN es = DOMAIN dest.entries
        /\ \A c \in DOMAIN dest.entries \ {e} : es[c] = dest.entries[c]
        /\ es[e] = [vs EXCEPT ![1] = n]
    OBVIOUS
  <2> HIDE DEF gs, es
  <2>6. /\ es[e][1] = n /\ DOMAIN es[e] = DOMAIN vs
        /\ \A i \in DOMAIN vs \ {1} : es[e][i] = vs[i]
    BY <1>2, <2>5
  <2>7. Len(es[e]) = Len(vs)
    <3>1. es[e] = [i \in DOMAIN vs |-> es[e][i]]
      BY <2>5
    <3>2. \A i \in DOMAIN vs : es[e][i] \in Versions
      BY <1>2, <2>3, <2>6
    <3>3. DOMAIN vs = 1 .. Len(vs) /\ Len(vs) \in Nat
      BY <1>2, LenProperties
    <3>4. es[e] \in [1 .. Len(vs) -> Versions]
      BY <3>1, <3>2, <3>3
    <3> QED  BY <3>3, <3>4
  <2>8. \A c \in DOMAIN dest.entries : Live(es, c).parent = IF c = e THEN q ELSE Live(dest.entries, c).parent
    BY <2>3, <2>5, <2>6 DEF Live
  <2>9. Changed(dest, x, gs, es, dest.deleted)
    BY <1>1, <2>1, FieldsOf DEF Changed, Formed
  <2>10. /\ DOMAIN gs = DOMAIN dest.groups
         /\ \A y \in DOMAIN dest.groups :
               /\ gs[y].parent = dest.groups[y].parent /\ gs[y].groups = dest.groups[y].groups
               /\ gs[y].icon = dest.groups[y].icon /\ gs[y].ltime = dest.groups[y].ltime
    BY <1>1, RelistedFields DEF gs
  <2>11. IsMap(gs, GroupIds, Groups)
    <3>1. e \in EntryIds
      BY <1>1 DEF IsMap
    <3> QED  BY <1>1, <3>1, RelistType DEF gs
  <2>12. IsPlaced(gs, es)
    BY <1>1, <2>2, <2>5, <2>8, MoveEntryPlacement DEF gs
  <2>13. Agree(gs) /\ Spans(gs)
    BY <1>1, <2>10, SameTree
  <2>14. Formed(x)
    BY <1>1, <2>4, <2>9, <2>11, <2>12, <2>13, ChangedForm
  <2>15. x.groups = gs /\ x.entries = es
    BY <2>9 DEF Changed
  <2> HIDE DEF x
  <2>16. SameButEntry(dest, x, e)
    BY <2>5, <2>9, <2>10, <2>14, <2>15 DEF SameButEntry
  <2>17. es[e][1].parent = q
    BY <2>3, <2>6
  <2>18. \A i \in DOMAIN vs : /\ es[e][i].content = vs[i].content
                              /\ es[e][i].icon = vs[i].icon
                              /\ es[e][i].mtime = vs[i].mtime
    BY <1>2, <2>3, <2>6 DEF Live
  <2> QED  BY <1>4, <2>6, <2>7, <2>15, <2>16, <2>17, <2>18 DEF x
<1> QED  BY <1>3, <1>4

\* The entry e of d after the copy s was merged into it, in x
EntryMerged(d, s, x, e) ==
    LET us == x.entries[e]
        vs == d.entries[e]
        ws == s.entries[e]
    IN /\ us[1].parent = (IF MovesEntry(d, s, e) THEN ws ELSE vs)[1].parent
       /\ us[1].content = (IF ws[1].mtime > vs[1].mtime THEN ws ELSE vs)[1].content
       /\ \A k \in DOMAIN us :
             \/ \E i \in DOMAIN vs : us[k].icon = vs[i].icon
             \/ \E j \in DOMAIN ws : us[k].icon = ws[j].icon
       /\ Len(vs) > 1 \/ Len(ws) > 1 \/ vs[1].mtime = ws[1].mtime =>
             \A i \in DOMAIN vs : \E k \in DOMAIN us : us[k].content = vs[i].content

\* Where the merge puts e is in the group that x.entries[e][1] names.
LEMMA MergedEntryForm ==
    ASSUME NEW d, Formed(d), NEW e \in DOMAIN d.entries, NEW vs \in Lives,
           vs[1].parent = d.entries[e][1].parent
    PROVE  /\ SameButEntry(d, [d EXCEPT !.entries[e] = vs], e)
           /\ [d EXCEPT !.entries[e] = vs].entries[e] = vs
<1> DEFINE es == [d.entries EXCEPT ![e] = vs]
           x == [d EXCEPT !.entries[e] = vs]
<1>1. /\ DOMAIN d = {"groups", "entries", "attachments", "icons", "meta", "deleted"}
      /\ IsMap(d.groups, GroupIds, Groups) /\ Agree(d.groups) /\ Spans(d.groups)
      /\ IsMap(d.entries, EntryIds, Lives)
      /\ IsPlaced(d.groups, d.entries)
      /\ IsMap(d.deleted, GroupIds \cup EntryIds \cup IconIds, Times)
  BY FormedParts
<1>2. x = [d EXCEPT !.entries = es]
  OBVIOUS
<1>3. /\ DOMAIN es = DOMAIN d.entries /\ es[e] = vs
      /\ \A c \in DOMAIN d.entries \ {e} : es[c] = d.entries[c]
      /\ es = [c \in DOMAIN es |-> es[c]]
  OBVIOUS
<1> HIDE DEF es, x
<1>4. Changed(d, x, d.groups, es, d.deleted)
  BY <1>1, <1>2, FieldsOf DEF Changed, Formed
<1>5. IsMap(es, EntryIds, Lives)
  BY <1>1, <1>3 DEF IsMap
<1>6. SameParents(d.entries, es) /\ SameLists(d.groups, d.groups)
  BY <1>3 DEF SameParents, SameLists, Live
<1>7. IsPlaced(d.groups, es)
  BY <1>1, <1>6, SamePlacement
<1>8. Formed(x)
  BY <1>1, <1>4, <1>5, <1>7, ChangedForm
<1>9. x.groups = d.groups /\ x.entries = es
  BY <1>4 DEF Changed
<1>10. SameButEntry(d, x, e)
  BY <1>3, <1>4, <1>8, <1>9 DEF SameButEntry
<1> QED  BY <1>3, <1>9, <1>10 DEF x

\* Two changes of one entry
LEMMA SameButEntryTwice ==
    ASSUME NEW d, NEW x, NEW y, NEW e, SameButEntry(d, x, e), SameButEntry(x, y, e)
    PROVE  SameButEntry(d, y, e)
BY DEF SameButEntry, Changed

\* The step that merges one entry
LEMMA MergeEntryMerges ==
    ASSUME Formed(dest), Formed(source), NEW e \in DOMAIN dest.entries \cap DOMAIN source.entries,
           MergeEntry(e)
    PROVE  SameButEntry(dest, dest', e) /\ EntryMerged(dest, source, dest', e)
<1> DEFINE x == EntryRelocated(e)
           us == x.entries[e]
           vs == dest.entries[e]
           ws == source.entries[e]
           ms == MergedVersions(us, ws)
<1>1. /\ SameButEntry(dest, x, e)
      /\ us[1].parent = IF MovesEntry(dest, source, e) THEN Live(source.entries, e).parent
                        ELSE vs[1].parent
      /\ DOMAIN us = DOMAIN vs /\ Len(us) = Len(vs)
      /\ \A i \in DOMAIN vs : /\ us[i].content = vs[i].content
                              /\ us[i].icon = vs[i].icon
                              /\ us[i].mtime = vs[i].mtime
  BY EntryRelocatedForm
<1>2. us \in Lives /\ vs \in Lives /\ ws \in Lives /\ e \in DOMAIN x.entries
  <2>1. Formed(x) /\ e \in DOMAIN x.entries
    BY <1>1 DEF SameButEntry
  <2>2. \A d : Formed(d) => \A c \in DOMAIN d.entries : d.entries[c] \in Lives
    BY FormedParts
  <2> QED  BY <2>1, <2>2
<1>3. 1 \in DOMAIN vs
  BY <1>2, LiveAndTail
<1> HIDE DEF x
<1>4. IF us[1].mtime = ws[1].mtime THEN dest' = x
      ELSE dest' = [x EXCEPT !.entries[e] = ms]
  BY DEF MergeEntry, x, Live
<1> HIDE DEF us, vs, ws, ms
<1>5. CASE us[1].mtime = ws[1].mtime
  <2>1. dest' = x
    BY <1>4, <1>5
  <2>2. us[1].parent = (IF MovesEntry(dest, source, e) THEN ws ELSE vs)[1].parent
    BY <1>1 DEF Live, ws
  <2>3. ~(ws[1].mtime > vs[1].mtime)
    <3>1. vs[1].mtime = ws[1].mtime
      BY <1>1, <1>3, <1>5
    <3>2. vs[1] \in Versions
      BY <1>2, LiveAndTail
    <3>3. vs[1].mtime \in Nat
      BY <3>2 DEF Versions, Times
    <3> QED  BY <3>1, <3>3
  <2>4. us[1].content = (IF ws[1].mtime > vs[1].mtime THEN ws ELSE vs)[1].content
    BY <1>1, <1>3, <2>3
  <2>5. \A k \in DOMAIN us : \E i \in DOMAIN vs : us[k].icon = vs[i].icon
    BY <1>1
  <2>6. \A i \in DOMAIN vs : \E k \in DOMAIN us : us[k].content = vs[i].content
    BY <1>1
  <2>7. dest'.entries[e] = us
    BY <2>1 DEF us
  <2>8. EntryMerged(dest, source, dest', e)
    BY <2>2, <2>4, <2>5, <2>6, <2>7 DEF EntryMerged, vs, ws
  <2> QED  BY <1>1, <2>1, <2>8
<1>6. CASE us[1].mtime # ws[1].mtime
  <2>1. dest' = [x EXCEPT !.entries[e] = ms]
    BY <1>4, <1>6
  <2>2. VersionsMerge(ms, us, ws)
    BY <1>2, MergedVersionsMerge DEF ms
  <2>3. /\ ms \in Lives /\ ms[1].parent = us[1].parent
        /\ ms[1].content = (IF ws[1].mtime > us[1].mtime THEN ws[1] ELSE us[1]).content
        /\ \A k \in DOMAIN ms :
              \/ \E i \in DOMAIN us : ms[k].icon = us[i].icon
              \/ \E j \in DOMAIN ws : ms[k].icon = ws[j].icon
        /\ Len(us) > 1 \/ Len(ws) > 1 =>
              \A i \in DOMAIN us : \E k \in DOMAIN ms : ms[k].content = us[i].content
    BY <2>2 DEF VersionsMerge
  <2>4. SameButEntry(x, dest', e) /\ dest'.entries[e] = ms
    <3>1. Formed(x)
      BY <1>1 DEF SameButEntry
    <3>2. ms[1].parent = x.entries[e][1].parent
      BY <2>3 DEF us
    <3> QED  BY <1>2, <2>1, <2>3, <3>1, <3>2, MergedEntryForm
  <2>5. SameButEntry(dest, dest', e)
    BY <1>1, <2>4, SameButEntryTwice
  <2>6. ms[1].parent = (IF MovesEntry(dest, source, e) THEN ws ELSE vs)[1].parent
    BY <1>1, <2>3 DEF Live, ws
  <2>7. ms[1].content = (IF ws[1].mtime > vs[1].mtime THEN ws ELSE vs)[1].content
    BY <1>1, <1>3, <2>3
  <2>8. \A k \in DOMAIN ms :
           \/ \E i \in DOMAIN vs : ms[k].icon = vs[i].icon
           \/ \E j \in DOMAIN ws : ms[k].icon = ws[j].icon
    BY <1>1, <2>3
  <2>9. Len(vs) > 1 \/ Len(ws) > 1 \/ vs[1].mtime = ws[1].mtime =>
           \A i \in DOMAIN vs : \E k \in DOMAIN ms : ms[k].content = vs[i].content
    <3>1. vs[1].mtime # ws[1].mtime
      BY <1>1, <1>3, <1>6
    <3> QED  BY <1>1, <2>3, <3>1
  <2>10. EntryMerged(dest, source, dest', e)
    BY <2>4, <2>6, <2>7, <2>8, <2>9 DEF EntryMerged, vs, ws
  <2> QED  BY <2>5, <2>10
<1> QED  BY <1>5, <1>6

----------------------------------------------------------------------------
(* The groups that go, and those of both.                                  *)

\* The groups under those of D
Under(gs, D) == UNION {Subtree(gs, g) : g \in D}

\* With the groups of D goes everything below them, and never the root.
LEMMA UnderClosed ==
    ASSUME NEW gs, Agree(gs), NEW D, D \subseteq DOMAIN gs \ {Root}
    PROVE  Under(gs, D) \subseteq DOMAIN gs \ {Root} /\ ChildClosed(gs, Under(gs, D))
<1>1. ASSUME NEW g \in D
      PROVE  Subtree(gs, g) \subseteq DOMAIN gs \ {Root} /\ ChildClosed(gs, Subtree(gs, g))
  BY SubtreeLeast, RootNotBelow
<1> QED  BY <1>1 DEF Under, ChildClosed

\* The step that removes the groups of to_delete
LEMMA RemoveGroupsForm ==
    ASSUME Formed(dest), doomed \subseteq DOMAIN dest.groups \ {Root}, RemoveGroups
    PROVE  LET S == Under(dest.groups, doomed)
           IN  /\ Formed(dest')
               /\ DOMAIN dest'.groups = DOMAIN dest.groups \ S
               /\ \A g \in DOMAIN dest'.groups :
                     /\ dest'.groups[g].parent = dest.groups[g].parent
                     /\ dest'.groups[g].ltime = dest.groups[g].ltime
                     /\ dest'.groups[g].icon = dest.groups[g].icon
               /\ DOMAIN dest'.entries = DOMAIN dest.entries \ EntriesUnder(dest.groups, S)
               /\ \A e \in DOMAIN dest'.entries : dest'.entries[e] = dest.entries[e]
               /\ DOMAIN dest'.icons = DOMAIN dest.icons
               /\ dest'.deleted = dest.deleted
               /\ todo' = DOMAIN dest'.groups \cap DOMAIN source.groups
<1> DEFINE S == Under(dest.groups, doomed)
           E == EntriesUnder(dest.groups, S)
           d == Removed(dest, S, E)
           ics == [c \in DOMAIN d.icons |-> HiddenBy(d.icons[c], {g \in S : dest.groups[g].icon = c})]
           meta == [f \in MetaFields |-> IF d.meta[f] \in S THEN None ELSE d.meta[f]]
<1>1. /\ Agree(dest.groups) /\ IsPlaced(dest.groups, dest.entries)
      /\ IsMap(dest.icons, IconIds, Icons)
  BY FormedParts
<1>2. S \subseteq DOMAIN dest.groups \ {Root} /\ ChildClosed(dest.groups, S)
  BY <1>1, UnderClosed
<1>3. dest' = [d EXCEPT !.icons = ics, !.meta = meta] /\ todo' = DOMAIN d.groups \cap DOMAIN source.groups
  BY DEF RemoveGroups, Under
<1> HIDE DEF S
<1>4. E \subseteq DOMAIN dest.entries
  BY <1>1, <1>2 DEF EntriesUnder, IsPlaced
<1>5. EntriesUnder(dest.groups, S) \subseteq E
  OBVIOUS
<1> HIDE DEF E
<1>6. Formed(d)
  BY <1>2, <1>4, <1>5, RemovedForm
<1>7. /\ DOMAIN d = DOMAIN NewDatabase
      /\ DOMAIN d.groups = DOMAIN dest.groups \ S
      /\ \A g \in DOMAIN dest.groups \ S :
            /\ d.groups[g].parent = dest.groups[g].parent
            /\ d.groups[g].ltime = dest.groups[g].ltime
            /\ d.groups[g].icon = dest.groups[g].icon
      /\ d.entries = Without(dest.entries, E)
      /\ d.icons = dest.icons /\ d.deleted = dest.deleted
  BY RemovedFields
<1> HIDE DEF d
<1>8. IsMap(ics, IconIds, Icons) /\ DOMAIN ics = DOMAIN dest.icons
  <2>1. ASSUME NEW X, NEW ic \in Icons
        PROVE  HiddenBy(ic, X) \in Icons
    BY DEF HiddenBy, Icons
  <2> QED  BY <1>1, <1>7, <2>1 DEF IsMap
<1> HIDE DEF ics, meta
<1>9. /\ DOMAIN dest' = DOMAIN NewDatabase
      /\ dest'.groups = d.groups /\ dest'.entries = d.entries /\ dest'.icons = ics
      /\ dest'.deleted = d.deleted
  BY <1>3, <1>7, FieldsOf
<1>10. Formed(dest')
  BY <1>6, <1>8, <1>9 DEF Formed
<1>11. /\ DOMAIN d.entries = DOMAIN dest.entries \ E
       /\ \A e \in DOMAIN d.entries : d.entries[e] = dest.entries[e]
  BY <1>7 DEF Without
<1> QED  BY <1>3, <1>7, <1>8, <1>9, <1>10, <1>11 DEF S, E

\* Any group but the root can wait at the root.
LEMMA CanWaitAtRoot ==
    ASSUME NEW gs, Agree(gs), NEW g \in DOMAIN gs \ {Root}
    PROVE  CanMoveGroup(gs, g, Root)
<1>1. Root \in DOMAIN gs /\ gs[Root].parent = None /\ None \notin DOMAIN gs /\ gs[g].parent \in DOMAIN gs
  BY DEF Agree
<1>2. AncestorsOrSelf(gs, Root) \subseteq {Root}
  <2>1. ParentClosed(gs, {Root})
    BY <1>1 DEF ParentClosed
  <2> QED  BY <1>1, <2>1, AncestorsLeast
<1> QED  BY <1>1, <1>2 DEF CanMoveGroup

\* The group g of the source, and where it goes in the destination
MovesGroup(g) == MovedInSource(g) /\ source.groups[g].parent \in DOMAIN dest.groups

\* x is d with the groups gs.
Regrouped(d, x, gs) ==
    /\ Formed(x)
    /\ Changed(d, x, gs, d.entries, d.deleted)
    /\ DOMAIN gs = DOMAIN d.groups

\* New groups in a tree of the same entries
LEMMA RegroupedForm ==
    ASSUME NEW d, Formed(d), NEW x, NEW gs, x = [d EXCEPT !.groups = gs],
           IsMap(gs, GroupIds, Groups), Agree(gs), Spans(gs), DOMAIN gs = DOMAIN d.groups,
           \A g \in DOMAIN gs : gs[g].entries = d.groups[g].entries
    PROVE  Regrouped(d, x, gs)
<1>1. /\ DOMAIN d = {"groups", "entries", "attachments", "icons", "meta", "deleted"}
      /\ IsMap(d.entries, EntryIds, Lives) /\ IsPlaced(d.groups, d.entries)
      /\ IsMap(d.deleted, GroupIds \cup EntryIds \cup IconIds, Times)
  BY FormedParts
<1>2. Changed(d, x, gs, d.entries, d.deleted)
  BY <1>1, FieldsOf DEF Changed, Formed
<1>3. SameParents(d.entries, d.entries) /\ SameLists(d.groups, gs)
  BY DEF SameParents, SameLists
<1>4. IsPlaced(gs, d.entries)
  BY <1>1, <1>3, SamePlacement
<1>5. Formed(x)
  BY <1>1, <1>2, <1>4, ChangedForm
<1> QED  BY <1>2, <1>5 DEF Regrouped

\* The fields of g change, and neither where it is nor what is in it.
LEMMA GroupRewritten ==
    ASSUME NEW gs, IsMap(gs, GroupIds, Groups), Agree(gs), Spans(gs), NEW g \in DOMAIN gs, NEW h,
           h \in Groups, h.parent = gs[g].parent, h.groups = gs[g].groups, h.entries = gs[g].entries
    PROVE  LET hs == [gs EXCEPT ![g] = h]
           IN  /\ IsMap(hs, GroupIds, Groups) /\ Agree(hs) /\ Spans(hs)
               /\ DOMAIN hs = DOMAIN gs /\ hs[g] = h
               /\ \A y \in DOMAIN gs \ {g} : hs[y] = gs[y]
               /\ \A y \in DOMAIN gs : hs[y].entries = gs[y].entries
<1> DEFINE hs == [gs EXCEPT ![g] = h]
<1>1. /\ DOMAIN hs = DOMAIN gs /\ hs[g] = h
      /\ \A y \in DOMAIN gs \ {g} : hs[y] = gs[y]
  OBVIOUS
<1>2. IsMap(hs, GroupIds, Groups)
  BY DEF IsMap
<1> HIDE DEF hs
<1>3. Agree(hs) /\ Spans(hs)
  BY <1>1, SameTree
<1> QED  BY <1>1, <1>2, <1>3 DEF hs

\* A move that CanMoveGroup allows leaves a tree, with g in q.
LEMMA MovedTree ==
    ASSUME NEW gs, IsMap(gs, GroupIds, Groups), Agree(gs), Spans(gs), NEW g \in DOMAIN gs,
           NEW q \in DOMAIN gs, CanMoveGroup(gs, g, q)
    PROVE  LET hs == MoveGroupTo(gs, g, q)
           IN  /\ IsMap(hs, GroupIds, Groups) /\ Agree(hs) /\ Spans(hs)
               /\ DOMAIN hs = DOMAIN gs
               /\ \A y \in DOMAIN gs :
                     /\ hs[y].entries = gs[y].entries /\ hs[y].icon = gs[y].icon
                     /\ hs[y].ltime = gs[y].ltime
                     /\ hs[y].parent = IF y = g THEN q ELSE gs[y].parent
<1>1. \A x \in DOMAIN gs : gs[x] \in Groups
  BY DEF IsMap
<1> QED  BY <1>1, MoveGroupType, MoveGroupTree, MovedGroupFields

\* A group of both after its step: it waits at the root if it has to move.
GroupMerged(g) ==
    /\ Regrouped(dest, dest', dest'.groups)
    /\ \A y \in DOMAIN dest.groups \ {g} :
          /\ dest'.groups[y].parent = dest.groups[y].parent
          /\ dest'.groups[y].ltime = dest.groups[y].ltime
          /\ dest'.groups[y].icon = dest.groups[y].icon
    /\ dest'.groups[g].parent = IF MovesGroup(g) THEN Root ELSE dest.groups[g].parent
    /\ dest'.groups[g].icon \in {dest.groups[g].icon, source.groups[g].icon}
    /\ moves' = IF MovesGroup(g) THEN Append(moves, <<g, source.groups[g].parent>>) ELSE moves

\* The step that merges one group
LEMMA MergeGroupMerges ==
    ASSUME Formed(dest), Formed(source), NEW g \in DOMAIN dest.groups \cap DOMAIN source.groups,
           MergeGroup(g)
    PROVE  GroupMerged(g)
<1> DEFINE s == source.groups[g]
           to == MoveGroupTo(dest.groups, g, Root)
           moved == [to EXCEPT ![g].ltime = s.ltime]
           gs == IF MovedInSource(g) THEN moved ELSE dest.groups
           hs == IF s.mtime <= gs[g].mtime THEN gs
                 ELSE [gs EXCEPT ![g].content = s.content, ![g].icon = s.icon,
                                 ![g].ltve = s.ltve, ![g].mtime = s.mtime]
<1>1. /\ DOMAIN dest = {"groups", "entries", "attachments", "icons", "meta", "deleted"}
      /\ IsMap(dest.groups, GroupIds, Groups) /\ Agree(dest.groups) /\ Spans(dest.groups)
      /\ dest.groups[g] \in Groups
      /\ Agree(source.groups) /\ s \in Groups
  BY FormedParts
<1>2. CASE MovedInSource(g) /\ s.parent \notin DOMAIN dest.groups
  <2>1. dest' = dest /\ moves' = moves
    BY <1>2 DEF MergeGroup
  <2>2. Regrouped(dest, dest, dest.groups)
    BY DEF Regrouped, Changed, Formed
  <2> QED  BY <1>2, <2>1, <2>2 DEF GroupMerged, MovesGroup
<1>3. CASE ~(MovedInSource(g) /\ s.parent \notin DOMAIN dest.groups)
  <2>1. /\ moves' = IF MovedInSource(g) THEN Append(moves, <<g, s.parent>>) ELSE moves
        /\ dest' = [dest EXCEPT !.groups = hs]
    BY <1>3 DEF MergeGroup
  <2>2. MovesGroup(g) <=> MovedInSource(g)
    BY <1>3 DEF MovesGroup
  <2> HIDE DEF moved
  <2>3. /\ IsMap(gs, GroupIds, Groups) /\ Agree(gs) /\ Spans(gs)
        /\ DOMAIN gs = DOMAIN dest.groups
        /\ \A y \in DOMAIN dest.groups :
              gs[y].entries = dest.groups[y].entries /\ gs[y].icon = dest.groups[y].icon
        /\ \A y \in DOMAIN dest.groups \ {g} :
              gs[y].parent = dest.groups[y].parent /\ gs[y].ltime = dest.groups[y].ltime
        /\ gs[g].parent = IF MovedInSource(g) THEN Root ELSE dest.groups[g].parent
    <3>1. CASE ~MovedInSource(g)
      BY <1>1, <3>1
    <3>2. CASE MovedInSource(g)
      <4>1. g # Root
        <5>1. Root \in DOMAIN source.groups /\ source.groups[Root].parent = None /\ None \notin DOMAIN dest.groups
          BY <1>1 DEF Agree
        <5> QED  BY <1>3, <3>2, <5>1
      <4>2. CanMoveGroup(dest.groups, g, Root) /\ Root \in DOMAIN dest.groups
        BY <1>1, <4>1, CanWaitAtRoot DEF Agree
      <4>3. /\ IsMap(to, GroupIds, Groups) /\ Agree(to) /\ Spans(to)
            /\ DOMAIN to = DOMAIN dest.groups
            /\ \A y \in DOMAIN dest.groups :
                  /\ to[y].entries = dest.groups[y].entries /\ to[y].icon = dest.groups[y].icon
                  /\ to[y].ltime = dest.groups[y].ltime
                  /\ to[y].parent = IF y = g THEN Root ELSE dest.groups[y].parent
        BY <1>1, <4>2, MovedTree
      <4> HIDE DEF to
      <4> DEFINE h == [to[g] EXCEPT !.ltime = s.ltime]
      <4>4. /\ h \in Groups /\ h.parent = to[g].parent /\ h.groups = to[g].groups
            /\ h.entries = to[g].entries /\ h.icon = to[g].icon
        <5>1. to[g] \in Groups /\ s.ltime \in Times
          BY <1>1, <4>3 DEF IsMap, Groups
        <5> QED  BY <5>1 DEF Groups
      <4> HIDE DEF h
      <4>5. moved = [to EXCEPT ![g] = h]
        BY DEF moved, h
      <4>6. /\ IsMap(moved, GroupIds, Groups) /\ Agree(moved) /\ Spans(moved)
            /\ DOMAIN moved = DOMAIN to /\ moved[g] = h
            /\ \A y \in DOMAIN to \ {g} : moved[y] = to[y]
            /\ \A y \in DOMAIN to : moved[y].entries = to[y].entries
        BY <4>3, <4>4, <4>5, GroupRewritten
      <4>7. gs = moved
        BY <3>2
      <4>8. \A y \in DOMAIN dest.groups : moved[y].icon = dest.groups[y].icon
        BY <4>3, <4>4, <4>6
      <4> HIDE DEF gs
      <4> QED  BY <3>2, <4>3, <4>4, <4>6, <4>7, <4>8
    <3> QED  BY <3>1, <3>2
  <2> HIDE DEF gs
  <2>4. /\ IsMap(hs, GroupIds, Groups) /\ Agree(hs) /\ Spans(hs)
        /\ DOMAIN hs = DOMAIN gs
        /\ \A y \in DOMAIN gs : hs[y].entries = gs[y].entries
        /\ \A y \in DOMAIN gs \ {g} : hs[y] = gs[y]
        /\ hs[g].parent = gs[g].parent
        /\ hs[g].icon \in {gs[g].icon, s.icon}
    <3>1. CASE s.mtime <= gs[g].mtime
      BY <2>3, <3>1
    <3>2. CASE ~(s.mtime <= gs[g].mtime)
      <4> DEFINE h == [gs[g] EXCEPT !.content = s.content, !.icon = s.icon,
                                    !.ltve = s.ltve, !.mtime = s.mtime]
      <4>1. hs = [gs EXCEPT ![g] = h]
        BY <3>2
      <4>2. /\ h \in Groups /\ h.parent = gs[g].parent /\ h.groups = gs[g].groups
            /\ h.entries = gs[g].entries /\ h.icon = s.icon
        <5>1. gs[g] \in Groups
          BY <2>3 DEF IsMap
        <5> HIDE DEF s
        <5>2. s.content \in Contents /\ s.icon \in IconValues /\ s.ltve \in EntryIds \cup {None} /\ s.mtime \in Times
          BY <1>1 DEF Groups
        <5> QED  BY <5>1, <5>2 DEF Groups
      <4> HIDE DEF h, hs
      <4>3. /\ IsMap(hs, GroupIds, Groups) /\ Agree(hs) /\ Spans(hs)
            /\ DOMAIN hs = DOMAIN gs /\ hs[g] = h
            /\ \A y \in DOMAIN gs \ {g} : hs[y] = gs[y]
            /\ \A y \in DOMAIN gs : hs[y].entries = gs[y].entries
        BY <2>3, <4>1, <4>2, GroupRewritten
      <4> QED  BY <4>2, <4>3
    <3> QED  BY <3>1, <3>2
  <2> HIDE DEF hs
  <2>5. Regrouped(dest, dest', hs)
    <3>1. DOMAIN hs = DOMAIN dest.groups /\ \A y \in DOMAIN hs : hs[y].entries = dest.groups[y].entries
      BY <2>3, <2>4
    <3> QED  BY <2>1, <2>4, <3>1, RegroupedForm
  <2>6. dest'.groups = hs
    BY <2>5 DEF Regrouped, Changed
  <2>7. \A y \in DOMAIN dest.groups \ {g} :
           /\ hs[y].parent = dest.groups[y].parent
           /\ hs[y].ltime = dest.groups[y].ltime
           /\ hs[y].icon = dest.groups[y].icon
    BY <2>3, <2>4
  <2>8. /\ hs[g].parent = IF MovedInSource(g) THEN Root ELSE dest.groups[g].parent
        /\ hs[g].icon \in {dest.groups[g].icon, source.groups[g].icon}
    BY <2>3, <2>4
  <2> QED  BY <2>1, <2>2, <2>5, <2>6, <2>7, <2>8 DEF GroupMerged
<1> QED  BY <1>2, <1>3

\* A queued move
LEMMA PlaceGroupForm ==
    ASSUME Formed(dest), PlaceGroup, NEW g, NEW q, moves[1] = <<g, q>>, g \in DOMAIN dest.groups
    PROVE  /\ moves' = Tail(moves)
           /\ \/ pc' = "error" /\ dest' = dest
              \/ /\ pc' = pc
                 /\ Regrouped(dest, dest', dest'.groups)
                 /\ q \in DOMAIN dest.groups
                 /\ \A y \in DOMAIN dest.groups :
                       /\ dest'.groups[y].icon = dest.groups[y].icon
                       /\ dest'.groups[y].parent = IF y = g THEN q ELSE dest.groups[y].parent
<1> DEFINE hs == MoveGroupTo(dest.groups, g, q)
<1>1. IsMap(dest.groups, GroupIds, Groups) /\ Agree(dest.groups) /\ Spans(dest.groups)
  BY FormedParts
<1>2. moves' = Tail(moves)
  BY DEF PlaceGroup
<1>3. CASE ~CanMoveGroup(dest.groups, g, q)
  BY <1>2, <1>3 DEF PlaceGroup
<1>4. CASE CanMoveGroup(dest.groups, g, q)
  <2>1. dest' = [dest EXCEPT !.groups = hs] /\ pc' = pc
    BY <1>4 DEF PlaceGroup
  <2>2. q \in DOMAIN dest.groups
    BY <1>4 DEF CanMoveGroup
  <2>3. /\ IsMap(hs, GroupIds, Groups) /\ Agree(hs) /\ Spans(hs)
        /\ DOMAIN hs = DOMAIN dest.groups
        /\ \A y \in DOMAIN dest.groups :
              /\ hs[y].entries = dest.groups[y].entries /\ hs[y].icon = dest.groups[y].icon
              /\ hs[y].parent = IF y = g THEN q ELSE dest.groups[y].parent
    BY <1>1, <1>4, <2>2, MovedTree
  <2> HIDE DEF hs
  <2>4. Regrouped(dest, dest', hs)
    BY <2>1, <2>3, RegroupedForm
  <2>5. dest'.groups = hs
    BY <2>4 DEF Regrouped, Changed
  <2> QED  BY <1>2, <2>1, <2>2, <2>3, <2>4, <2>5
<1> QED  BY <1>3, <1>4

----------------------------------------------------------------------------
(* The first invariant: the copies are well formed, and what the passes    *)
(* still have to do is about groups and entries that exist.                *)

Editing == {"edit dest", "edit source"}

\* The groups to remove are there, and the root is not one of them.
DoomedThere ==
    pc \in {"add entries", "remove entries", "entries"} =>
        doomed \subseteq DOMAIN dest.groups \ {Root}

\* What is still to visit is in both copies.
TodoThere ==
    /\ pc \in {"remove entries", "entries"} =>
          todo \subseteq DOMAIN dest.entries \cap DOMAIN source.entries
    /\ pc = "groups" => todo \subseteq DOMAIN dest.groups \cap DOMAIN source.groups

\* The groups to move are there.
MovesThere ==
    /\ moves \in Seq(GroupIds \X GroupIds)
    /\ pc = "groups" => \A k \in DOMAIN moves : moves[k][1] \in DOMAIN dest.groups
    /\ pc \notin {"groups", "ok", "error"} => moves = <<>>

CopiesFormed == Formed(dest) /\ Formed(source) /\ Formed(orig)

TreeInv == CopiesFormed /\ now \in Nat /\ DoomedThere /\ TodoThere /\ MovesThere

\* The copies start as one that is well formed, by AncestorsAssumption.
LEMMA TreeInvInit == Init => TreeInv
<1> SUFFICES ASSUME Init
             PROVE  TreeInv
  OBVIOUS
<1>1. dest \in Ancestors /\ source = dest /\ orig = dest /\ now = 1 /\ pc = "edit dest" /\ moves = <<>>
  BY DEF Init
<1>2. Formed(dest)
  BY <1>1, AncestorsAssumption DEF IsDatabase, Formed, Lives
<1>3. moves \in Seq(GroupIds \X GroupIds)
  <2>1. <<>> \in Seq(GroupIds \X GroupIds)
    OBVIOUS
  <2> QED  BY <1>1, <2>1
<1> QED  BY <1>1, <1>2, <1>3 DEF TreeInv, CopiesFormed, DoomedThere, TodoThere, MovesThere

\* An edit of one of the copies
LEMMA EditSteps ==
    ASSUME Formed(dest), Formed(source), now \in Nat
    PROVE  /\ EditDest => EditOf(dest, dest') /\ now' \in Nat
           /\ EditSource => EditOf(source, source') /\ now' \in Nat
<1>1. ASSUME EditDest
      PROVE  EditOf(dest, dest') /\ now' \in Nat
  <2>1. PICK t \in now .. MaxTime : now' = t /\ dest' \in Edited(dest, t)
    BY <1>1 DEF EditDest
  <2>2. t \in Times
    BY <2>1, MergeBoundsAssumption DEF Times
  <2> QED  BY <2>1, <2>2, Edits DEF Times
<1>2. ASSUME EditSource
      PROVE  EditOf(source, source') /\ now' \in Nat
  <2> DEFINE first == IF pc = "edit dest" THEN 1 ELSE now
  <2>1. \E t \in first .. MaxTime : now' = t /\ source' \in Edited(source, t)
    BY <1>2 DEF EditSource
  <2>2. first \in Nat
    OBVIOUS
  <2> HIDE DEF first
  <2>3. PICK t \in first .. MaxTime : now' = t /\ source' \in Edited(source, t)
    BY <2>1
  <2>4. t \in Times
    BY <2>2, <2>3, MergeBoundsAssumption DEF Times
  <2> QED  BY <2>3, <2>4, Edits DEF Times
<1> QED  BY <1>1, <1>2

\* An edit keeps the copies well formed.
LEMMA TreeInvEdits ==
    ASSUME TreeInv, EditDest \/ EditSource
    PROVE  TreeInv'
<1>1. Formed(dest) /\ Formed(source) /\ Formed(orig) /\ now \in Nat
  BY DEF TreeInv, CopiesFormed
<1>2. CASE EditDest
  <2>1. Formed(dest') /\ now' \in Nat
    BY <1>1, <1>2, EditSteps DEF EditOf
  <2>2. /\ pc' = pc /\ pc = "edit dest"
        /\ UNCHANGED <<source, orig, moves>>
    BY <1>2 DEF EditDest
  <2> QED  BY <1>1, <2>1, <2>2 DEF TreeInv, CopiesFormed, DoomedThere, TodoThere, MovesThere
<1>3. CASE EditSource
  <2>1. Formed(source') /\ now' \in Nat
    BY <1>1, <1>3, EditSteps DEF EditOf
  <2>2. /\ pc' = "edit source" /\ pc \in {"edit dest", "edit source"}
        /\ UNCHANGED <<dest, orig, moves>>
    BY <1>3 DEF EditSource
  <2> QED  BY <1>1, <2>1, <2>2 DEF TreeInv, CopiesFormed, DoomedThere, TodoThere, MovesThere
<1> QED  BY <1>2, <1>3

\* The passes up to the removal of entries keep the destination well formed, and
\* leave to the next ones what is there.
LEMMA TreeInvEarly ==
    ASSUME TreeInv, MergeIcons \/ AddGroups \/ CondemnGroups \/ AddEntries \/ RemoveEntries
    PROVE  TreeInv'
<1>1. Formed(dest) /\ Formed(source) /\ Formed(orig) /\ now \in Nat
  BY DEF TreeInv, CopiesFormed
<1>2. CASE MergeIcons
  <2>1. /\ orig' = dest /\ dest' = MergedIcons(dest, source) /\ pc' = "add groups"
        /\ pc \in {"edit dest", "edit source"} /\ UNCHANGED <<source, now, moves>>
    BY <1>2 DEF MergeIcons
  <2>2. Formed(dest')
    BY <1>1, <2>1, MergedIconsForm
  <2> QED  BY <1>1, <2>1, <2>2 DEF TreeInv, CopiesFormed, DoomedThere, TodoThere, MovesThere
<1>3. CASE AddGroups
  <2>1. /\ dest' = GroupsAdded(dest, source) /\ pc' = "condemn groups"
        /\ pc = "add groups" /\ UNCHANGED <<source, now, orig, moves>>
    BY <1>3 DEF AddGroups
  <2>2. Formed(dest')
    BY <1>1, <2>1, GroupsAddedForm
  <2> QED  BY <1>1, <2>1, <2>2 DEF TreeInv, CopiesFormed, DoomedThere, TodoThere, MovesThere
<1>4. CASE CondemnGroups
  <2>1. /\ doomed' = DoomedGroups(dest, source)
        /\ dest' = Buried(dest, [g \in DoomedGroups(dest, source) |-> source.deleted[g]])
        /\ pc' = "add entries"
        /\ pc = "condemn groups" /\ UNCHANGED <<source, now, orig, moves>>
    BY <1>4 DEF CondemnGroups
  <2>2. Formed(dest') /\ dest'.groups = dest.groups /\ doomed' \subseteq DOMAIN dest.groups \ {Root}
    <3> DEFINE D == DoomedGroups(dest, source)
               x == Buried(dest, [g \in D |-> source.deleted[g]])
    <3>1. Formed(x) /\ Changed(dest, x, dest.groups, dest.entries, x.deleted) /\ D \subseteq DOMAIN dest.groups \ {Root}
      BY <1>1, CondemnedForm
    <3> HIDE DEF D
    <3>2. dest' = x /\ doomed' = D
      BY <2>1 DEF D
    <3> HIDE DEF x
    <3> QED  BY <3>1, <3>2 DEF Changed
  <2> QED  BY <1>1, <2>1, <2>2 DEF TreeInv, CopiesFormed, DoomedThere, TodoThere, MovesThere
<1>5. CASE AddEntries
  <2>1. /\ todo' = DOMAIN dest.entries \cap DOMAIN source.entries
        /\ dest' = EntriesAdded(dest, source)
        /\ pc' = "remove entries"
        /\ pc = "add entries" /\ UNCHANGED <<source, now, orig, moves, doomed>>
    BY <1>5 DEF AddEntries
  <2>2. /\ Formed(dest') /\ DOMAIN dest'.groups = DOMAIN dest.groups
        /\ DOMAIN dest.entries \subseteq DOMAIN dest'.entries
    <3> DEFINE x == EntriesAdded(dest, source)
    <3>1. /\ Formed(x) /\ DOMAIN x.groups = DOMAIN dest.groups
          /\ DOMAIN x.entries = DOMAIN dest.entries \cup AddedEntries(dest, source)
      BY <1>1, EntriesAddedForm
    <3> HIDE DEF x
    <3> QED  BY <2>1, <3>1 DEF x
  <2> QED  BY <1>1, <2>1, <2>2 DEF TreeInv, CopiesFormed, DoomedThere, TodoThere, MovesThere
<1>6. CASE RemoveEntries
  <2>1. /\ dest' = LET E == DoomedEntries(dest, source)
                   IN Buried(Removed(dest, {}, E), [e \in E |-> source.deleted[e]])
        /\ pc' = "entries"
        /\ pc = "remove entries" /\ UNCHANGED <<source, now, orig, moves, todo, doomed>>
    BY <1>6 DEF RemoveEntries
  <2>2. /\ Formed(dest') /\ DOMAIN dest'.groups = DOMAIN dest.groups
        /\ DOMAIN dest'.entries = DOMAIN dest.entries \ DoomedEntries(dest, source)
    BY <1>1, <2>1, EntriesRemovedForm
  <2>3. DoomedEntries(dest, source) \cap DOMAIN source.entries = {}
    BY DEF DoomedEntries
  <2> QED  BY <1>1, <2>1, <2>2, <2>3 DEF TreeInv, CopiesFormed, DoomedThere, TodoThere, MovesThere
<1> QED  BY <1>2, <1>3, <1>4, <1>5, <1>6

\* Merging an entry keeps the tree.
LEMMA TreeInvEntries ==
    ASSUME TreeInv, NEW e \in EntryIds, MergeEntry(e)
    PROVE  TreeInv'
<1>1. /\ Formed(dest) /\ Formed(source) /\ Formed(orig) /\ now \in Nat
      /\ doomed \subseteq DOMAIN dest.groups \ {Root}
      /\ todo \subseteq DOMAIN dest.entries \cap DOMAIN source.entries
      /\ moves \in Seq(GroupIds \X GroupIds) /\ moves = <<>>
  BY DEF TreeInv, CopiesFormed, DoomedThere, TodoThere, MovesThere, MergeEntry
<1>2. /\ pc = "entries" /\ e \in todo /\ pc' \in {"entries", "error"} /\ todo' = todo \ {e}
      /\ UNCHANGED <<source, now, orig, doomed, moves>>
  BY DEF MergeEntry
<1>3. SameButEntry(dest, dest', e)
  BY <1>1, <1>2, MergeEntryMerges
<1>4. Formed(dest') /\ DOMAIN dest'.groups = DOMAIN dest.groups /\ DOMAIN dest'.entries = DOMAIN dest.entries
  BY <1>3 DEF SameButEntry
<1> QED  BY <1>1, <1>2, <1>4 DEF TreeInv, CopiesFormed, DoomedThere, TodoThere, MovesThere

\* Removing the condemned groups keeps the tree.
LEMMA TreeInvRemoval ==
    ASSUME TreeInv, RemoveGroups
    PROVE  TreeInv'
<1>1. /\ Formed(dest) /\ Formed(source) /\ Formed(orig) /\ now \in Nat
      /\ doomed \subseteq DOMAIN dest.groups \ {Root}
      /\ moves \in Seq(GroupIds \X GroupIds) /\ moves = <<>>
  BY DEF TreeInv, CopiesFormed, DoomedThere, MovesThere, RemoveGroups
<1>2. /\ pc' = "groups" /\ UNCHANGED <<source, now, orig, doomed, moves>>
  BY DEF RemoveGroups
<1>3. /\ Formed(dest') /\ todo' = DOMAIN dest'.groups \cap DOMAIN source.groups
  BY <1>1, RemoveGroupsForm
<1>4. DOMAIN moves' = {}
  BY <1>1, <1>2
<1> QED  BY <1>1, <1>2, <1>3, <1>4 DEF TreeInv, CopiesFormed, DoomedThere, TodoThere, MovesThere

\* Merging a group keeps the tree; what it queues is about a group that is there.
LEMMA TreeInvGroups ==
    ASSUME TreeInv, NEW g \in GroupIds, MergeGroup(g)
    PROVE  TreeInv'
<1>1. /\ Formed(dest) /\ Formed(source) /\ Formed(orig) /\ now \in Nat
      /\ todo \subseteq DOMAIN dest.groups \cap DOMAIN source.groups
      /\ moves \in Seq(GroupIds \X GroupIds)
      /\ \A k \in DOMAIN moves : moves[k][1] \in DOMAIN dest.groups
  BY DEF TreeInv, CopiesFormed, TodoThere, MovesThere, MergeGroup
<1>2. /\ pc = "groups" /\ g \in todo /\ pc' \in {"groups", "error"} /\ todo' = todo \ {g}
      /\ UNCHANGED <<source, now, orig, doomed>>
  BY DEF MergeGroup
<1>3. GroupMerged(g)
  BY <1>1, <1>2, MergeGroupMerges
<1>4. /\ Formed(dest') /\ DOMAIN dest'.groups = DOMAIN dest.groups
      /\ moves' = IF MovesGroup(g) THEN Append(moves, <<g, source.groups[g].parent>>) ELSE moves
  BY <1>3 DEF GroupMerged, Regrouped
<1>5. /\ moves' \in Seq(GroupIds \X GroupIds)
      /\ \A k \in DOMAIN moves' : moves'[k][1] \in DOMAIN dest.groups
  <2>1. CASE ~MovesGroup(g)
    BY <1>1, <1>4, <2>1
  <2>2. CASE MovesGroup(g)
    <3> DEFINE m == <<g, source.groups[g].parent>>
    <3>1. source.groups[g].parent \in GroupIds
      BY <1>1, <2>2, FormedParts DEF MovesGroup
    <3>2. m \in GroupIds \X GroupIds /\ m[1] = g /\ g \in DOMAIN dest.groups
      BY <1>1, <1>2, <3>1
    <3> HIDE DEF m
    <3>3. moves' = Append(moves, m)
      BY <1>4, <2>2 DEF m
    <3>4. /\ moves' \in Seq(GroupIds \X GroupIds)
          /\ \A k \in DOMAIN moves' : moves'[k] = m \/ (k \in DOMAIN moves /\ moves'[k] = moves[k])
      BY <1>1, <3>2, <3>3
    <3> QED  BY <1>1, <3>2, <3>4
  <2> QED  BY <2>1, <2>2
<1> QED  BY <1>1, <1>2, <1>4, <1>5 DEF TreeInv, CopiesFormed, DoomedThere, TodoThere, MovesThere

\* The first of the queued moves
LEMMA FirstMove ==
    ASSUME moves \in Seq(GroupIds \X GroupIds), moves # <<>>
    PROVE  /\ 1 \in DOMAIN moves /\ moves[1] = <<moves[1][1], moves[1][2]>>
           /\ moves[1][1] \in GroupIds /\ moves[1][2] \in GroupIds
           /\ Tail(moves) \in Seq(GroupIds \X GroupIds)
           /\ \A k \in DOMAIN Tail(moves) : k + 1 \in DOMAIN moves /\ Tail(moves)[k] = moves[k + 1]
           /\ \A k \in DOMAIN moves : k = 1 \/ (k - 1 \in DOMAIN Tail(moves) /\ Tail(moves)[k - 1] = moves[k])
<1>1. /\ Len(moves) \in Nat \ {0} /\ DOMAIN moves = 1 .. Len(moves)
      /\ moves[1] \in GroupIds \X GroupIds
      /\ Tail(moves) \in Seq(GroupIds \X GroupIds) /\ Len(Tail(moves)) = Len(moves) - 1
      /\ \A k \in 1 .. Len(moves) - 1 : Tail(moves)[k] = moves[k + 1]
  OBVIOUS
<1>2. DOMAIN Tail(moves) = 1 .. Len(moves) - 1
  BY <1>1
<1> QED  BY <1>1, <1>2

\* A queued move keeps the tree, whether it is done or fails.
LEMMA TreeInvPlaces ==
    ASSUME TreeInv, PlaceGroup
    PROVE  TreeInv'
<1>1. /\ Formed(dest) /\ Formed(source) /\ Formed(orig) /\ now \in Nat
      /\ moves \in Seq(GroupIds \X GroupIds)
      /\ \A k \in DOMAIN moves : moves[k][1] \in DOMAIN dest.groups
  BY DEF TreeInv, CopiesFormed, MovesThere, PlaceGroup
<1>2. /\ pc = "groups" /\ moves # <<>> /\ todo = {} /\ pc' \in {"groups", "error"}
      /\ UNCHANGED <<source, now, orig, todo, doomed>>
  BY DEF PlaceGroup
<1> DEFINE g == moves[1][1]
           q == moves[1][2]
<1>3. /\ moves[1] = <<g, q>> /\ g \in DOMAIN dest.groups
      /\ Tail(moves) \in Seq(GroupIds \X GroupIds)
      /\ \A k \in DOMAIN Tail(moves) : Tail(moves)[k][1] \in DOMAIN dest.groups
  BY <1>1, <1>2, FirstMove
<1> HIDE DEF g, q
<1>4. moves' = Tail(moves) /\ (dest' = dest \/ Regrouped(dest, dest', dest'.groups))
  BY <1>1, <1>3, PlaceGroupForm
<1>5. Formed(dest') /\ DOMAIN dest'.groups = DOMAIN dest.groups
  BY <1>1, <1>4 DEF Regrouped
<1> QED  BY <1>1, <1>2, <1>3, <1>4, <1>5 DEF TreeInv, CopiesFormed, DoomedThere, TodoThere, MovesThere

\* TreeInv is inductive.
LEMMA TreeInvSteps == TreeInv /\ [Next]_vars => TreeInv'
<1> SUFFICES ASSUME TreeInv, [Next]_vars
             PROVE  TreeInv'
  OBVIOUS
<1>1. CASE EditDest \/ EditSource
  BY <1>1, TreeInvEdits
<1>2. CASE MergeIcons \/ AddGroups \/ CondemnGroups \/ AddEntries \/ RemoveEntries
  BY <1>2, TreeInvEarly
<1>3. CASE \E e \in EntryIds : MergeEntry(e)
  BY <1>3, TreeInvEntries
<1>4. CASE RemoveGroups
  BY <1>4, TreeInvRemoval
<1>5. CASE \E g \in GroupIds : MergeGroup(g)
  BY <1>5, TreeInvGroups
<1>6. CASE PlaceGroup
  BY <1>6, TreeInvPlaces
<1>7. CASE Succeed
  BY <1>7 DEF Succeed, TreeInv, CopiesFormed, DoomedThere, TodoThere, MovesThere
<1>8. CASE UNCHANGED vars
  BY <1>8 DEF vars, TreeInv, CopiesFormed, DoomedThere, TodoThere, MovesThere
<1> QED  BY <1>1, <1>2, <1>3, <1>4, <1>5, <1>6, <1>7, <1>8 DEF Next

\* Before, during and after a merge, both copies are trees with every entry in
\* one group, and no pass waits for something that is not there.
THEOREM TreeInvHolds == Spec => []TreeInv
BY TreeInvInit, TreeInvSteps, PTL DEF Spec

\* Whatever the two sides did, and after every pass of the merge, also one that
\* ends with an error, the groups of the destination are one tree and every
\* entry is in one group.
THEOREM MergeIsATree == Spec => []MergeKeepsTree
<1>1. TreeInv => MergeKeepsTree
  BY DEF TreeInv, CopiesFormed, Formed, MergeKeepsTree
<1> QED  BY <1>1, TreeInvHolds, PTL

----------------------------------------------------------------------------
(* What a step does, in the words of the invariants that follow.           *)

\* The groups of x are those of d that are in X, where they were and as they
\* looked.
SamePlaces(d, x, X) ==
    /\ DOMAIN x.groups \cap X = DOMAIN d.groups \cap X
    /\ \A g \in DOMAIN d.groups \cap X :
          /\ x.groups[g].parent = d.groups[g].parent
          /\ x.groups[g].ltime = d.groups[g].ltime
          /\ x.groups[g].icon = d.groups[g].icon

SameEntries(d, x, X) ==
    /\ DOMAIN x.entries \cap X = DOMAIN d.entries \cap X
    /\ \A e \in DOMAIN d.entries \cap X : x.entries[e] = d.entries[e]

DestEdited ==
    /\ pc = "edit dest" /\ pc' = pc
    /\ Grown(dest, dest') /\ (Resolves(dest) => Resolves(dest'))
    /\ UNCHANGED <<source, orig, todo, doomed, moves>>

SourceEdited ==
    /\ pc \in Editing /\ pc' = "edit source"
    /\ Grown(source, source') /\ (Resolves(source) => Resolves(source'))
    /\ UNCHANGED <<dest, orig, todo, doomed, moves>>

IconsMerged ==
    /\ pc \in Editing /\ pc' = "add groups"
    /\ orig' = dest
    /\ dest'.groups = dest.groups /\ dest'.entries = dest.entries
    /\ \A x \in DOMAIN dest'.deleted \ IconIds :
          x \in DOMAIN dest.deleted /\ dest'.deleted[x] = dest.deleted[x]
    /\ DOMAIN dest.icons \subseteq DOMAIN dest'.icons \cup DOMAIN source.deleted
    /\ DOMAIN source.icons \subseteq DOMAIN dest'.icons \cup DOMAIN dest.deleted
    /\ UNCHANGED <<source, todo, doomed, moves>>

GroupsCame ==
    /\ pc = "add groups" /\ pc' = "condemn groups"
    /\ dest'.entries = dest.entries /\ dest'.deleted = dest.deleted /\ dest'.icons = dest.icons
    /\ SamePlaces(dest, dest', DOMAIN dest.groups)
    /\ DOMAIN dest'.groups \subseteq DOMAIN dest.groups \cup DOMAIN source.groups
    /\ \A g \in DOMAIN dest'.groups \ DOMAIN dest.groups :
          dest'.groups[g].icon = source.groups[g].icon
    /\ \A g \in DOMAIN source.groups :
          g \in DOMAIN dest'.groups \/ DeletedSince(dest, g, LastUpdate(source, g))
    /\ UNCHANGED <<source, orig, todo, doomed, moves>>

GroupsCondemned ==
    /\ pc = "condemn groups" /\ pc' = "add entries"
    /\ doomed' \subseteq DOMAIN dest.groups \ DOMAIN source.groups
    /\ doomed' \subseteq DOMAIN source.deleted
    /\ dest'.groups = dest.groups /\ dest'.entries = dest.entries /\ dest'.icons = dest.icons
    /\ doomed' = {} => /\ DOMAIN dest'.deleted = DOMAIN dest.deleted
                       /\ \A x \in DOMAIN dest.deleted : dest'.deleted[x] = dest.deleted[x]
    /\ UNCHANGED <<source, orig, todo, moves>>

EntriesCame ==
    /\ pc = "add entries" /\ pc' = "remove entries"
    /\ todo' = DOMAIN dest.entries \cap DOMAIN source.entries
    /\ DOMAIN dest'.entries = DOMAIN dest.entries \cup AddedEntries(dest, source)
    /\ SameEntries(dest, dest', DOMAIN dest.entries)
    /\ \A e \in AddedEntries(dest, source) : e \in DOMAIN source.entries /\ dest'.entries[e] = source.entries[e]
    /\ DOMAIN dest'.groups = DOMAIN dest.groups
    /\ SamePlaces(dest, dest', DOMAIN dest.groups)
    /\ dest'.icons = dest.icons
    /\ UNCHANGED <<source, orig, doomed, moves>>

EntriesGone ==
    /\ pc = "remove entries" /\ pc' = "entries"
    /\ DOMAIN dest'.entries = DOMAIN dest.entries \ DoomedEntries(dest, source)
    /\ SameEntries(dest, dest', DOMAIN dest'.entries)
    /\ DOMAIN dest'.groups = DOMAIN dest.groups
    /\ SamePlaces(dest, dest', DOMAIN dest.groups)
    /\ DOMAIN dest'.deleted = DOMAIN dest.deleted \cup DoomedEntries(dest, source)
    /\ dest'.icons = dest.icons
    /\ UNCHANGED <<source, orig, todo, doomed, moves>>

EntryDone(e) ==
    /\ pc = "entries" /\ pc' \in {"entries", "error"}
    /\ e \in todo /\ todo' = todo \ {e}
    /\ EntryMerged(dest, source, dest', e)
    /\ DOMAIN dest'.entries = DOMAIN dest.entries
    /\ SameEntries(dest, dest', DOMAIN dest.entries \ {e})
    /\ DOMAIN dest'.groups = DOMAIN dest.groups
    /\ SamePlaces(dest, dest', DOMAIN dest.groups)
    /\ dest'.deleted = dest.deleted /\ dest'.icons = dest.icons
    /\ UNCHANGED <<source, orig, doomed, moves>>

GroupsGone ==
    /\ pc = "entries" /\ pc' = "groups" /\ todo = {}
    /\ todo' = DOMAIN dest'.groups \cap DOMAIN source.groups
    /\ DOMAIN dest'.groups \subseteq DOMAIN dest.groups
    /\ SamePlaces(dest, dest', DOMAIN dest'.groups)
    /\ DOMAIN dest'.entries \subseteq DOMAIN dest.entries
    /\ SameEntries(dest, dest', DOMAIN dest'.entries)
    /\ doomed = {} => /\ DOMAIN dest'.groups = DOMAIN dest.groups
                      /\ DOMAIN dest'.entries = DOMAIN dest.entries
    /\ dest'.deleted = dest.deleted /\ DOMAIN dest'.icons = DOMAIN dest.icons
    /\ UNCHANGED <<source, orig, doomed, moves>>

GroupDone(g) ==
    /\ pc = "groups" /\ pc' \in {"groups", "error"}
    /\ g \in todo /\ todo' = todo \ {g}
    /\ DOMAIN dest'.groups = DOMAIN dest.groups
    /\ SamePlaces(dest, dest', DOMAIN dest.groups \ {g})
    /\ dest'.groups[g].parent = IF MovesGroup(g) THEN Root ELSE dest.groups[g].parent
    /\ dest'.groups[g].icon \in {dest.groups[g].icon, source.groups[g].icon}
    /\ moves' = IF MovesGroup(g) THEN Append(moves, <<g, source.groups[g].parent>>) ELSE moves
    /\ dest'.entries = dest.entries /\ dest'.deleted = dest.deleted /\ dest'.icons = dest.icons
    /\ UNCHANGED <<source, orig, doomed>>

\* The move of g to q, unless it fails
GroupPlaced(g, q) ==
    /\ pc = "groups" /\ todo = {} /\ moves # <<>>
    /\ moves[1] = <<g, q>> /\ moves' = Tail(moves)
    /\ DOMAIN dest'.groups = DOMAIN dest.groups
    /\ \A y \in DOMAIN dest.groups : dest'.groups[y].icon = dest.groups[y].icon
    /\ \/ pc' = "error"
       \/ /\ pc' = pc /\ g \in DOMAIN dest.groups
          /\ \A y \in DOMAIN dest.groups :
                dest'.groups[y].parent = IF y = g THEN q ELSE dest.groups[y].parent
    /\ dest'.entries = dest.entries /\ dest'.deleted = dest.deleted /\ dest'.icons = dest.icons
    /\ UNCHANGED <<source, orig, todo, doomed>>

Rested ==
    /\ \/ pc' = pc
       \/ pc = "groups" /\ pc' = "ok" /\ todo = {} /\ moves = <<>>
    /\ UNCHANGED <<dest, source, orig, todo, doomed, moves>>

\* The edits and the first passes
LEMMA EarlySteps ==
    ASSUME TreeInv
    PROVE  /\ EditDest => DestEdited
           /\ EditSource => SourceEdited
           /\ MergeIcons => IconsMerged
           /\ AddGroups => GroupsCame
           /\ CondemnGroups => GroupsCondemned
<1>1. Formed(dest) /\ Formed(source) /\ now \in Nat
  BY DEF TreeInv, CopiesFormed
<1>2. ASSUME EditDest
      PROVE  DestEdited
  <2>1. EditOf(dest, dest')
    BY <1>1, <1>2, EditSteps
  <2> QED  BY <1>2, <2>1 DEF EditDest, EditOf, DestEdited
<1>3. ASSUME EditSource
      PROVE  SourceEdited
  <2>1. EditOf(source, source')
    BY <1>1, <1>3, EditSteps
  <2> QED  BY <1>3, <2>1 DEF EditSource, EditOf, SourceEdited, Editing
<1>4. ASSUME MergeIcons
      PROVE  IconsMerged
  <2> DEFINE x == MergedIcons(dest, source)
  <2>1. /\ x.groups = dest.groups /\ x.entries = dest.entries
        /\ \A y \in DOMAIN x.deleted \ IconIds : y \in DOMAIN dest.deleted /\ x.deleted[y] = dest.deleted[y]
        /\ \A c \in DOMAIN dest.icons : c \in DOMAIN x.icons \/ c \in DOMAIN source.deleted
        /\ \A c \in DOMAIN source.icons : c \in DOMAIN x.icons \/ c \in DOMAIN dest.deleted
    BY <1>1, MergedIconsForm
  <2>2. /\ pc \in Editing /\ pc' = "add groups" /\ orig' = dest /\ dest' = x
        /\ UNCHANGED <<source, todo, doomed, moves>>
    BY <1>4 DEF MergeIcons, Editing
  <2> HIDE DEF x
  <2> QED  BY <2>1, <2>2 DEF IconsMerged
<1>5. ASSUME AddGroups
      PROVE  GroupsCame
  <2> DEFINE x == GroupsAdded(dest, source)
             A == AddedGroups(dest, source)
  <2>1. /\ Changed(dest, x, x.groups, dest.entries, dest.deleted)
        /\ DOMAIN x.groups = DOMAIN dest.groups \cup A
        /\ \A g \in A : x.groups[g].icon = source.groups[g].icon
        /\ \A g \in DOMAIN dest.groups \ A :
              /\ x.groups[g].parent = dest.groups[g].parent
              /\ x.groups[g].icon = dest.groups[g].icon
              /\ x.groups[g].ltime = dest.groups[g].ltime
    BY <1>1, GroupsAddedFields
  <2>2. /\ A \subseteq DOMAIN source.groups \ DOMAIN dest.groups
        /\ \A g \in DOMAIN source.groups \ DOMAIN dest.groups :
              ~DeletedSince(dest, g, LastUpdate(source, g)) => g \in A
    BY AddedGroupsClosed
  <2>3. /\ pc = "add groups" /\ pc' = "condemn groups" /\ dest' = x
        /\ UNCHANGED <<source, orig, todo, doomed, moves>>
    BY <1>5 DEF AddGroups
  <2> HIDE DEF x, A
  <2>4. x.entries = dest.entries /\ x.deleted = dest.deleted /\ x.icons = dest.icons
    BY <2>1 DEF Changed
  <2>5. SamePlaces(dest, x, DOMAIN dest.groups)
    BY <2>1, <2>2 DEF SamePlaces
  <2>6. \A g \in DOMAIN source.groups :
           g \in DOMAIN x.groups \/ DeletedSince(dest, g, LastUpdate(source, g))
    BY <2>1, <2>2
  <2>7. \A g \in DOMAIN x.groups \ DOMAIN dest.groups : x.groups[g].icon = source.groups[g].icon
    BY <2>1
  <2>8. DOMAIN x.groups \subseteq DOMAIN dest.groups \cup DOMAIN source.groups
    BY <2>1, <2>2
  <2> QED  BY <2>3, <2>4, <2>5, <2>6, <2>7, <2>8 DEF GroupsCame
<1>6. ASSUME CondemnGroups
      PROVE  GroupsCondemned
  <2> DEFINE D == DoomedGroups(dest, source)
             x == Buried(dest, [g \in D |-> source.deleted[g]])
  <2>1. /\ Changed(dest, x, dest.groups, dest.entries, x.deleted)
        /\ D \subseteq DOMAIN source.deleted
        /\ D = {} => /\ DOMAIN x.deleted = DOMAIN dest.deleted
                     /\ \A y \in DOMAIN dest.deleted : x.deleted[y] = dest.deleted[y]
    BY <1>1, CondemnedForm
  <2>2. D \subseteq DOMAIN dest.groups \ DOMAIN source.groups
    BY DEF DoomedGroups
  <2>3. /\ pc = "condemn groups" /\ pc' = "add entries" /\ doomed' = D /\ dest' = x
        /\ UNCHANGED <<source, orig, todo, moves>>
    BY <1>6 DEF CondemnGroups
  <2> HIDE DEF x, D
  <2> QED  BY <2>1, <2>2, <2>3 DEF GroupsCondemned, Changed
<1> QED  BY <1>2, <1>3, <1>4, <1>5, <1>6

\* The passes over entries
LEMMA EntrySteps ==
    ASSUME TreeInv
    PROVE  /\ AddEntries => EntriesCame
           /\ RemoveEntries => EntriesGone
           /\ \A e \in EntryIds : MergeEntry(e) => EntryDone(e)
<1>1. Formed(dest) /\ Formed(source)
  BY DEF TreeInv, CopiesFormed
<1>2. ASSUME AddEntries
      PROVE  EntriesCame
  <2> DEFINE x == EntriesAdded(dest, source)
             A == AddedEntries(dest, source)
  <2>1. /\ Changed(dest, x, x.groups, x.entries, dest.deleted)
        /\ A \subseteq DOMAIN source.entries \ DOMAIN dest.entries
        /\ DOMAIN x.entries = DOMAIN dest.entries \cup A
        /\ \A e \in A : x.entries[e] = source.entries[e]
        /\ \A e \in DOMAIN dest.entries : x.entries[e] = dest.entries[e]
        /\ DOMAIN x.groups = DOMAIN dest.groups
        /\ \A g \in DOMAIN dest.groups :
              /\ x.groups[g].parent = dest.groups[g].parent
              /\ x.groups[g].ltime = dest.groups[g].ltime
              /\ x.groups[g].icon = dest.groups[g].icon
    BY <1>1, EntriesAddedForm
  <2>2. /\ pc = "add entries" /\ pc' = "remove entries"
        /\ todo' = DOMAIN dest.entries \cap DOMAIN source.entries /\ dest' = x
        /\ UNCHANGED <<source, orig, doomed, moves>>
    BY <1>2 DEF AddEntries
  <2> HIDE DEF x
  <2>3. /\ SamePlaces(dest, x, DOMAIN dest.groups) /\ SameEntries(dest, x, DOMAIN dest.entries)
        /\ x.icons = dest.icons
    BY <2>1 DEF SamePlaces, SameEntries, Changed
  <2> QED  BY <2>1, <2>2, <2>3 DEF EntriesCame
<1>3. ASSUME RemoveEntries
      PROVE  EntriesGone
  <2> DEFINE E == DoomedEntries(dest, source)
             x == Buried(Removed(dest, {}, E), [e \in E |-> source.deleted[e]])
  <2>1. /\ Changed(dest, x, x.groups, x.entries, x.deleted)
        /\ DOMAIN x.entries = DOMAIN dest.entries \ E
        /\ \A e \in DOMAIN x.entries : x.entries[e] = dest.entries[e]
        /\ DOMAIN x.groups = DOMAIN dest.groups
        /\ \A g \in DOMAIN dest.groups :
              /\ x.groups[g].parent = dest.groups[g].parent
              /\ x.groups[g].ltime = dest.groups[g].ltime
              /\ x.groups[g].icon = dest.groups[g].icon
        /\ DOMAIN x.deleted = DOMAIN dest.deleted \cup E
    BY <1>1, EntriesRemovedForm
  <2>2. /\ pc = "remove entries" /\ pc' = "entries" /\ dest' = x
        /\ UNCHANGED <<source, orig, todo, doomed, moves>>
    BY <1>3 DEF RemoveEntries
  <2> HIDE DEF x
  <2>3. /\ SamePlaces(dest, x, DOMAIN dest.groups) /\ SameEntries(dest, x, DOMAIN x.entries)
        /\ x.icons = dest.icons
    BY <2>1 DEF SamePlaces, SameEntries, Changed
  <2> QED  BY <2>1, <2>2, <2>3 DEF EntriesGone
<1>4. ASSUME NEW e \in EntryIds, MergeEntry(e)
      PROVE  EntryDone(e)
  <2>1. /\ pc = "entries" /\ e \in todo /\ pc' \in {"entries", "error"} /\ todo' = todo \ {e}
        /\ UNCHANGED <<source, orig, doomed, moves>>
    BY <1>4 DEF MergeEntry
  <2>2. e \in DOMAIN dest.entries \cap DOMAIN source.entries
    BY <2>1 DEF TreeInv, TodoThere
  <2>3. SameButEntry(dest, dest', e) /\ EntryMerged(dest, source, dest', e)
    BY <1>1, <1>4, <2>2, MergeEntryMerges
  <2>4. /\ DOMAIN dest'.entries = DOMAIN dest.entries
        /\ SameEntries(dest, dest', DOMAIN dest.entries \ {e})
        /\ DOMAIN dest'.groups = DOMAIN dest.groups
        /\ SamePlaces(dest, dest', DOMAIN dest.groups)
        /\ dest'.deleted = dest.deleted /\ dest'.icons = dest.icons
    BY <2>3 DEF SameButEntry, SamePlaces, SameEntries, Changed
  <2> QED  BY <2>1, <2>3, <2>4 DEF EntryDone
<1> QED  BY <1>2, <1>3, <1>4

\* The passes over groups
LEMMA GroupSteps ==
    ASSUME TreeInv
    PROVE  /\ RemoveGroups => GroupsGone
           /\ \A g \in GroupIds : MergeGroup(g) => GroupDone(g)
           /\ PlaceGroup => \E g, q : GroupPlaced(g, q)
<1>1. Formed(dest) /\ Formed(source)
  BY DEF TreeInv, CopiesFormed
<1>2. ASSUME RemoveGroups
      PROVE  GroupsGone
  <2>1. pc = "entries" /\ pc' = "groups" /\ todo = {} /\ UNCHANGED <<source, orig, doomed, moves>>
    BY <1>2 DEF RemoveGroups
  <2>2. doomed \subseteq DOMAIN dest.groups \ {Root}
    BY <2>1 DEF TreeInv, DoomedThere
  <2> DEFINE S == Under(dest.groups, doomed)
             E == EntriesUnder(dest.groups, S)
  <2>3. /\ DOMAIN dest'.groups = DOMAIN dest.groups \ S
        /\ \A g \in DOMAIN dest'.groups :
              /\ dest'.groups[g].parent = dest.groups[g].parent
              /\ dest'.groups[g].ltime = dest.groups[g].ltime
              /\ dest'.groups[g].icon = dest.groups[g].icon
        /\ DOMAIN dest'.entries = DOMAIN dest.entries \ E
        /\ \A e \in DOMAIN dest'.entries : dest'.entries[e] = dest.entries[e]
        /\ DOMAIN dest'.icons = DOMAIN dest.icons
        /\ dest'.deleted = dest.deleted
        /\ todo' = DOMAIN dest'.groups \cap DOMAIN source.groups
    BY <1>1, <1>2, <2>2, RemoveGroupsForm
  <2>4. doomed = {} => S = {} /\ E = {}
    BY DEF Under, EntriesUnder
  <2> HIDE DEF S, E
  <2>5. /\ SamePlaces(dest, dest', DOMAIN dest'.groups) /\ SameEntries(dest, dest', DOMAIN dest'.entries)
    BY <2>3 DEF SamePlaces, SameEntries
  <2> QED  BY <2>1, <2>3, <2>4, <2>5 DEF GroupsGone
<1>3. ASSUME NEW g \in GroupIds, MergeGroup(g)
      PROVE  GroupDone(g)
  <2>1. /\ pc = "groups" /\ g \in todo /\ pc' \in {"groups", "error"} /\ todo' = todo \ {g}
        /\ UNCHANGED <<source, orig, doomed>>
    BY <1>3 DEF MergeGroup
  <2>2. g \in DOMAIN dest.groups \cap DOMAIN source.groups
    BY <2>1 DEF TreeInv, TodoThere
  <2>3. GroupMerged(g)
    BY <1>1, <1>3, <2>2, MergeGroupMerges
  <2>4. /\ DOMAIN dest'.groups = DOMAIN dest.groups
        /\ SamePlaces(dest, dest', DOMAIN dest.groups \ {g})
        /\ dest'.entries = dest.entries /\ dest'.deleted = dest.deleted /\ dest'.icons = dest.icons
    BY <2>3 DEF GroupMerged, Regrouped, Changed, SamePlaces
  <2> QED  BY <2>1, <2>3, <2>4 DEF GroupDone, GroupMerged
<1>4. ASSUME PlaceGroup
      PROVE  \E g, q : GroupPlaced(g, q)
  <2>1. /\ pc = "groups" /\ moves # <<>> /\ todo = {}
        /\ UNCHANGED <<source, orig, todo, doomed>>
    BY <1>4 DEF PlaceGroup
  <2>2. moves \in Seq(GroupIds \X GroupIds) /\ \A k \in DOMAIN moves : moves[k][1] \in DOMAIN dest.groups
    BY <2>1 DEF TreeInv, MovesThere
  <2> DEFINE g == moves[1][1]
             q == moves[1][2]
  <2>3. moves[1] = <<g, q>> /\ g \in DOMAIN dest.groups
    BY <2>1, <2>2, FirstMove
  <2> HIDE DEF g, q
  <2>4. /\ moves' = Tail(moves)
        /\ \/ pc' = "error" /\ dest' = dest
           \/ /\ pc' = pc
              /\ Regrouped(dest, dest', dest'.groups)
              /\ \A y \in DOMAIN dest.groups :
                    /\ dest'.groups[y].icon = dest.groups[y].icon
                    /\ dest'.groups[y].parent = IF y = g THEN q ELSE dest.groups[y].parent
    BY <1>1, <1>4, <2>3, PlaceGroupForm
  <2>5. GroupPlaced(g, q)
    BY <2>1, <2>3, <2>4 DEF GroupPlaced, Regrouped, Changed
  <2> QED  BY <2>5
<1> QED  BY <1>2, <1>3, <1>4

\* Every step is one of these.
LEMMA StepsAre ==
    ASSUME TreeInv, [Next]_vars
    PROVE  \/ DestEdited \/ SourceEdited
           \/ IconsMerged \/ GroupsCame \/ GroupsCondemned \/ EntriesCame \/ EntriesGone
           \/ \E e \in EntryIds : EntryDone(e)
           \/ GroupsGone
           \/ \E g \in GroupIds : GroupDone(g)
           \/ \E g, q : GroupPlaced(g, q)
           \/ Rested
<1>1. CASE EditDest \/ EditSource \/ MergeIcons \/ AddGroups \/ CondemnGroups
  BY <1>1, EarlySteps
<1>2. CASE AddEntries \/ RemoveEntries \/ \E e \in EntryIds : MergeEntry(e)
  BY <1>2, EntrySteps
<1>3. CASE RemoveGroups \/ (\E g \in GroupIds : MergeGroup(g)) \/ PlaceGroup
  BY <1>3, GroupSteps
<1>4. CASE Succeed
  BY <1>4 DEF Succeed, Rested
<1>5. CASE UNCHANGED vars
  BY <1>5 DEF vars, Rested
<1> QED  BY <1>1, <1>2, <1>3, <1>4, <1>5 DEF Next

----------------------------------------------------------------------------
(* Deletions.                                                              *)

Early == {"add groups", "condemn groups", "add entries", "remove entries"}

\* Groups go only if the source has a tombstone for a group that was here.
NoneDoomed ==
    /\ pc \in Editing \cup {"add groups", "condemn groups"} => doomed = {}
    /\ pc = "add groups" => DOMAIN dest.groups = DOMAIN orig.groups
    /\ pc = "condemn groups" => DOMAIN dest.groups \subseteq DOMAIN orig.groups \cup DOMAIN source.groups
    /\ pc \notin Editing /\ DeletedGroups = {} => doomed = {}

\* Until entries are removed, those that were here are as they were.
EntriesUntouched ==
    pc \in Early => SameEntries(orig, dest, DOMAIN orig.entries)

\* After that, those the source deleted are gone, for good.
DeletionsDone ==
    pc \in {"entries", "groups", "ok"} =>
        \A e \in DOMAIN orig.entries \ DOMAIN source.entries :
            DeletedSince(source, e, Live(orig.entries, e).mtime) =>
                e \notin DOMAIN dest.entries /\ e \in DOMAIN dest.deleted

DeletionsInv == NoneDoomed /\ EntriesUntouched /\ OnlyDeletedGoes /\ DeletionsDone

\* Entries unchanged twice are unchanged.
LEMMA SameEntriesOnward ==
    ASSUME NEW o, NEW d, NEW x, SameEntries(o, d, DOMAIN o.entries),
           SameEntries(d, x, DOMAIN d.entries)
    PROVE  SameEntries(o, x, DOMAIN o.entries)
BY DEF SameEntries

\* DeletionsInv is inductive, given TreeInv.
LEMMA DeletionsStep ==
    ASSUME TreeInv, DeletionsInv, [Next]_vars
    PROVE  DeletionsInv'
<1>1. NoneDoomed /\ EntriesUntouched /\ OnlyDeletedGoes /\ DeletionsDone
  BY DEF DeletionsInv
<1>2. CASE DestEdited
  BY <1>1, <1>2 DEF DestEdited, DeletionsInv, NoneDoomed, EntriesUntouched, OnlyDeletedGoes,
     DeletionsDone, Editing, Early
<1>3. CASE SourceEdited
  BY <1>1, <1>3 DEF SourceEdited, DeletionsInv, NoneDoomed, EntriesUntouched, OnlyDeletedGoes,
     DeletionsDone, Editing, Early
<1>4. CASE IconsMerged
  <2>1. doomed' = {} /\ DOMAIN dest'.groups = DOMAIN orig'.groups
    BY <1>1, <1>4 DEF IconsMerged, NoneDoomed, Editing
  <2>2. SameEntries(orig', dest', DOMAIN orig'.entries)
    BY <1>4 DEF IconsMerged, SameEntries
  <2>3. OnlyDeletedGoes'
    BY <1>4 DEF IconsMerged, OnlyDeletedGoes
  <2>4. pc' = "add groups"
    BY <1>4 DEF IconsMerged
  <2> QED  BY <2>1, <2>2, <2>3, <2>4 DEF DeletionsInv, NoneDoomed, EntriesUntouched, DeletionsDone
<1>5. CASE GroupsCame
  <2>1. /\ pc = "add groups" /\ pc' = "condemn groups"
        /\ orig' = orig /\ source' = source /\ doomed' = doomed
        /\ dest'.entries = dest.entries
        /\ DOMAIN dest'.groups \subseteq DOMAIN dest.groups \cup DOMAIN source.groups
        /\ DOMAIN dest.groups \subseteq DOMAIN dest'.groups
    BY <1>5 DEF GroupsCame, SamePlaces
  <2>2. SameEntries(orig, dest', DOMAIN orig.entries)
    BY <1>1, <2>1 DEF EntriesUntouched, Early, SameEntries
  <2>3. NoneDoomed'
    BY <1>1, <2>1 DEF NoneDoomed
  <2>4. OnlyDeletedGoes'
    BY <1>1, <2>1 DEF OnlyDeletedGoes, DeletedGroups, NoneDoomed
  <2> QED  BY <2>1, <2>2, <2>3, <2>4 DEF DeletionsInv, EntriesUntouched, DeletionsDone
<1>6. CASE GroupsCondemned
  <2>1. /\ pc = "condemn groups" /\ pc' = "add entries"
        /\ orig' = orig /\ source' = source
        /\ dest'.entries = dest.entries /\ dest'.groups = dest.groups
        /\ doomed' \subseteq DOMAIN dest.groups \ DOMAIN source.groups
        /\ doomed' \subseteq DOMAIN source.deleted
    BY <1>6 DEF GroupsCondemned
  <2>2. SameEntries(orig, dest', DOMAIN orig.entries)
    BY <1>1, <2>1 DEF EntriesUntouched, Early, SameEntries
  <2>3. doomed' \subseteq DeletedGroups
    BY <1>1, <2>1 DEF NoneDoomed, DeletedGroups
  <2>4. DeletedGroups' = DeletedGroups
    BY <2>1 DEF DeletedGroups
  <2>5. NoneDoomed'
    BY <2>1, <2>3, <2>4 DEF NoneDoomed, Editing
  <2>6. OnlyDeletedGoes'
    BY <1>1, <2>1, <2>4 DEF OnlyDeletedGoes
  <2> QED  BY <2>1, <2>2, <2>5, <2>6 DEF DeletionsInv, EntriesUntouched, DeletionsDone
<1>7. CASE EntriesCame
  <2>1. /\ pc = "add entries" /\ pc' = "remove entries"
        /\ orig' = orig /\ source' = source /\ doomed' = doomed
        /\ DOMAIN dest.entries \subseteq DOMAIN dest'.entries
        /\ SameEntries(dest, dest', DOMAIN dest.entries)
        /\ DOMAIN dest'.groups = DOMAIN dest.groups
    BY <1>7 DEF EntriesCame
  <2>2. SameEntries(orig, dest', DOMAIN orig.entries)
    BY <1>1, <2>1, SameEntriesOnward DEF EntriesUntouched, Early
  <2>3. DeletedGroups' = DeletedGroups
    BY <2>1 DEF DeletedGroups
  <2>4. NoneDoomed'
    BY <1>1, <2>1, <2>3 DEF NoneDoomed, Editing
  <2>5. OnlyDeletedGoes'
    BY <1>1, <2>1, <2>3 DEF OnlyDeletedGoes
  <2> QED  BY <2>1, <2>2, <2>4, <2>5 DEF DeletionsInv, EntriesUntouched, DeletionsDone
<1>8. CASE EntriesGone
  <2>1. /\ pc = "remove entries" /\ pc' = "entries"
        /\ orig' = orig /\ source' = source /\ doomed' = doomed
        /\ DOMAIN dest'.entries = DOMAIN dest.entries \ DoomedEntries(dest, source)
        /\ DOMAIN dest'.groups = DOMAIN dest.groups
        /\ DOMAIN dest'.deleted = DOMAIN dest.deleted \cup DoomedEntries(dest, source)
    BY <1>8 DEF EntriesGone
  <2>2. \A e \in DOMAIN orig.entries :
           e \in DOMAIN dest.entries /\ Live(dest.entries, e) = Live(orig.entries, e)
    BY <1>1, <2>1 DEF EntriesUntouched, Early, SameEntries, Live
  <2>3. DeletedGroups' = DeletedGroups
    BY <2>1 DEF DeletedGroups
  <2>4. NoneDoomed'
    BY <1>1, <2>1, <2>3 DEF NoneDoomed, Editing
  <2>5. \A e \in DOMAIN orig.entries \ DOMAIN dest'.entries :
           DeletedSince(source, e, Live(orig.entries, e).mtime)
    BY <2>1, <2>2 DEF DoomedEntries
  <2>6. OnlyDeletedGoes'
    BY <1>1, <2>1, <2>3, <2>5 DEF OnlyDeletedGoes, Editing
  <2>7. ASSUME NEW e \in DOMAIN orig.entries \ DOMAIN source.entries,
               DeletedSince(source, e, Live(orig.entries, e).mtime)
        PROVE  e \notin DOMAIN dest'.entries /\ e \in DOMAIN dest'.deleted
    BY <2>1, <2>2, <2>7 DEF DoomedEntries
  <2> QED  BY <2>1, <2>4, <2>6, <2>7 DEF DeletionsInv, EntriesUntouched, DeletionsDone, Early
<1>9. ASSUME NEW e \in EntryIds, EntryDone(e)
      PROVE  DeletionsInv'
  <2>1. /\ pc = "entries" /\ pc' \in {"entries", "error"}
        /\ orig' = orig /\ source' = source /\ doomed' = doomed
        /\ DOMAIN dest'.entries = DOMAIN dest.entries
        /\ DOMAIN dest'.groups = DOMAIN dest.groups
        /\ dest'.deleted = dest.deleted
    BY <1>9 DEF EntryDone
  <2> QED  BY <1>1, <2>1 DEF DeletionsInv, EntriesUntouched, DeletionsDone, Early, NoneDoomed,
           Editing, OnlyDeletedGoes, DeletedGroups
<1>10. CASE GroupsGone
  <2>1. /\ pc = "entries" /\ pc' = "groups"
        /\ orig' = orig /\ source' = source /\ doomed' = doomed
        /\ DOMAIN dest'.entries \subseteq DOMAIN dest.entries
        /\ doomed = {} => /\ DOMAIN dest'.groups = DOMAIN dest.groups
                          /\ DOMAIN dest'.entries = DOMAIN dest.entries
        /\ dest'.deleted = dest.deleted
    BY <1>10 DEF GroupsGone
  <2>2. DeletedGroups' = DeletedGroups
    BY <2>1 DEF DeletedGroups
  <2>3. NoneDoomed'
    BY <1>1, <2>1, <2>2 DEF NoneDoomed, Editing
  <2>4. OnlyDeletedGoes'
    BY <1>1, <2>1, <2>2 DEF NoneDoomed, OnlyDeletedGoes, Editing
  <2> QED  BY <1>1, <2>1, <2>3, <2>4 DEF DeletionsInv, EntriesUntouched, DeletionsDone, Early
<1>11. ASSUME NEW g \in GroupIds, GroupDone(g)
       PROVE  DeletionsInv'
  <2>1. /\ pc = "groups" /\ pc' \in {"groups", "error"}
        /\ orig' = orig /\ source' = source /\ doomed' = doomed
        /\ dest'.entries = dest.entries
        /\ DOMAIN dest'.groups = DOMAIN dest.groups
        /\ dest'.deleted = dest.deleted
    BY <1>11 DEF GroupDone
  <2> QED  BY <1>1, <2>1 DEF DeletionsInv, EntriesUntouched, DeletionsDone, Early, NoneDoomed,
           Editing, OnlyDeletedGoes, DeletedGroups
<1>12. ASSUME NEW g, NEW q, GroupPlaced(g, q)
       PROVE  DeletionsInv'
  <2>1. /\ pc = "groups" /\ pc' \in {"groups", "error"}
        /\ orig' = orig /\ source' = source /\ doomed' = doomed
        /\ dest'.entries = dest.entries
        /\ DOMAIN dest'.groups = DOMAIN dest.groups
        /\ dest'.deleted = dest.deleted
    BY <1>12 DEF GroupPlaced
  <2> QED  BY <1>1, <2>1 DEF DeletionsInv, EntriesUntouched, DeletionsDone, Early, NoneDoomed,
           Editing, OnlyDeletedGoes, DeletedGroups
<1>13. CASE Rested
  BY <1>1, <1>13 DEF Rested, DeletionsInv, EntriesUntouched, DeletionsDone, Early, NoneDoomed,
     Editing, OnlyDeletedGoes, DeletedGroups, SameEntries
<1> QED  BY <1>2, <1>3, <1>4, <1>5, <1>6, <1>7, <1>8, <1>9, <1>10, <1>11, <1>12, <1>13, StepsAre

\* It holds throughout.
LEMMA DeletionsHold == Spec => []DeletionsInv
<1>1. Init => DeletionsInv
  BY DEF Init, DeletionsInv, NoneDoomed, EntriesUntouched, OnlyDeletedGoes, DeletionsDone, Editing, Early
<1>2. TreeInv /\ DeletionsInv /\ [Next]_vars => DeletionsInv'
  BY DeletionsStep
<1> QED  BY <1>1, <1>2, TreeInvHolds, PTL DEF Spec

\* Without a deletion of groups in the source, a merge removes no group, and of
\* the entries only those deleted there after their last change here.
THEOREM OnlyDeletedGo == Spec => []OnlyDeletedGoes
<1>1. DeletionsInv => OnlyDeletedGoes
  BY DEF DeletionsInv
<1> QED  BY <1>1, DeletionsHold, PTL

\* What the source deleted, and nobody changed here since, is gone after the
\* merge, and its tombstone is here.
THEOREM DeletionsDoArrive == Spec => []DeletionsArrive
<1>1. DeletionsInv => DeletionsArrive
  BY DEF DeletionsInv, DeletionsDone, DeletionsArrive
<1> QED  BY <1>1, DeletionsHold, PTL

----------------------------------------------------------------------------
(* Entries of both.                                                        *)

\* Of an entry of both whose live versions have different times, one of the
\* copies has a history: the version that was replaced went there.
HistoriesTell(d, s) ==
    \A e \in DOMAIN d.entries \cap DOMAIN s.entries :
        \/ Live(d.entries, e).mtime = Live(s.entries, e).mtime
        \/ Len(d.entries[e]) > 1 \/ Len(s.entries[e]) > 1

\* What MergeEntry promises of an entry of both
Settled(e) ==
    LET v == Live(orig.entries, e)
        w == Live(source.entries, e)
        u == Live(dest.entries, e)
    IN /\ u.content = (IF w.mtime > v.mtime THEN w ELSE v).content
       /\ w.ltime > v.ltime /\ w.parent \in DOMAIN dest.groups => u.parent = w.parent
       /\ {x.content : x \in VersionsOf(orig.entries, e)}
                \subseteq {x.content : x \in VersionsOf(dest.entries, e)}

EntriesInv ==
    /\ pc \in Editing => HistoriesTell(dest, source)
    /\ pc \notin Editing => HistoriesTell(orig, source)
    /\ pc = "remove entries" => DOMAIN orig.entries \cap DOMAIN source.entries \subseteq todo
    /\ pc \in {"entries", "groups", "ok"} =>
          \A e \in Shared : IF pc = "entries" /\ e \in todo
                              THEN dest.entries[e] = orig.entries[e]
                              ELSE Settled(e)

\* An edit replaces no version that it does not keep in the history.
LEMMA EditTells ==
    ASSUME NEW d, NEW x, NEW s, Grown(d, x), DOMAIN s.entries \subseteq Known(dest) \cup Known(source)
    PROVE  /\ HistoriesTell(d, s) => HistoriesTell(x, s)
           /\ HistoriesTell(s, d) => HistoriesTell(s, x)
<1>1. \A e \in DOMAIN x.entries \cap DOMAIN s.entries :
         /\ e \in DOMAIN d.entries
         /\ \/ Len(x.entries[e]) > 1
            \/ /\ Len(x.entries[e]) = Len(d.entries[e])
               /\ Live(x.entries, e).mtime = Live(d.entries, e).mtime
  BY DEF Grown
<1> QED  BY <1>1 DEF HistoriesTell

\* Settled only looks at the entry, and at which groups there are.
LEMMA SettledStays ==
    ASSUME NEW e \in DOMAIN dest.entries, Settled(e), orig' = orig, source' = source,
           dest'.entries[e] = dest.entries[e],
           DOMAIN dest'.groups \subseteq DOMAIN dest.groups
    PROVE  Settled(e)'
BY DEF Settled, Live, VersionsOf

\* The step that merges e settles it, as the histories tell a replaced version.
LEMMA EntrySettles ==
    ASSUME NEW e \in Shared, dest.entries[e] = orig.entries[e], HistoriesTell(orig, source),
           EntryDone(e)
    PROVE  Settled(e)'
<1> DEFINE us == dest'.entries[e]
           vs == orig.entries[e]
           ws == source.entries[e]
<1>1. /\ us[1].parent = (IF MovesEntry(dest, source, e) THEN ws ELSE vs)[1].parent
      /\ us[1].content = (IF ws[1].mtime > vs[1].mtime THEN ws ELSE vs)[1].content
      /\ Len(vs) > 1 \/ Len(ws) > 1 \/ vs[1].mtime = ws[1].mtime =>
            \A i \in DOMAIN vs : \E k \in DOMAIN us : us[k].content = vs[i].content
  BY DEF EntryDone, EntryMerged
<1>2. orig' = orig /\ source' = source /\ DOMAIN dest'.groups = DOMAIN dest.groups
  BY DEF EntryDone
<1>3. Len(vs) > 1 \/ Len(ws) > 1 \/ vs[1].mtime = ws[1].mtime
  BY DEF HistoriesTell, Shared, Live
<1>4. ws[1].ltime > vs[1].ltime /\ ws[1].parent \in DOMAIN dest.groups => us[1].parent = ws[1].parent
  BY <1>1 DEF MovesEntry, Live
<1>5. {x.content : x \in VersionsOf(orig.entries, e)} \subseteq {x.content : x \in VersionsOf(dest'.entries, e)}
  BY <1>1, <1>3 DEF VersionsOf
<1>6. us[1].content = (IF ws[1].mtime > vs[1].mtime THEN ws[1] ELSE vs[1]).content
  BY <1>1
<1> QED  BY <1>2, <1>4, <1>5, <1>6 DEF Settled, Live

\* EntriesInv is inductive, given TreeInv and DeletionsInv.
LEMMA EntriesStep ==
    ASSUME TreeInv, DeletionsInv, EntriesInv, [Next]_vars
    PROVE  EntriesInv'
<1>1. /\ pc \in Editing => HistoriesTell(dest, source)
      /\ pc \notin Editing => HistoriesTell(orig, source)
      /\ pc = "remove entries" => DOMAIN orig.entries \cap DOMAIN source.entries \subseteq todo
      /\ pc \in {"entries", "groups", "ok"} =>
            \A e \in Shared : IF pc = "entries" /\ e \in todo
                                THEN dest.entries[e] = orig.entries[e]
                                ELSE Settled(e)
  BY DEF EntriesInv
<1>2. pc \in Early => SameEntries(orig, dest, DOMAIN orig.entries)
  BY DEF DeletionsInv, EntriesUntouched
<1>3. /\ DOMAIN dest.entries \subseteq Known(dest) \cup Known(source)
      /\ DOMAIN source.entries \subseteq Known(dest) \cup Known(source)
  BY DEF Known
<1>4. CASE DestEdited
  <2>1. pc = "edit dest" /\ pc' = pc /\ source' = source /\ Grown(dest, dest')
    BY <1>4 DEF DestEdited
  <2>2. HistoriesTell(dest', source)
    BY <1>1, <1>3, <2>1, EditTells DEF Editing
  <2> QED  BY <2>1, <2>2 DEF EntriesInv, Editing
<1>5. CASE SourceEdited
  <2>1. pc \in Editing /\ pc' = "edit source" /\ dest' = dest /\ Grown(source, source')
    BY <1>5 DEF SourceEdited
  <2>2. HistoriesTell(dest, source')
    BY <1>1, <1>3, <2>1, EditTells
  <2> QED  BY <2>1, <2>2 DEF EntriesInv, Editing
<1>6. CASE IconsMerged
  BY <1>1, <1>6 DEF IconsMerged, EntriesInv, Editing
<1>7. CASE GroupsCame
  BY <1>1, <1>7 DEF GroupsCame, EntriesInv, Editing
<1>8. CASE GroupsCondemned
  BY <1>1, <1>8 DEF GroupsCondemned, EntriesInv, Editing
<1>9. CASE EntriesCame
  <2>1. /\ pc = "add entries" /\ pc' = "remove entries" /\ orig' = orig /\ source' = source
        /\ todo' = DOMAIN dest.entries \cap DOMAIN source.entries
    BY <1>9 DEF EntriesCame
  <2>2. DOMAIN orig.entries \subseteq DOMAIN dest.entries
    BY <1>2, <2>1 DEF Early, SameEntries
  <2> QED  BY <1>1, <2>1, <2>2 DEF EntriesInv, Editing
<1>10. CASE EntriesGone
  <2>1. /\ pc = "remove entries" /\ pc' = "entries" /\ orig' = orig /\ source' = source /\ todo' = todo
        /\ SameEntries(dest, dest', DOMAIN dest'.entries)
        /\ DOMAIN dest'.entries \subseteq DOMAIN dest.entries
    BY <1>10 DEF EntriesGone
  <2>2. \A e \in DOMAIN orig.entries \cap DOMAIN dest'.entries : dest'.entries[e] = orig.entries[e]
    BY <1>2, <2>1 DEF Early, SameEntries
  <2>3. \A e \in Shared' : e \in todo' /\ dest'.entries[e] = orig.entries[e]
    BY <1>1, <2>1, <2>2 DEF Shared
  <2> QED  BY <1>1, <2>1, <2>3 DEF EntriesInv, Editing
<1>11. ASSUME NEW e \in EntryIds, EntryDone(e)
       PROVE  EntriesInv'
  <2>1. /\ pc = "entries" /\ pc' \in {"entries", "error"} /\ orig' = orig /\ source' = source
        /\ e \in todo /\ todo' = todo \ {e}
        /\ DOMAIN dest'.entries = DOMAIN dest.entries
        /\ SameEntries(dest, dest', DOMAIN dest.entries \ {e})
        /\ DOMAIN dest'.groups = DOMAIN dest.groups
    BY <1>11 DEF EntryDone
  <2>2. HistoriesTell(orig, source)
    BY <1>1, <2>1 DEF Editing
  <2>3. Shared' = Shared
    BY <2>1 DEF Shared
  <2>4. e \in Shared => Settled(e)'
    BY <1>1, <1>11, <2>1, <2>2, EntrySettles
  <2>5. ASSUME NEW c \in Shared \ {e}
        PROVE  IF c \in todo THEN dest'.entries[c] = orig.entries[c] ELSE Settled(c)'
    <3>1. c \in DOMAIN dest.entries /\ dest'.entries[c] = dest.entries[c]
      BY <2>1 DEF Shared, SameEntries
    <3>2. CASE c \in todo
      BY <1>1, <2>1, <3>1, <3>2
    <3>3. CASE c \notin todo
      BY <1>1, <2>1, <3>1, <3>3, SettledStays
    <3> QED  BY <3>2, <3>3
  <2>6. \A c \in Shared' : IF c \in todo' THEN dest'.entries[c] = orig'.entries[c] ELSE Settled(c)'
    BY <2>1, <2>3, <2>4, <2>5
  <2> QED  BY <2>1, <2>2, <2>6 DEF EntriesInv, Editing
<1>12. CASE GroupsGone
  <2>1. /\ pc = "entries" /\ pc' = "groups" /\ todo = {} /\ orig' = orig /\ source' = source
        /\ DOMAIN dest'.groups \subseteq DOMAIN dest.groups
        /\ DOMAIN dest'.entries \subseteq DOMAIN dest.entries
        /\ SameEntries(dest, dest', DOMAIN dest'.entries)
    BY <1>12 DEF GroupsGone
  <2>2. ASSUME NEW c \in Shared'
        PROVE  Settled(c)'
    <3>1. c \in Shared /\ c \in DOMAIN dest.entries /\ dest'.entries[c] = dest.entries[c]
      BY <2>1 DEF Shared, SameEntries
    <3> QED  BY <1>1, <2>1, <3>1, SettledStays
  <2> QED  BY <1>1, <2>1, <2>2 DEF EntriesInv, Editing
<1>13. ASSUME pc = "groups", pc' \in {"groups", "error"}, orig' = orig, source' = source,
              dest'.entries = dest.entries, DOMAIN dest'.groups = DOMAIN dest.groups
       PROVE  EntriesInv'
  <2>1. ASSUME NEW c \in Shared'
        PROVE  Settled(c)'
    <3>1. c \in Shared /\ c \in DOMAIN dest.entries
      BY <1>13 DEF Shared
    <3> QED  BY <1>1, <1>13, <3>1, SettledStays
  <2> QED  BY <1>1, <1>13, <2>1 DEF EntriesInv, Editing
<1>14. ASSUME NEW g \in GroupIds, GroupDone(g)
       PROVE  EntriesInv'
  BY <1>13, <1>14 DEF GroupDone
<1>15. ASSUME NEW g, NEW q, GroupPlaced(g, q)
       PROVE  EntriesInv'
  BY <1>13, <1>15 DEF GroupPlaced
<1>16. CASE Rested
  <2>1. \A c \in Shared' : c \in Shared /\ (Settled(c) => Settled(c)')
    BY <1>16 DEF Rested, Shared, Settled
  <2> QED  BY <1>1, <1>16, <2>1 DEF Rested, EntriesInv, Editing
<1> QED  BY <1>4, <1>5, <1>6, <1>7, <1>8, <1>9, <1>10, <1>11, <1>12, <1>14, <1>15, <1>16, StepsAre

\* It holds throughout.
LEMMA EntriesInvHolds == Spec => []EntriesInv
<1>1. Init => EntriesInv
  BY DEF Init, EntriesInv, HistoriesTell, Editing
<1>2. TreeInv /\ DeletionsInv /\ EntriesInv /\ [Next]_vars => EntriesInv'
  BY EntriesStep
<1> QED  BY <1>1, <1>2, TreeInvHolds, DeletionsHold, PTL DEF Spec

\* An entry of both ends up as the side that changed it last had it, in the
\* group where the side that moved it last had it.
THEOREM NewestDoesWin == Spec => []NewestWins
<1>1. EntriesInv => NewestWins
  BY DEF EntriesInv, NewestWins, Settled
<1> QED  BY <1>1, EntriesInvHolds, PTL

\* No content that the entry had here, live or in history, is lost.
THEOREM VersionsAreKept == Spec => []VersionsKept
<1>1. EntriesInv => VersionsKept
  BY DEF EntriesInv, VersionsKept, Settled
<1> QED  BY <1>1, EntriesInvHolds, PTL

----------------------------------------------------------------------------
(* Groups of both.                                                         *)

\* The group g has not been visited: it is where it was here.
SamePlace(g) ==
    /\ dest.groups[g].parent = orig.groups[g].parent
    /\ dest.groups[g].ltime = orig.groups[g].ltime

MovedLater(g) == source.groups[g].ltime > orig.groups[g].ltime

\* It has been visited: it is where the later move put it, or waits for that.
GroupSettled(g) ==
    LET q == source.groups[g].parent
    IN IF MovedLater(g) /\ q \in DOMAIN dest.groups
         THEN dest.groups[g].parent = q \/ \E k \in DOMAIN moves : moves[k] = <<g, q>>
         ELSE dest.groups[g].parent = orig.groups[g].parent

\* A queued move is one the source made, the later of the two.
MoveMeant(m) ==
    /\ m[1] \in DOMAIN source.groups \ todo
    /\ m[2] = source.groups[m[1]].parent
    /\ m[2] \in DOMAIN dest.groups
    /\ m[1] \in DOMAIN orig.groups => MovedLater(m[1])

\* The groups of both, while their moves wait
GroupsVisited ==
    \A g \in DOMAIN orig.groups \cap DOMAIN source.groups \cap DOMAIN dest.groups :
        IF g \in todo THEN SamePlace(g) ELSE GroupSettled(g)

GroupsInv ==
    /\ pc \in Early \cup {"entries"} =>
          \A g \in DOMAIN orig.groups : g \in DOMAIN dest.groups /\ SamePlace(g)
    /\ pc \in {"groups", "ok"} =>
          /\ GroupsVisited
          /\ \A k \in DOMAIN moves : MoveMeant(moves[k])
    /\ pc = "ok" => todo = {} /\ moves = <<>>

\* The places of the groups that were here stay as they were.
LEMMA PlacesStay ==
    ASSUME NEW X, SamePlaces(dest, dest', X), orig' = orig,
           NEW g \in DOMAIN dest.groups \cap X, SamePlace(g)
    PROVE  g \in DOMAIN dest'.groups /\ SamePlace(g)'
BY DEF SamePlaces, SamePlace

\* The visit of g settles it.
LEMMA GroupVisited ==
    ASSUME TreeInv, NEW g \in DOMAIN orig.groups \cap DOMAIN source.groups \cap DOMAIN dest.groups,
           SamePlace(g), GroupDone(g)
    PROVE  GroupSettled(g)'
<1> DEFINE q == source.groups[g].parent
<1>1. /\ orig' = orig /\ source' = source /\ DOMAIN dest'.groups = DOMAIN dest.groups
      /\ dest'.groups[g].parent = IF MovesGroup(g) THEN Root ELSE dest.groups[g].parent
      /\ moves' = IF MovesGroup(g) THEN Append(moves, <<g, q>>) ELSE moves
  BY DEF GroupDone
<1>2. dest.groups[g].parent = orig.groups[g].parent /\ dest.groups[g].ltime = orig.groups[g].ltime
  BY DEF SamePlace
<1>3. MovesGroup(g) <=> MovedLater(g) /\ q \in DOMAIN dest.groups /\ q # dest.groups[g].parent
  BY <1>2 DEF MovesGroup, MovedInSource, MovedLater
<1>4. MovedLater(g)' = MovedLater(g)
  BY <1>1 DEF MovedLater
<1>5. CASE MovesGroup(g)
  <2>1. moves \in Seq(GroupIds \X GroupIds)
    BY DEF TreeInv, MovesThere
  <2>2. \E k \in DOMAIN moves' : moves'[k] = <<g, q>>
    <3> DEFINE m == <<g, q>>
    <3>1. moves' = Append(moves, m)
      BY <1>1, <1>5
    <3> HIDE DEF m
    <3>2. Len(moves) \in Nat /\ Len(moves') = Len(moves) + 1 /\ DOMAIN moves' = 1 .. Len(moves) + 1
          /\ moves'[Len(moves) + 1] = m
      BY <2>1, <3>1
    <3> QED  BY <3>2 DEF m
  <2> QED  BY <1>1, <1>3, <1>4, <1>5, <2>2 DEF GroupSettled
<1>6. CASE ~MovesGroup(g)
  BY <1>1, <1>2, <1>3, <1>4, <1>6 DEF GroupSettled
<1> QED  BY <1>5, <1>6

\* A visit changes nothing for the groups visited before.
LEMMA OthersStaySettled ==
    ASSUME TreeInv, NEW g \in GroupIds, GroupDone(g), g \in DOMAIN source.groups,
           NEW c \in DOMAIN dest.groups \ {g},
           GroupSettled(c)
    PROVE  GroupSettled(c)'
<1>1. /\ orig' = orig /\ source' = source /\ DOMAIN dest'.groups = DOMAIN dest.groups
      /\ dest'.groups[c].parent = dest.groups[c].parent
      /\ moves' = IF MovesGroup(g) THEN Append(moves, <<g, source.groups[g].parent>>) ELSE moves
  BY DEF GroupDone, SamePlaces
<1>2. moves \in Seq(GroupIds \X GroupIds)
  BY DEF TreeInv, MovesThere
<1>3. \A k \in DOMAIN moves : k \in DOMAIN moves' /\ moves'[k] = moves[k]
  BY <1>1, <1>2
<1>4. MovedLater(c)' = MovedLater(c)
  BY <1>1 DEF MovedLater
<1> QED  BY <1>1, <1>3, <1>4 DEF GroupSettled

\* What a visit puts into the queue is meant, and what was in it still is.
MeantNext(x) ==
    /\ x[1] \in DOMAIN source'.groups \ todo'
    /\ x[2] = source'.groups[x[1]].parent
    /\ x[2] \in DOMAIN dest'.groups
    /\ x[1] \in DOMAIN orig'.groups => source'.groups[x[1]].ltime > orig'.groups[x[1]].ltime

\* MeantNext is MoveMeant of the next state.
LEMMA MovesMeant ==
    ASSUME \A k \in DOMAIN moves' : MeantNext(moves'[k])
    PROVE  (\A k \in DOMAIN moves : MoveMeant(moves[k]))'
BY DEF MeantNext, MoveMeant, MovedLater

\* The moves in the queue are meant, and so is the one a visit adds.
LEMMA MovesStayMeant ==
    ASSUME TreeInv, NEW g \in GroupIds, GroupDone(g), g \in DOMAIN source.groups,
           g \in DOMAIN orig.groups => g \in DOMAIN dest.groups /\ SamePlace(g),
           \A k \in DOMAIN moves : MoveMeant(moves[k])
    PROVE  \A k \in DOMAIN moves' : MeantNext(moves'[k])
<1> DEFINE m == <<g, source.groups[g].parent>>
<1>1. /\ orig' = orig /\ source' = source /\ DOMAIN dest'.groups = DOMAIN dest.groups
      /\ todo' = todo \ {g}
      /\ moves' = IF MovesGroup(g) THEN Append(moves, m) ELSE moves
  BY DEF GroupDone
<1>2. moves \in Seq(GroupIds \X GroupIds)
  BY DEF TreeInv, MovesThere
<1>3. \A x : MoveMeant(x) => MeantNext(x)
  BY <1>1 DEF MoveMeant, MeantNext, MovedLater
<1>4. MovesGroup(g) => MeantNext(m)
  BY <1>1 DEF MovesGroup, MovedInSource, MeantNext, SamePlace
<1> HIDE DEF m
<1>5. \A k \in DOMAIN moves' : \/ k \in DOMAIN moves /\ moves'[k] = moves[k]
                               \/ MovesGroup(g) /\ moves'[k] = m
  <2>1. CASE MovesGroup(g)
    <3>1. moves' = Append(moves, m)
      BY <1>1, <2>1
    <3>2. /\ DOMAIN moves' = 1 .. Len(moves) + 1 /\ DOMAIN moves = 1 .. Len(moves) /\ Len(moves) \in Nat
          /\ \A k \in 1 .. Len(moves) : moves'[k] = moves[k]
          /\ moves'[Len(moves) + 1] = m
      BY <1>2, <3>1
    <3> QED  BY <2>1, <3>2
  <2>2. CASE ~MovesGroup(g)
    BY <1>1, <2>2
  <2> QED  BY <2>1, <2>2
<1> QED  BY <1>3, <1>4, <1>5

\* A visit settles its group, and leaves the others as they were.
LEMMA VisitsGoOn ==
    ASSUME TreeInv, GroupsVisited, NEW g \in GroupIds, GroupDone(g)
    PROVE  GroupsVisited'
<1>1. /\ orig' = orig /\ source' = source /\ DOMAIN dest'.groups = DOMAIN dest.groups
      /\ todo' = todo \ {g} /\ g \in todo /\ pc = "groups"
      /\ SamePlaces(dest, dest', DOMAIN dest.groups \ {g})
  BY DEF GroupDone
<1>2. g \in DOMAIN dest.groups \cap DOMAIN source.groups
  BY <1>1 DEF TreeInv, TodoThere
<1>3. ASSUME NEW c \in DOMAIN orig.groups \cap DOMAIN source.groups \cap DOMAIN dest.groups
      PROVE  IF c \in todo \ {g} THEN SamePlace(c)' ELSE GroupSettled(c)'
  <2>1. CASE c = g
    <3>1. SamePlace(g)
      BY <1>1, <1>3, <2>1 DEF GroupsVisited
    <3> QED  BY <1>1, <2>1, <3>1, GroupVisited
  <2>2. CASE c # g /\ c \in todo
    <3>1. SamePlace(c)
      BY <2>2 DEF GroupsVisited
    <3> QED  BY <1>1, <2>2, <3>1, PlacesStay
  <2>3. CASE c # g /\ c \notin todo
    <3>1. GroupSettled(c)
      BY <2>3 DEF GroupsVisited
    <3> QED  BY <1>2, <2>3, <3>1, OthersStaySettled
  <2> QED  BY <2>1, <2>2, <2>3
<1> QED  BY <1>1, <1>3 DEF GroupsVisited

\* A queued move puts its group where the source has it, and no other.
LEMMA PlacingSettles ==
    ASSUME TreeInv, GroupsVisited, \A k \in DOMAIN moves : MoveMeant(moves[k]),
           NEW g, NEW q, GroupPlaced(g, q), pc' # "error"
    PROVE  GroupsVisited' /\ \A k \in DOMAIN moves' : MeantNext(moves'[k])
<1>1. /\ orig' = orig /\ source' = source /\ DOMAIN dest'.groups = DOMAIN dest.groups
      /\ todo' = todo /\ todo = {} /\ moves # <<>> /\ moves[1] = <<g, q>> /\ moves' = Tail(moves)
      /\ \A y \in DOMAIN dest.groups :
            dest'.groups[y].parent = IF y = g THEN q ELSE dest.groups[y].parent
  BY DEF GroupPlaced
<1>2. /\ 1 \in DOMAIN moves
      /\ \A k \in DOMAIN moves' : k + 1 \in DOMAIN moves /\ moves'[k] = moves[k + 1]
      /\ \A k \in DOMAIN moves : k = 1 \/ (k - 1 \in DOMAIN moves' /\ moves'[k - 1] = moves[k])
  BY <1>1, FirstMove DEF TreeInv, MovesThere
<1>3. \A x : MoveMeant(x) => MeantNext(x)
  BY <1>1 DEF MoveMeant, MeantNext, MovedLater
<1>4. \A k \in DOMAIN moves' : MeantNext(moves'[k])
  BY <1>2, <1>3
<1>5. q = source.groups[g].parent /\ q \in DOMAIN dest.groups
      /\ (g \in DOMAIN orig.groups => MovedLater(g))
  <2>1. MoveMeant(moves[1])
    BY <1>2
  <2> QED  BY <1>1, <2>1 DEF MoveMeant
<1>6. ASSUME NEW c \in DOMAIN orig.groups \cap DOMAIN source.groups \cap DOMAIN dest.groups
      PROVE  GroupSettled(c)'
  <2>1. GroupSettled(c) /\ MovedLater(c)' = MovedLater(c)
    BY <1>1 DEF GroupsVisited, MovedLater
  <2>2. CASE c = g
    BY <1>1, <1>5, <2>1, <2>2 DEF GroupSettled
  <2>3. CASE c # g
    <3>1. dest'.groups[c].parent = dest.groups[c].parent
      BY <1>1, <2>3
    <3>2. ASSUME NEW k \in DOMAIN moves, moves[k] = <<c, source.groups[c].parent>>
          PROVE  \E j \in DOMAIN moves' : moves'[j] = <<c, source.groups[c].parent>>
      <4>1. k # 1
        BY <1>1, <2>3, <3>2
      <4> QED  BY <1>2, <3>2, <4>1
    <3> QED  BY <1>1, <2>1, <3>1, <3>2 DEF GroupSettled
  <2> QED  BY <2>2, <2>3
<1> QED  BY <1>1, <1>4, <1>6 DEF GroupsVisited

\* GroupsInv is inductive, given TreeInv.
LEMMA GroupsStep ==
    ASSUME TreeInv, GroupsInv, [Next]_vars
    PROVE  GroupsInv'
<1> DEFINE Waiting == Early \cup {"entries"}
<1>1. /\ pc \in Waiting => \A g \in DOMAIN orig.groups : g \in DOMAIN dest.groups /\ SamePlace(g)
      /\ pc \in {"groups", "ok"} => GroupsVisited /\ \A k \in DOMAIN moves : MoveMeant(moves[k])
      /\ pc = "ok" => todo = {} /\ moves = <<>>
  BY DEF GroupsInv
<1>2. ASSUME pc' \notin Waiting, pc' \notin {"groups", "ok"}
      PROVE  GroupsInv'
  BY <1>2 DEF GroupsInv
<1>3. ASSUME pc \in Waiting, pc' \in Waiting \cup {"error"}, orig' = orig,
             SamePlaces(dest, dest', DOMAIN dest.groups)
      PROVE  GroupsInv'
  <2>1. \A g \in DOMAIN orig.groups : (g \in DOMAIN dest.groups /\ SamePlace(g))'
    BY <1>1, <1>3, PlacesStay
  <2> QED  BY <1>3, <2>1 DEF GroupsInv, Early
<1>4. CASE DestEdited
  BY <1>2, <1>4 DEF DestEdited, Early
<1>5. CASE SourceEdited
  BY <1>2, <1>5 DEF SourceEdited, Early
<1>6. CASE IconsMerged
  <2>1. \A g \in DOMAIN orig'.groups : (g \in DOMAIN dest.groups /\ SamePlace(g))'
    BY <1>6 DEF IconsMerged, SamePlace
  <2> QED  BY <1>6, <2>1 DEF IconsMerged, GroupsInv
<1>7. CASE GroupsCame
  BY <1>3, <1>7 DEF GroupsCame, Early
<1>8. CASE GroupsCondemned
  BY <1>3, <1>8 DEF GroupsCondemned, Early, SamePlaces
<1>9. CASE EntriesCame
  BY <1>3, <1>9 DEF EntriesCame, Early
<1>10. CASE EntriesGone
  BY <1>3, <1>10 DEF EntriesGone, Early
<1>11. ASSUME NEW e \in EntryIds, EntryDone(e)
       PROVE  GroupsInv'
  BY <1>3, <1>11 DEF EntryDone, Early
<1>12. CASE GroupsGone
  <2>1. /\ pc = "entries" /\ pc' = "groups" /\ orig' = orig /\ source' = source /\ moves' = moves
        /\ todo' = DOMAIN dest'.groups \cap DOMAIN source.groups
        /\ DOMAIN dest'.groups \subseteq DOMAIN dest.groups
        /\ SamePlaces(dest, dest', DOMAIN dest'.groups)
    BY <1>12 DEF GroupsGone
  <2>2. \A g \in DOMAIN orig.groups \cap DOMAIN source.groups \cap DOMAIN dest'.groups :
           g \in todo' /\ SamePlace(g)'
    BY <1>1, <2>1, PlacesStay
  <2>3. DOMAIN moves' = {}
    <3>1. moves = <<>>
      BY <2>1 DEF TreeInv, MovesThere
    <3> QED  BY <2>1, <3>1
  <2>4. GroupsVisited'
    BY <2>1, <2>2 DEF GroupsVisited
  <2> QED  BY <2>1, <2>3, <2>4 DEF GroupsInv, Early
<1>13. ASSUME NEW g \in GroupIds, GroupDone(g)
       PROVE  GroupsInv'
  <2>1. pc = "groups" /\ pc' \in {"groups", "error"} /\ g \in todo
    BY <1>13 DEF GroupDone
  <2>2. g \in DOMAIN dest.groups \cap DOMAIN source.groups
    BY <2>1 DEF TreeInv, TodoThere
  <2>3. GroupsVisited /\ \A k \in DOMAIN moves : MoveMeant(moves[k])
    BY <1>1, <2>1
  <2>4. GroupsVisited'
    BY <1>13, <2>3, VisitsGoOn
  <2>5. g \in DOMAIN orig.groups => SamePlace(g)
    BY <2>1, <2>2, <2>3 DEF GroupsVisited
  <2>6. \A k \in DOMAIN moves' : MeantNext(moves'[k])
    BY <1>13, <2>2, <2>3, <2>5, MovesStayMeant
  <2>7. (\A k \in DOMAIN moves : MoveMeant(moves[k]))'
    BY <2>6, MovesMeant
  <2> QED  BY <2>1, <2>4, <2>7 DEF GroupsInv, Early
<1>14. ASSUME NEW g, NEW q, GroupPlaced(g, q)
       PROVE  GroupsInv'
  <2>1. pc = "groups" /\ pc' \in {"groups", "error"}
    BY <1>14 DEF GroupPlaced
  <2>2. ASSUME pc' # "error"
        PROVE  GroupsVisited' /\ \A k \in DOMAIN moves' : MeantNext(moves'[k])
    BY <1>1, <1>14, <2>1, <2>2, PlacingSettles
  <2>3. pc' # "error" => (\A k \in DOMAIN moves : MoveMeant(moves[k]))'
    BY <2>2, MovesMeant
  <2> QED  BY <2>1, <2>2, <2>3 DEF GroupsInv, Early
<1>15. CASE Rested
  <2>1. /\ pc' = pc \/ (pc = "groups" /\ pc' = "ok" /\ todo = {} /\ moves = <<>>)
        /\ UNCHANGED <<dest, source, orig, todo, doomed, moves>>
    BY <1>15 DEF Rested
  <2>2. \A g : SamePlace(g)' = SamePlace(g) /\ GroupSettled(g)' = GroupSettled(g)
    BY <2>1 DEF SamePlace, GroupSettled, MovedLater
  <2>3. GroupsVisited' = GroupsVisited
    BY <2>1, <2>2 DEF GroupsVisited
  <2>4. (\A k \in DOMAIN moves : MoveMeant(moves[k]))' = (\A k \in DOMAIN moves : MoveMeant(moves[k]))
    BY <2>1 DEF MoveMeant, MovedLater
  <2>5. pc' \in Waiting => (\A g \in DOMAIN orig.groups : g \in DOMAIN dest.groups /\ SamePlace(g))'
    BY <1>1, <2>1 DEF SamePlace, Early
  <2>6. /\ pc' \in {"groups", "ok"} => GroupsVisited'
        /\ pc' \in {"groups", "ok"} => (\A k \in DOMAIN moves : MoveMeant(moves[k]))'
    BY <1>1, <2>1, <2>3, <2>4
  <2>7. pc' = "ok" => todo' = {} /\ moves' = <<>>
    BY <1>1, <2>1
  <2> QED  BY <2>5, <2>6, <2>7 DEF GroupsInv
<1> QED  BY <1>4, <1>5, <1>6, <1>7, <1>8, <1>9, <1>10, <1>11, <1>12, <1>13, <1>14, <1>15, StepsAre

\* It holds throughout.
LEMMA GroupsInvHolds == Spec => []GroupsInv
<1>1. Init => GroupsInv
  BY DEF Init, GroupsInv, Early
<1>2. TreeInv /\ GroupsInv /\ [Next]_vars => GroupsInv'
  BY GroupsStep
<1> QED  BY <1>1, <1>2, TreeInvHolds, PTL DEF Spec

\* A group of both is, after all queued moves, where the later of the two moves
\* put it.
THEOREM LaterMoveDoesWin == Spec => []LaterMoveWins
<1>1. GroupsInv => LaterMoveWins
  <2> SUFFICES ASSUME GroupsInv, pc = "ok",
                      NEW g \in DOMAIN orig.groups \cap DOMAIN source.groups \cap DOMAIN dest.groups
               PROVE  LET later == IF source.groups[g].ltime > orig.groups[g].ltime THEN source ELSE orig
                      IN later.groups[g].parent \in DOMAIN dest.groups =>
                            dest.groups[g].parent = later.groups[g].parent
    BY DEF LaterMoveWins
  <2>1. GroupsVisited /\ todo = {} /\ moves = <<>>
    BY DEF GroupsInv
  <2>2. GroupSettled(g) /\ DOMAIN moves = {}
    BY <2>1 DEF GroupsVisited
  <2> QED  BY <2>2 DEF GroupSettled, MovedLater
<1> QED  BY <1>1, GroupsInvHolds, PTL

----------------------------------------------------------------------------
(* What the source changed later comes back.                               *)

\* A finite set of times has a latest one.
LEMMA LatestIsOne ==
    ASSUME NEW T, T \subseteq Nat, IsFiniteSet(T), NEW u \in T
    PROVE  Latest(T) \in T /\ Latest(T) >= u
<1> DEFINE hasLatest(X) == \E t \in X : \A x \in X : x <= t
           S == {n \in Nat : \A X \in SUBSET Nat :
                    IsFiniteSet(X) /\ Cardinality(X) = n /\ X # {} => hasLatest(X)}
<1>1. 0 \in S
  BY FS_EmptySet
<1>2. ASSUME NEW n \in Nat, n \in S
      PROVE  n + 1 \in S
  <2> SUFFICES ASSUME NEW X \in SUBSET Nat, IsFiniteSet(X), Cardinality(X) = n + 1, X # {}
               PROVE  hasLatest(X)
    OBVIOUS
  <2>1. PICK x \in X : TRUE
    OBVIOUS
  <2> DEFINE Y == X \ {x}
  <2>2. IsFiniteSet(Y) /\ Cardinality(Y) = n
    <3>1. IsFiniteSet(X \ {x}) /\ Cardinality(X \ {x}) = Cardinality(X) - 1
      BY FS_RemoveElement
    <3> QED  BY <3>1
  <2>3. Y = {} \/ hasLatest(Y)
    BY <1>2, <2>2
  <2>4. CASE Y = {}
    <3>1. \A y \in X : y = x
      BY <2>4
    <3>2. x \in Nat /\ x <= x
      OBVIOUS
    <3> QED  BY <3>1, <3>2
  <2>5. CASE hasLatest(Y)
    <3>1. PICK t \in Y : \A y \in Y : y <= t
      BY <2>5
    <3>2. t \in Nat /\ x \in Nat
      OBVIOUS
    <3>3. CASE x <= t
      BY <3>1, <3>3
    <3>4. CASE ~(x <= t)
      <4>1. \A y \in X : y <= x
        <5> SUFFICES ASSUME NEW y \in X
                     PROVE  y <= x
          OBVIOUS
        <5>1. y \in Nat /\ (y = x \/ y <= t)
          BY <3>1
        <5> QED  BY <3>2, <3>4, <5>1
      <4> QED  BY <4>1
    <3> QED  BY <3>3, <3>4
  <2> QED  BY <2>3, <2>4, <2>5
<1> HIDE DEF S
<1>3. Nat \subseteq S
  BY <1>1, <1>2, NumbersInduction
<1>4. Cardinality(T) \in S
  BY <1>3, FS_CardinalityType
<1>5. hasLatest(T)
  BY <1>4 DEF S
<1> QED  BY <1>5 DEF Latest

\* The images of a finite set are finitely many.
LEMMA FiniteImage ==
    ASSUME NEW D, IsFiniteSet(D), NEW f, DOMAIN f = D
    PROVE  IsFiniteSet({f[x] : x \in D})
<1> DEFINE T == {f[x] : x \in D}
           h == [x \in D |-> f[x]]
<1>1. h \in Surjection(D, T)
  BY DEF Surjection
<1> HIDE DEF h
<1> QED  BY <1>1, FS_Surjection

\* get_last_update of a group is not before the last change of an entry in it.
LEMMA LastUpdateIsLate ==
    ASSUME NEW s, Formed(s), IsFiniteSet(DOMAIN s.groups), IsFiniteSet(DOMAIN s.entries),
           NEW e \in DOMAIN s.entries
    PROVE  LET p == Live(s.entries, e).parent
           IN p \in DOMAIN s.groups /\ LastUpdate(s, p) \in Nat
                /\ LastUpdate(s, p) >= Live(s.entries, e).mtime
<1> DEFINE p == Live(s.entries, e).parent
           E == s.groups[p].entries
           G == s.groups[p].groups
           times == {Live(s.entries, x).mtime : x \in E}
           gtimes == {s.groups[x].mtime : x \in G}
           T == {s.groups[p].mtime} \cup times \cup gtimes
<1>1. /\ IsTree(s.groups) /\ IsPlaced(s.groups, s.entries)
      /\ \A g \in DOMAIN s.groups : s.groups[g] \in Groups
      /\ \A x \in DOMAIN s.entries : Live(s.entries, x) \in Versions
  BY FormedParts DEF Formed
<1>2. p \in DOMAIN s.groups /\ e \in E /\ E \subseteq DOMAIN s.entries /\ G \subseteq DOMAIN s.groups
  BY <1>1 DEF IsPlaced, IsTree
<1>3. IsFiniteSet(times) /\ IsFiniteSet(gtimes)
  <2>1. IsFiniteSet(E) /\ IsFiniteSet(G)
    BY <1>2, FS_Subset
  <2> DEFINE f == [x \in E |-> Live(s.entries, x).mtime]
             h == [x \in G |-> s.groups[x].mtime]
  <2>2. DOMAIN f = E /\ DOMAIN h = G
    OBVIOUS
  <2>3. times = {f[x] : x \in E} /\ gtimes = {h[x] : x \in G}
    OBVIOUS
  <2> HIDE DEF f, h, E, G, times, gtimes
  <2> QED  BY <2>1, <2>2, <2>3, FiniteImage
<1>4. T \subseteq Nat
  BY <1>1, <1>2 DEF Groups, Versions, Times
<1>5. Live(s.entries, e).mtime \in T
  BY <1>2
<1>6. LastUpdate(s, p) = Latest(T)
  BY DEF LastUpdate
<1> HIDE DEF p, times, gtimes
<1>7. IsFiniteSet(T)
  <2>1. IsFiniteSet({s.groups[p].mtime})
    BY FS_Singleton
  <2> QED  BY <1>3, <2>1, FS_Union
<1> HIDE DEF T
<1>8. Latest(T) \in T /\ Latest(T) >= Live(s.entries, e).mtime
  BY <1>4, <1>5, <1>7, LatestIsOne
<1> QED  BY <1>2, <1>4, <1>6, <1>8 DEF p

\* A deletion here after the last change of e there, of e or of a group around it
Excused(e) ==
    \E x \in {e} \cup AncestorsOrSelf(source.groups, Live(source.entries, e).parent) :
        DeletedSince(orig, x, Live(source.entries, e).mtime)

\* The tombstones of groups and entries are those the merge found.
SameTombstones ==
    \A x \in DOMAIN dest.deleted \ IconIds :
        x \in DOMAIN orig.deleted /\ dest.deleted[x] = orig.deleted[x]

SourceFinite == IsFiniteSet(DOMAIN source.groups) /\ IsFiniteSet(DOMAIN source.entries)

ParentsReturn ==
    pc \in {"condemn groups", "add entries"} =>
        \A e \in DOMAIN source.entries \ DOMAIN orig.entries :
            Live(source.entries, e).parent \in DOMAIN dest.groups \/ Excused(e)

EntriesReturn ==
    pc \in {"remove entries", "entries", "groups", "ok"} /\ DeletedGroups = {} =>
        \A e \in DOMAIN source.entries \ DOMAIN orig.entries :
            e \in DOMAIN dest.entries \/ Excused(e)

TombstonesKept ==
    /\ pc \in {"add groups", "condemn groups"} => SameTombstones
    /\ pc = "add entries" /\ DeletedGroups = {} => SameTombstones

ReturnsInv == SourceFinite /\ TombstonesKept /\ ParentsReturn /\ EntriesReturn

\* The group of an entry that is only in the source comes, unless a deletion here
\* is later than the entry: get_last_update of the group is no earlier.
LEMMA GroupsReturn ==
    ASSUME TreeInv, NoneDoomed, SourceFinite, SameTombstones, GroupsCame,
           NEW e \in DOMAIN source.entries \ DOMAIN orig.entries
    PROVE  Live(source.entries, e).parent \in DOMAIN dest'.groups \/ Excused(e)
<1> DEFINE w == Live(source.entries, e)
           p == w.parent
<1>1. Formed(source)
  BY DEF TreeInv, CopiesFormed
<1>2. p \in DOMAIN source.groups /\ LastUpdate(source, p) \in Nat /\ LastUpdate(source, p) >= w.mtime
  BY <1>1, LastUpdateIsLate DEF SourceFinite
<1>3. p \in GroupIds /\ w.mtime \in Nat
  BY <1>1, <1>2, FormedParts DEF Versions, Times
<1> HIDE DEF w, p
<1>4. p \in DOMAIN dest'.groups \/ DeletedSince(dest, p, LastUpdate(source, p))
  BY <1>2 DEF GroupsCame
<1>5. ASSUME DeletedSince(dest, p, LastUpdate(source, p))
      PROVE  DeletedSince(orig, p, w.mtime)
  <2>1. p \in DOMAIN dest.deleted /\ dest.deleted[p] >= LastUpdate(source, p)
    BY <1>5 DEF DeletedSince
  <2>2. p \notin IconIds
    BY <1>3, IdsAssumption
  <2>3. p \in DOMAIN orig.deleted /\ orig.deleted[p] = dest.deleted[p]
    BY <2>1, <2>2 DEF SameTombstones
  <2>4. dest.deleted[p] \in Nat
    <3>1. IsMap(dest.deleted, GroupIds \cup EntryIds \cup IconIds, Times)
      BY FormedParts DEF TreeInv, CopiesFormed
    <3> QED  BY <2>1, <3>1 DEF IsMap, Times
  <2>5. orig.deleted[p] >= w.mtime
    BY <1>2, <1>3, <2>1, <2>3, <2>4
  <2> QED  BY <2>3, <2>5 DEF DeletedSince
<1>6. p \in AncestorsOrSelf(source.groups, p)
  BY <1>2 DEF AncestorsOrSelf
<1> QED  BY <1>4, <1>5, <1>6 DEF Excused, w, p

\* The entry comes, unless a deletion here is later than it.
LEMMA EntriesComeBack ==
    ASSUME TreeInv, ParentsReturn, TombstonesKept, DeletedGroups = {}, EntriesCame,
           NEW e \in DOMAIN source.entries \ DOMAIN orig.entries
    PROVE  e \in DOMAIN dest'.entries \/ Excused(e)
<1> DEFINE w == Live(source.entries, e)
<1>1. /\ pc = "add entries"
      /\ DOMAIN dest'.entries = DOMAIN dest.entries \cup AddedEntries(dest, source)
  BY DEF EntriesCame
<1>2. SameTombstones /\ (w.parent \in DOMAIN dest.groups \/ Excused(e))
  BY <1>1 DEF ParentsReturn, TombstonesKept
<1>3. \/ e \in DOMAIN dest'.entries
      \/ DeletedSince(dest, e, w.mtime)
      \/ w.parent \notin DOMAIN dest.groups
  BY <1>1 DEF AddedEntries
<1>4. e \notin IconIds
  <2>1. IsMap(source.entries, EntryIds, Lives)
    BY FormedParts DEF TreeInv, CopiesFormed
  <2> QED  BY <2>1, IdsAssumption DEF IsMap
<1>5. DeletedSince(dest, e, w.mtime) => DeletedSince(orig, e, w.mtime)
  BY <1>2, <1>4 DEF SameTombstones, DeletedSince
<1> QED  BY <1>2, <1>3, <1>5 DEF Excused

\* ReturnsInv is inductive, given TreeInv and DeletionsInv.
LEMMA ReturnsStep ==
    ASSUME TreeInv, DeletionsInv, ReturnsInv, [Next]_vars
    PROVE  ReturnsInv'
<1>1. SourceFinite /\ TombstonesKept /\ ParentsReturn /\ EntriesReturn
  BY DEF ReturnsInv
<1>2. ASSUME source' = source
      PROVE  SourceFinite'
  BY <1>1, <1>2 DEF SourceFinite
<1>3. ASSUME source' = source, orig' = orig
      PROVE  DeletedGroups' = DeletedGroups /\ \A e : Excused(e)' = Excused(e)
  BY <1>3 DEF DeletedGroups, Excused
<1>4. CASE DestEdited
  BY <1>2, <1>4 DEF DestEdited, ReturnsInv, TombstonesKept, ParentsReturn, EntriesReturn
<1>5. CASE SourceEdited
  <2>1. SourceFinite'
    BY <1>1, <1>5 DEF SourceEdited, SourceFinite, Grown
  <2> QED  BY <1>5, <2>1 DEF SourceEdited, ReturnsInv, TombstonesKept, ParentsReturn, EntriesReturn
<1>6. CASE IconsMerged
  BY <1>2, <1>6 DEF IconsMerged, ReturnsInv, TombstonesKept, ParentsReturn, EntriesReturn, SameTombstones
<1>7. CASE GroupsCame
  <2>1. /\ pc = "add groups" /\ pc' = "condemn groups" /\ source' = source /\ orig' = orig
        /\ dest'.deleted = dest.deleted
    BY <1>7 DEF GroupsCame
  <2>2. SameTombstones /\ SameTombstones' /\ NoneDoomed
    BY <1>1, <2>1 DEF TombstonesKept, SameTombstones, DeletionsInv
  <2>3. \A e \in DOMAIN source.entries \ DOMAIN orig.entries :
           Live(source.entries, e).parent \in DOMAIN dest'.groups \/ Excused(e)
    BY <1>1, <1>7, <2>2, GroupsReturn
  <2>4. ParentsReturn'
    BY <1>3, <2>1, <2>3 DEF ParentsReturn
  <2> QED  BY <1>2, <2>1, <2>2, <2>4 DEF ReturnsInv, TombstonesKept, EntriesReturn
<1>8. CASE GroupsCondemned
  <2>1. /\ pc = "condemn groups" /\ pc' = "add entries" /\ source' = source /\ orig' = orig
        /\ dest'.groups = dest.groups
        /\ doomed' = {} => /\ DOMAIN dest'.deleted = DOMAIN dest.deleted
                           /\ \A x \in DOMAIN dest.deleted : dest'.deleted[x] = dest.deleted[x]
    BY <1>8 DEF GroupsCondemned
  <2>2. DeletedGroups' = {} => doomed' = {}
    <3>1. DeletionsInv'
      BY DeletionsStep
    <3> QED  BY <2>1, <3>1 DEF DeletionsInv, NoneDoomed, Editing
  <2>3. DeletedGroups' = {} => SameTombstones'
    BY <1>1, <2>1, <2>2 DEF TombstonesKept, SameTombstones
  <2>4. ParentsReturn'
    BY <1>1, <1>3, <2>1 DEF ParentsReturn
  <2> QED  BY <1>2, <2>1, <2>3, <2>4 DEF ReturnsInv, TombstonesKept, EntriesReturn
<1>9. CASE EntriesCame
  <2>1. pc = "add entries" /\ pc' = "remove entries" /\ source' = source /\ orig' = orig
    BY <1>9 DEF EntriesCame
  <2>2. DeletedGroups = {} => \A e \in DOMAIN source.entries \ DOMAIN orig.entries :
           e \in DOMAIN dest'.entries \/ Excused(e)
    BY <1>1, <1>9, EntriesComeBack
  <2>3. EntriesReturn'
    BY <1>3, <2>1, <2>2 DEF EntriesReturn
  <2> QED  BY <1>2, <2>1, <2>3 DEF ReturnsInv, TombstonesKept, ParentsReturn
<1>10. ASSUME pc \in {"remove entries", "entries", "groups"},
              pc' \in {"entries", "groups", "ok", "error"}, source' = source, orig' = orig,
              DeletedGroups = {} => DOMAIN dest.entries \cap DOMAIN source.entries \subseteq DOMAIN dest'.entries
       PROVE  ReturnsInv'
  <2>1. DeletedGroups = {} => \A e \in DOMAIN source.entries \ DOMAIN orig.entries :
           e \in DOMAIN dest'.entries \/ Excused(e)
    BY <1>1, <1>10 DEF EntriesReturn
  <2>2. EntriesReturn'
    BY <1>3, <1>10, <2>1 DEF EntriesReturn
  <2> QED  BY <1>2, <1>10, <2>2 DEF ReturnsInv, TombstonesKept, ParentsReturn
<1>11. CASE EntriesGone
  <2>1. DoomedEntries(dest, source) \cap DOMAIN source.entries = {}
    BY DEF DoomedEntries
  <2> QED  BY <1>10, <1>11, <2>1 DEF EntriesGone
<1>12. ASSUME NEW e \in EntryIds, EntryDone(e)
       PROVE  ReturnsInv'
  BY <1>10, <1>12 DEF EntryDone
<1>13. CASE GroupsGone
  <2>1. DeletedGroups = {} => doomed = {}
    BY <1>13 DEF GroupsGone, DeletionsInv, NoneDoomed, Editing
  <2> QED  BY <1>10, <1>13, <2>1 DEF GroupsGone
<1>14. ASSUME NEW g \in GroupIds, GroupDone(g)
       PROVE  ReturnsInv'
  BY <1>10, <1>14 DEF GroupDone
<1>15. ASSUME NEW g, NEW q, GroupPlaced(g, q)
       PROVE  ReturnsInv'
  BY <1>10, <1>15 DEF GroupPlaced
<1>16. CASE Rested
  <2>1. /\ pc' = pc \/ (pc = "groups" /\ pc' = "ok")
        /\ UNCHANGED <<dest, source, orig>>
    BY <1>16 DEF Rested
  <2>2. TombstonesKept'
    BY <1>1, <2>1 DEF TombstonesKept, SameTombstones, DeletedGroups
  <2>3. ParentsReturn' /\ EntriesReturn'
    BY <1>1, <1>3, <2>1 DEF ParentsReturn, EntriesReturn
  <2> QED  BY <1>2, <2>1, <2>2, <2>3 DEF ReturnsInv
<1> QED  BY <1>4, <1>5, <1>6, <1>7, <1>8, <1>9, <1>11, <1>12, <1>13, <1>14, <1>15, <1>16, StepsAre

\* It holds throughout.
LEMMA ReturnsInvHolds == Spec => []ReturnsInv
<1>1. Init => ReturnsInv
  BY AncestorsAssumption DEF Init, ReturnsInv, SourceFinite, TombstonesKept, ParentsReturn, EntriesReturn
<1>2. TreeInv /\ DeletionsInv /\ ReturnsInv /\ [Next]_vars => ReturnsInv'
  BY ReturnsStep
<1> QED  BY <1>1, <1>2, TreeInvHolds, DeletionsHold, PTL DEF Spec

\* An entry changed in the source after every deletion here of it and of the
\* groups around it is back, and the groups with it.
THEOREM LaterChangesDoReturn == Spec => []LaterChangesReturn
<1>1. ReturnsInv => LaterChangesReturn
  BY DEF ReturnsInv, EntriesReturn, LaterChangesReturn, Excused
<1> QED  BY <1>1, ReturnsInvHolds, PTL

----------------------------------------------------------------------------
(* Custom icons.                                                           *)

\* Every icon that a group or a version of d shows is one of ics.
ShowsOnly(d, ics) ==
    /\ \A g \in DOMAIN d.groups : d.groups[g].icon \in ics
    /\ \A e \in DOMAIN d.entries : \A i \in DOMAIN d.entries[e] : d.entries[e][i].icon \in ics

\* While the copies are edited, no tombstone is for an icon of either.
NoIconBuried(d) == DOMAIN d.deleted \cap (DOMAIN dest.icons \cup DOMAIN source.icons) = {}

EditingIcons ==
    pc \in Editing => /\ Resolves(dest) /\ Resolves(source)
                      /\ NoIconBuried(dest) /\ NoIconBuried(source)

\* From then on the destination has the icons of both.
MergedIconsInv ==
    pc \notin Editing => /\ ShowsOnly(dest, IconsOf(dest)) /\ ShowsOnly(source, IconsOf(source))
                         /\ IconsOf(source) \subseteq IconsOf(dest)

IconsInv == EditingIcons /\ MergedIconsInv

\* What Resolves says of the icons shown
LEMMA ShowsIcons ==
    ASSUME NEW d
    PROVE  Resolves(d) => ShowsOnly(d, IconsOf(d))
BY ResolvesParts DEF ShowsOnly

\* An edit of one copy buries no icon, and the icons it brings are new.
LEMMA EditBuriesNoIcon ==
    ASSUME TreeInv, NEW d, NEW x, d = dest \/ d = source, Formed(x), Grown(d, x),
           NoIconBuried(dest), NoIconBuried(source)
    PROVE  /\ DOMAIN x.deleted \cap (DOMAIN x.icons \cup DOMAIN dest.icons \cup DOMAIN source.icons) = {}
           /\ DOMAIN dest.deleted \cap DOMAIN x.icons = {}
           /\ DOMAIN source.deleted \cap DOMAIN x.icons = {}
<1>1. /\ DOMAIN x.deleted \subseteq DOMAIN d.deleted \cup GroupIds \cup EntryIds
      /\ \A c \in DOMAIN x.icons :
            \/ c \in DOMAIN d.icons
            \/ c \notin DOMAIN dest.deleted \cup DOMAIN source.deleted
  BY DEF Grown
<1>2. DOMAIN x.icons \cup DOMAIN dest.icons \cup DOMAIN source.icons \subseteq IconIds
  <2>1. IsMap(x.icons, IconIds, Icons) /\ IsMap(dest.icons, IconIds, Icons) /\ IsMap(source.icons, IconIds, Icons)
    BY FormedParts DEF TreeInv, CopiesFormed
  <2> QED  BY <2>1 DEF IsMap
<1> QED  BY <1>1, <1>2, IdsAssumption DEF NoIconBuried

\* The icons stay, and what is shown was shown in one of the copies.
LEMMA IconsStay ==
    ASSUME IconsInv, pc \notin Editing, pc' \notin Editing, source' = source,
           DOMAIN dest'.icons = DOMAIN dest.icons,
           \A g \in DOMAIN dest'.groups :
              \/ g \in DOMAIN dest.groups /\ dest'.groups[g].icon = dest.groups[g].icon
              \/ g \in DOMAIN source.groups /\ dest'.groups[g].icon = source.groups[g].icon,
           \A e \in DOMAIN dest'.entries : \A k \in DOMAIN dest'.entries[e] :
              \/ e \in DOMAIN dest.entries /\ \E i \in DOMAIN dest.entries[e] :
                    dest'.entries[e][k].icon = dest.entries[e][i].icon
              \/ e \in DOMAIN source.entries /\ \E i \in DOMAIN source.entries[e] :
                    dest'.entries[e][k].icon = source.entries[e][i].icon
    PROVE  IconsInv'
<1>1. /\ ShowsOnly(dest, IconsOf(dest)) /\ ShowsOnly(source, IconsOf(dest))
      /\ IconsOf(source) \subseteq IconsOf(dest)
  BY DEF IconsInv, MergedIconsInv, ShowsOnly
<1>2. IconsOf(dest') = IconsOf(dest)
  BY DEF IconsOf
<1>3. ShowsOnly(dest', IconsOf(dest))
  BY <1>1 DEF ShowsOnly
<1>4. ShowsOnly(source, IconsOf(source))
  BY DEF IconsInv, MergedIconsInv
<1> QED  BY <1>1, <1>2, <1>3, <1>4 DEF IconsInv, EditingIcons, MergedIconsInv

\* IconsInv is inductive, given TreeInv.
LEMMA IconsStep ==
    ASSUME TreeInv, IconsInv, [Next]_vars
    PROVE  IconsInv'
<1>1. TreeInv' /\ Formed(dest') /\ Formed(source')
  BY TreeInvSteps DEF TreeInv, CopiesFormed
<1>2. CASE DestEdited
  <2>1. /\ pc = "edit dest" /\ pc' = pc /\ source' = source
        /\ Grown(dest, dest') /\ (Resolves(dest) => Resolves(dest'))
    BY <1>2 DEF DestEdited
  <2>2. Resolves(dest) /\ Resolves(source) /\ NoIconBuried(dest) /\ NoIconBuried(source)
    BY <2>1 DEF IconsInv, EditingIcons, Editing
  <2>3. (NoIconBuried(dest))' /\ (NoIconBuried(source))'
    BY <1>1, <2>1, <2>2, EditBuriesNoIcon DEF NoIconBuried
  <2> QED  BY <2>1, <2>2, <2>3 DEF IconsInv, EditingIcons, MergedIconsInv, Editing
<1>3. CASE SourceEdited
  <2>1. /\ pc \in Editing /\ pc' = "edit source" /\ dest' = dest
        /\ Grown(source, source') /\ (Resolves(source) => Resolves(source'))
    BY <1>3 DEF SourceEdited
  <2>2. Resolves(dest) /\ Resolves(source) /\ NoIconBuried(dest) /\ NoIconBuried(source)
    BY <2>1 DEF IconsInv, EditingIcons
  <2>3. (NoIconBuried(dest))' /\ (NoIconBuried(source))'
    BY <1>1, <2>1, <2>2, EditBuriesNoIcon DEF NoIconBuried
  <2> QED  BY <2>1, <2>2, <2>3 DEF IconsInv, EditingIcons, MergedIconsInv, Editing
<1>4. CASE IconsMerged
  <2>1. /\ pc \in Editing /\ pc' = "add groups" /\ source' = source
        /\ dest'.groups = dest.groups /\ dest'.entries = dest.entries
        /\ DOMAIN dest.icons \subseteq DOMAIN dest'.icons \cup DOMAIN source.deleted
        /\ DOMAIN source.icons \subseteq DOMAIN dest'.icons \cup DOMAIN dest.deleted
    BY <1>4 DEF IconsMerged
  <2>2. Resolves(dest) /\ Resolves(source) /\ NoIconBuried(dest) /\ NoIconBuried(source)
    BY <2>1 DEF IconsInv, EditingIcons
  <2>3. IconsOf(dest) \subseteq IconsOf(dest') /\ IconsOf(source) \subseteq IconsOf(dest')
    BY <2>1, <2>2 DEF NoIconBuried, IconsOf
  <2>4. ShowsOnly(dest, IconsOf(dest)) /\ ShowsOnly(source, IconsOf(source))
    BY <2>2, ShowsIcons
  <2>5. ShowsOnly(dest', IconsOf(dest'))
    BY <2>1, <2>3, <2>4 DEF ShowsOnly
  <2> QED  BY <2>1, <2>3, <2>4, <2>5 DEF IconsInv, EditingIcons, MergedIconsInv, Editing
<1>5. CASE GroupsCame
  BY <1>5, IconsStay DEF GroupsCame, SamePlaces, Editing
<1>6. CASE GroupsCondemned
  BY <1>6, IconsStay DEF GroupsCondemned, Editing
<1>7. CASE EntriesCame
  BY <1>7, IconsStay DEF EntriesCame, SamePlaces, SameEntries, Editing
<1>8. CASE EntriesGone
  BY <1>8, IconsStay DEF EntriesGone, SamePlaces, SameEntries, Editing
<1>9. ASSUME NEW e \in EntryIds, EntryDone(e)
      PROVE  IconsInv'
  <2>1. /\ pc = "entries" /\ pc' \in {"entries", "error"} /\ source' = source /\ e \in todo
        /\ DOMAIN dest'.entries = DOMAIN dest.entries
        /\ SameEntries(dest, dest', DOMAIN dest.entries \ {e})
        /\ DOMAIN dest'.groups = DOMAIN dest.groups
        /\ SamePlaces(dest, dest', DOMAIN dest.groups)
        /\ dest'.icons = dest.icons
    BY <1>9 DEF EntryDone
  <2>2. e \in DOMAIN dest.entries \cap DOMAIN source.entries
    BY <2>1 DEF TreeInv, TodoThere
  <2>3. \A k \in DOMAIN dest'.entries[e] :
           \/ \E i \in DOMAIN dest.entries[e] : dest'.entries[e][k].icon = dest.entries[e][i].icon
           \/ \E i \in DOMAIN source.entries[e] : dest'.entries[e][k].icon = source.entries[e][i].icon
    BY <1>9 DEF EntryDone, EntryMerged
  <2>4. \A c \in DOMAIN dest'.entries : \A k \in DOMAIN dest'.entries[c] :
           \/ c \in DOMAIN dest.entries /\ \E i \in DOMAIN dest.entries[c] :
                 dest'.entries[c][k].icon = dest.entries[c][i].icon
           \/ c \in DOMAIN source.entries /\ \E i \in DOMAIN source.entries[c] :
                 dest'.entries[c][k].icon = source.entries[c][i].icon
    BY <2>1, <2>2, <2>3 DEF SameEntries
  <2>5. \A g \in DOMAIN dest'.groups : g \in DOMAIN dest.groups /\ dest'.groups[g].icon = dest.groups[g].icon
    BY <2>1 DEF SamePlaces
  <2> QED  BY <2>1, <2>4, <2>5, IconsStay DEF Editing
<1>10. CASE GroupsGone
  BY <1>10, IconsStay DEF GroupsGone, SamePlaces, SameEntries, Editing
<1>11. ASSUME NEW g \in GroupIds, GroupDone(g)
       PROVE  IconsInv'
  <2>1. /\ pc = "groups" /\ pc' \in {"groups", "error"} /\ source' = source /\ g \in todo
        /\ DOMAIN dest'.groups = DOMAIN dest.groups
        /\ SamePlaces(dest, dest', DOMAIN dest.groups \ {g})
        /\ dest'.groups[g].icon \in {dest.groups[g].icon, source.groups[g].icon}
        /\ dest'.entries = dest.entries /\ dest'.icons = dest.icons
    BY <1>11 DEF GroupDone
  <2>2. g \in DOMAIN dest.groups \cap DOMAIN source.groups
    BY <2>1 DEF TreeInv, TodoThere
  <2>3. \A c \in DOMAIN dest'.groups :
           \/ c \in DOMAIN dest.groups /\ dest'.groups[c].icon = dest.groups[c].icon
           \/ c \in DOMAIN source.groups /\ dest'.groups[c].icon = source.groups[c].icon
    BY <2>1, <2>2 DEF SamePlaces
  <2> QED  BY <2>1, <2>3, IconsStay DEF Editing
<1>12. ASSUME NEW g, NEW q, GroupPlaced(g, q)
       PROVE  IconsInv'
  BY <1>12, IconsStay DEF GroupPlaced, Editing
<1>13. CASE Rested
  <2>1. (pc' \in Editing <=> pc \in Editing) /\ UNCHANGED <<dest, source>>
    BY <1>13 DEF Rested, Editing
  <2> QED  BY <2>1 DEF IconsInv, EditingIcons, MergedIconsInv, NoIconBuried
<1> QED  BY <1>2, <1>3, <1>4, <1>5, <1>6, <1>7, <1>8, <1>9, <1>10, <1>11, <1>12, <1>13, StepsAre

\* It holds throughout.
LEMMA IconsInvHolds == Spec => []IconsInv
<1>1. Init => IconsInv
  <2> SUFFICES ASSUME Init
               PROVE  IconsInv
    OBVIOUS
  <2>1. dest \in Ancestors /\ source = dest /\ pc = "edit dest"
    BY DEF Init
  <2>2. Resolves(dest) /\ DOMAIN dest.icons \cap DOMAIN dest.deleted = {}
    BY <2>1, AncestorsAssumption DEF IsDatabase, Resolves, IconsOf
  <2> QED  BY <2>1, <2>2 DEF IconsInv, EditingIcons, MergedIconsInv, NoIconBuried, Editing
<1>2. TreeInv /\ IconsInv /\ [Next]_vars => IconsInv'
  BY IconsStep
<1> QED  BY <1>1, <1>2, TreeInvHolds, PTL DEF Spec

\* Every custom icon that a group or a version of the destination shows exists,
\* before, during and after the merge.
THEOREM MergedIconsDoExist == Spec => []MergedIconsExist
<1>1. ASSUME IconsInv
      PROVE  MergedIconsExist
  <2>1. ShowsOnly(dest, IconsOf(dest))
    BY <1>1, ShowsIcons DEF IconsInv, EditingIcons, MergedIconsInv
  <2> QED  BY <2>1 DEF ShowsOnly, MergedIconsExist, IconMentions, VersionsOf, IconsOf
<1> QED  BY <1>1, IconsInvHolds, PTL

===============================================================================
