---------------------------- MODULE FilesProofs ----------------------------
(***************************************************************************)
(* What holds of files and their readers for every file, every length and  *)
(* every sequence of calls: what is read of an HMAC block stream, what the *)
(* reader of KDB payloads makes of levels and sections, and when the tools *)
(* write.                                                                  *)
(***************************************************************************)
EXTENDS Tools, TLAPS

----------------------------------------------------------------------------
(* The block stream.                                                       *)

\* The index is the number of the blocks read, and no block is shorter than its
\* first cell: a block that is looked at has an index within the file, where
\* Unforged speaks about it.
BlockTypeOK ==
    /\ \E Cell : data \in Seq(Cell)
    /\ \E Cell : written \in Seq(Cell)
    /\ \E Cell : out \in Seq(Cell)
    /\ pos \in Nat \ {0}
    /\ index \in Nat
    /\ index <= pos

Counted == pc = "blocks" => index = Len(out) /\ index < pos

StreamInv == BlockTypeOK /\ Counted /\ Unforged /\ PrefixOfWritten

\* A block that passes the check of read_hmac_block_stream is the next one.
LEMMA NextBlockIsNext ==
    ASSUME StreamInv, pc = "blocks", BlockAt(pos), Verifies(pos, index), data[pos][3] > 0
    PROVE  index < Len(written) /\ CellsAt(pos) = written[index + 1]
<1>1. pos \in DOMAIN data
  BY DEF BlockAt
<1>2. DOMAIN data = 1 .. Len(data) /\ Len(data) \in Nat
  BY DEF StreamInv, BlockTypeOK
<1>3. index \in 0 .. Len(data)
  BY <1>1, <1>2 DEF StreamInv, BlockTypeOK, Counted
<1> QED
  BY <1>1, <1>3 DEF StreamInv, Unforged

LEMMA StreamInit == BlockInit => StreamInv
<1> SUFFICES ASSUME BlockInit PROVE StreamInv
  OBVIOUS
<1>1. out \in Seq({}) /\ Len(out) = 0 /\ DOMAIN out = {}
  BY DEF BlockInit
<1>2. Len(written) \in Nat
  BY DEF BlockInit
<1>3. BlockTypeOK
  BY <1>1 DEF BlockInit, BlockTypeOK
<1>4. Counted /\ PrefixOfWritten
  BY <1>1, <1>2 DEF BlockInit, Counted, PrefixOfWritten
<1> QED
  BY <1>3, <1>4 DEF BlockInit, StreamInv

\* The file, the key and what was written stay as they are.
LEMMA UnforgedStays ==
    ASSUME Unforged, UNCHANGED <<data, hmacKey, written>>
    PROVE  Unforged'
BY DEF Unforged, BlockAt, CellsAt, Verifies, BlockMac, BlockKey, Hmac, Sha512

LEMMA ReadBlockInv == StreamInv /\ ReadBlock => StreamInv'
<1> SUFFICES ASSUME StreamInv, ReadBlock PROVE StreamInv'
  OBVIOUS
<1> DEFINE cells == CellsAt(pos)
<1>1. index < Len(written) /\ cells = written[index + 1]
  BY NextBlockIsNext DEF ReadBlock
<1> HIDE DEF cells
<1>2. /\ out' = Append(out, cells)
      /\ pos' = pos + 1 + data[pos][3] /\ data[pos][3] \in Nat
      /\ index' = index + 1
      /\ pc = "blocks" /\ UNCHANGED <<pc, data, hmacKey, written>>
  BY DEF ReadBlock, NextIndex, BlockAt, cells
<1>3. index = Len(out) /\ index < pos /\ index \in Nat /\ pos \in Nat
  BY <1>2 DEF StreamInv, BlockTypeOK, Counted
<1>4. PICK Cell : out \in Seq(Cell)
  BY DEF StreamInv, BlockTypeOK
<1>5. /\ Append(out, cells) \in Seq(Cell \cup {cells})
      /\ Len(Append(out, cells)) = index + 1
      /\ Append(out, cells)[index + 1] = cells
      /\ \A i \in 1 .. index : Append(out, cells)[i] = out[i]
      /\ DOMAIN Append(out, cells) = 1 .. index + 1
      /\ DOMAIN out = 1 .. index
  BY <1>3, <1>4
<1>6. BlockTypeOK'
  <2>1. \E C : out' \in Seq(C)
    BY <1>2, <1>5
  <2>2. pos' \in Nat \ {0} /\ index' \in Nat /\ index' <= pos'
    BY <1>2, <1>3
  <2> QED
    BY <1>2, <2>1, <2>2 DEF StreamInv, BlockTypeOK
<1>7. Counted'
  BY <1>2, <1>3, <1>5 DEF Counted
<1>8. PrefixOfWritten'
  <2>1. \A i \in 1 .. index + 1 : i \in 1 .. index \/ i = index + 1
    BY <1>3
  <2>2. \A i \in 1 .. index + 1 : Append(out, cells)[i] = written[i]
    BY <1>1, <1>5, <2>1 DEF StreamInv, PrefixOfWritten
  <2>3. Len(written) \in Nat
    BY DEF StreamInv, BlockTypeOK
  <2>4. index + 1 <= Len(written)
    BY <1>1, <1>3, <2>3
  <2> QED
    BY <1>2, <1>5, <2>2, <2>4 DEF PrefixOfWritten
<1>9. Unforged'
  BY <1>2, UnforgedStays DEF StreamInv
<1> QED
  BY <1>6, <1>7, <1>8, <1>9 DEF StreamInv

\* The other steps leave the loop, or change nothing.
LEMMA LeavingStream ==
    ASSUME StreamInv, \/ EndOfStream
                \/ BrokenBlock
                \/ LastBlock
                \/ UNCHANGED blockVars
    PROVE  StreamInv'
<1>1. UNCHANGED <<data, out, hmacKey, written>>
  BY DEF EndOfStream, BrokenBlock, LastBlock, blockVars
<1>2. Unforged'
  BY <1>1, UnforgedStays DEF StreamInv
<1>3. PrefixOfWritten'
  BY <1>1 DEF StreamInv, PrefixOfWritten
<1>4. /\ pos' \in {pos, pos + 1} /\ index' \in {index, index + 1}
      /\ index' # index => pos' = pos + 1 /\ pc = "blocks"
      /\ pc' = "blocks" => pc = "blocks" /\ pos' = pos /\ index' = index
  BY DEF EndOfStream, BrokenBlock, LastBlock, blockVars, Proceed, Fail, NextIndex
<1>5. BlockTypeOK' /\ Counted'
  BY <1>1, <1>4 DEF StreamInv, BlockTypeOK, Counted
<1> QED
  BY <1>2, <1>3, <1>5 DEF StreamInv

\* Whatever became of a file, the blocks that its reader has accepted are the
\* first ones that were written, in their order: none is skipped, repeated or
\* taken from elsewhere, for any number and size of blocks and any damage that
\* forges no mac (read_hmac_block_stream).
THEOREM OnlyAPrefixIsRead == BlockSpec => []PrefixOfWritten
<1>1. StreamInv /\ [ReadStream]_blockVars => StreamInv'
  BY ReadBlockInv, LeavingStream DEF ReadStream
<1>2. StreamInv => PrefixOfWritten
  BY DEF StreamInv
<1> QED
  BY StreamInit, <1>1, <1>2, PTL DEF BlockSpec

----------------------------------------------------------------------------
(* The tree of a KDB file.                                                 *)

\* What the branch knows: it holds groups one level below another, and after
\* the group at index i no group of a lower level than i came.
BranchTypeOK ==
    /\ groups \in Seq([parent : Nat])
    /\ levels \in Seq(Nat)
    /\ Len(levels) = Len(groups)
    /\ branch \in Seq(Nat)
    /\ group \in [gid : Gids \cup {None}, level : Levels \cup {None}]

BranchRight ==
    \A i \in DOMAIN branch :
        /\ branch[i] = Root => i = 1
        /\ branch[i] # Root => branch[i] \in DOMAIN levels /\ levels[branch[i]] = i - 1
        /\ \A j \in DOMAIN levels : j > branch[i] => levels[j] >= i

LevelsInv == BranchTypeOK /\ BranchRight /\ ParentsByLevel

Above(l) == ParentOn(SubSeq(branch, 1, l))
LowerThan(l) == {j \in DOMAIN levels : levels[j] < l}

\* A group at level l that continues the branch goes where ParentsByLevel wants
\* it: all groups after the parent on the branch have level l or more.
LEMMA ParentFits ==
    ASSUME LevelsInv, NEW l \in Nat, l <= Len(branch)
    PROVE  /\ Above(l) \in Nat
           /\ LowerThan(l) = {} => Above(l) = Root
           /\ LowerThan(l) # {} =>
                 /\ Above(l) \in LowerThan(l)
                 /\ levels[Above(l)] = l - 1
                 /\ \A j \in LowerThan(l) : j <= Above(l)
<1> DEFINE p == Above(l)
           L == LowerThan(l)
<1>1. CASE l = 0
  <2>1. SubSeq(branch, 1, l) = <<>>
    BY <1>1 DEF LevelsInv, BranchTypeOK
  <2>2. L = {}
    BY <1>1 DEF LevelsInv, BranchTypeOK, LowerThan
  <2> QED
    BY <2>1, <2>2 DEF Above, ParentOn, Root
<1>2. CASE l # 0
  <2>1. /\ Len(SubSeq(branch, 1, l)) = l
        /\ SubSeq(branch, 1, l)[l] = branch[l]
        /\ l \in DOMAIN branch
    BY <1>2 DEF LevelsInv, BranchTypeOK
  <2>2. SubSeq(branch, 1, l) # <<>>
    BY <1>2, <2>1
  <2>3. p = branch[l] /\ p \in Nat
    BY <2>1, <2>2 DEF Above, ParentOn, LevelsInv, BranchTypeOK
  <2>4. \A j \in L : j <= p
    <3>1. \A j \in DOMAIN levels : j > p => levels[j] >= l
      BY <2>1, <2>3 DEF LevelsInv, BranchRight
    <3>2. \A j \in L : j \in DOMAIN levels /\ j \in Nat /\ levels[j] \in Nat /\ levels[j] < l
      BY DEF LevelsInv, BranchTypeOK, LowerThan
    <3> QED
      BY <2>3, <3>1, <3>2
  <2>5. CASE p = Root
    <3>1. \A j \in L : j >= 1
      BY DEF LevelsInv, BranchTypeOK, LowerThan
    <3> QED
      BY <2>3, <2>4, <2>5, <3>1 DEF Root, LevelsInv, BranchTypeOK, LowerThan
  <2>6. CASE p # Root
    BY <2>1, <2>3, <2>4, <2>6 DEF LevelsInv, BranchTypeOK, BranchRight, LowerThan
  <2> QED
    BY <2>3, <2>5, <2>6
<1> QED
  BY <1>1, <1>2

LEMMA LevelsInit == KdbInit => LevelsInv
BY DEF KdbInit, LevelsInv, BranchTypeOK, BranchRight, ParentsByLevel, NoGroup, Root

LEMMA EndGroupInv ==
    ASSUME LevelsInv, EndGroup
    PROVE  LevelsInv'
<1> DEFINE l == group.level
           n == Len(groups)
           p == Above(l)
<1>1. /\ groups' = Append(groups, [parent |-> p])
      /\ levels' = Append(levels, l)
      /\ branch' = Append(SubSeq(branch, 1, l), n + 1)
      /\ group' = NoGroup
  BY DEF EndGroup, Truncated, Above
<1>2. l \in Nat /\ l <= Len(branch) /\ n \in Nat
  <2>1. l # None /\ l <= Len(branch)
    BY DEF EndGroup, CanEndGroup
  <2>2. l \in Levels \cup {None} /\ n \in Nat
    BY DEF LevelsInv, BranchTypeOK
  <2> QED
    BY <2>1, <2>2, LevelsAssumption
<1>0. /\ p \in Nat
      /\ LowerThan(l) = {} => p = Root
      /\ LowerThan(l) # {} =>
            /\ p \in LowerThan(l)
            /\ levels[p] = l - 1
            /\ \A j \in LowerThan(l) : j <= p
  BY <1>2, ParentFits
<1> HIDE DEF l, p
<1>3. /\ Len(levels) = n /\ Len(levels') = n + 1 /\ DOMAIN levels' = 1 .. n + 1
      /\ DOMAIN levels = 1 .. n
      /\ \A j \in 1 .. n : levels'[j] = levels[j] /\ levels[j] \in Nat
      /\ levels'[n + 1] = l
  <2>1. levels \in Seq(Nat) /\ Len(levels) = n
    BY DEF LevelsInv, BranchTypeOK
  <2> QED
    BY <1>1, <1>2, <2>1
<1>4. /\ Len(branch') = l + 1 /\ DOMAIN branch' = 1 .. l + 1
      /\ \A i \in 1 .. l : branch'[i] = branch[i] /\ branch[i] \in Nat /\ i \in DOMAIN branch
      /\ branch'[l + 1] = n + 1
  <2>1. SubSeq(branch, 1, l) \in Seq(Nat) /\ Len(SubSeq(branch, 1, l)) = l
    BY <1>2 DEF LevelsInv, BranchTypeOK
  <2>2. \A i \in 1 .. l : SubSeq(branch, 1, l)[i] = branch[i] /\ i \in DOMAIN branch
    BY <1>2 DEF LevelsInv, BranchTypeOK
  <2> QED
    BY <1>1, <1>2, <2>1, <2>2 DEF LevelsInv, BranchTypeOK
<1>5. BranchTypeOK'
  <2>1. SubSeq(branch, 1, l) \in Seq(Nat)
    BY <1>2 DEF LevelsInv, BranchTypeOK
  <2>2. branch' \in Seq(Nat)
    BY <1>1, <1>2, <2>1
  <2>3. levels' \in Seq(Nat)
    BY <1>1, <1>2 DEF LevelsInv, BranchTypeOK
  <2>4. [parent |-> p] \in [parent : Nat]
    BY <1>0
  <2>5. groups' \in Seq([parent : Nat]) /\ Len(groups') = n + 1
    BY <1>1, <2>4 DEF LevelsInv, BranchTypeOK
  <2>6. group' \in [gid : Gids \cup {None}, level : Levels \cup {None}]
    BY <1>1 DEF NoGroup
  <2> QED
    BY <1>3, <2>2, <2>3, <2>5, <2>6 DEF BranchTypeOK
<1>6. BranchRight'
  <2> SUFFICES ASSUME NEW i \in 1 .. l + 1
               PROVE  /\ branch'[i] = Root => i = 1
                      /\ branch'[i] # Root => branch'[i] \in DOMAIN levels'
                                               /\ levels'[branch'[i]] = i - 1
                      /\ \A j \in DOMAIN levels' : j > branch'[i] => levels'[j] >= i
    BY <1>4 DEF BranchRight, Root
  <2>1. CASE i = l + 1
    BY <1>2, <1>3, <1>4, <2>1 DEF Root
  <2>2. CASE i \in 1 .. l
    BY <1>2, <1>3, <1>4, <2>2 DEF LevelsInv, BranchRight, Root
  <2> QED
    BY <1>2, <2>1, <2>2
<1>7. ParentsByLevel'
  <2> SUFFICES ASSUME NEW k \in DOMAIN groups'
               PROVE  IF Lower(k)' = {} THEN groups'[k].parent = Root
                      ELSE /\ groups'[k].parent \in Lower(k)'
                           /\ \A j \in Lower(k)' : j <= groups'[k].parent
                           /\ levels'[groups'[k].parent] = levels'[k] - 1
    BY DEF ParentsByLevel, Root
  <2>1. DOMAIN groups' = 1 .. n + 1 /\ k \in 1 .. n + 1
    BY <1>1, <1>2 DEF LevelsInv, BranchTypeOK
  <2>2. CASE k = n + 1
    <3>1. groups'[k].parent = p
      BY <1>1, <1>2, <2>2 DEF LevelsInv, BranchTypeOK
    <3>2. levels'[k] = l
      BY <1>3, <2>2
    <3>3. Lower(k)' = LowerThan(l)
      BY <1>2, <1>3, <2>2, <3>2 DEF Lower, LowerThan
    <3>4. \A j \in LowerThan(l) : levels'[j] = levels[j]
      BY <1>3 DEF LowerThan
    <3> QED
      BY <1>0, <3>1, <3>2, <3>3, <3>4
  <2>3. CASE k \in 1 .. n
    <3>1. groups'[k] = groups[k] /\ k \in DOMAIN groups
      BY <1>1, <2>3 DEF LevelsInv, BranchTypeOK
    <3>2. levels'[k] = levels[k] /\ Lower(k)' = Lower(k)
      BY <1>2, <1>3, <2>3 DEF Lower
    <3>3. \A j \in Lower(k) : levels'[j] = levels[j]
      BY <1>2, <1>3, <2>3 DEF Lower
    <3>4. IF Lower(k) = {} THEN groups[k].parent = Root
          ELSE /\ groups[k].parent \in Lower(k)
               /\ \A j \in Lower(k) : j <= groups[k].parent
               /\ levels[groups[k].parent] = levels[k] - 1
      BY <3>1 DEF LevelsInv, ParentsByLevel
    <3> QED
      BY <3>1, <3>2, <3>3, <3>4
  <2> QED
    BY <1>2, <2>1, <2>2, <2>3
<1> QED
  BY <1>5, <1>6, <1>7 DEF LevelsInv

LEMMA LevelsNext ==
    ASSUME LevelsInv, [KdbNext]_kdbVars
    PROVE  LevelsInv'
<1>1. CASE GroupField
  <2>1. group' \in [gid : Gids \cup {None}, level : Levels \cup {None}]
    BY <1>1 DEF GroupField, LevelsInv, BranchTypeOK
  <2>2. UNCHANGED <<branch, groups, levels>>
    BY <1>1 DEF GroupField
  <2> QED
    BY <2>1, <2>2 DEF LevelsInv, BranchTypeOK, BranchRight, ParentsByLevel, Lower
<1>2. CASE EndGroup
  BY <1>2, EndGroupInv
<1>3. CASE UNCHANGED groupVars
  BY <1>3 DEF groupVars, LevelsInv, BranchTypeOK, BranchRight, ParentsByLevel, Lower
<1> QED
  BY <1>1, <1>2, <1>3 DEF KdbNext, GroupsDone, EntryField, EndEntry, EntriesDone,
     BadField, EarlyEnd, kdbVars, groupVars, entryVars

\* The parent of every group made from a KDB file is the nearest group before
\* it with a lower level, whatever the file gives as levels (parse_groups).
THEOREM LevelsMakeTheTree == KdbSpec => []ParentsByLevel
<1>1. LevelsInv => ParentsByLevel
  BY DEF LevelsInv
<1> QED
  BY <1>1, LevelsInit, LevelsNext, PTL DEF KdbSpec

----------------------------------------------------------------------------
(* What the loop of parse_entries carries from entry to entry.             *)

Maps(A, B) == UNION {[X -> B] : X \in SUBSET A}

Halves == [kind : {"desc", "data"}, value : Binaries]
Sections == [fields : Maps(FieldNames, Texts), binaries : Seq(Halves)]

EntryTypeOK ==
    /\ groups \in Seq([parent : Nat])
    /\ gidMap \in Maps(Gids, Nat)
    /\ entry \in [gid : Gids \cup {None}, fields : Maps(FieldNames, Texts),
                  desc : Binaries \cup {None}, data : Binaries \cup {None},
                  attachments : Maps(Binaries, Binaries)]
    /\ section \in Sections
    /\ entries \in Seq([group : Nat, fields : Maps(FieldNames, Texts),
                        attachments : Maps(Binaries, Binaries), section : Sections])

\* The places where s names n, and that there is a last one
NamedAt(s, n) == {i \in DOMAIN s : s[i].kind = "desc" /\ s[i].value = n}
IsLast(s, n, i) == i \in NamedAt(s, n) /\ \A j \in NamedAt(s, n) : j <= i
LastsKnown(s) == \A n : NamedAt(s, n) # {} => \E i : IsLast(s, n, i)
AllLastsKnown(s) == \A m \in 0 .. Len(s) : LastsKnown(SubSeq(s, 1, m))

\* The halves so far alternate, with a pair perhaps still open.
Begins(s, first) == \A i \in DOMAIN s : (s[i].kind = first) <=> (i % 2 = 1)

InOrder(first) == \A k \in DOMAIN entries : Alternates(entries[k].section.binaries, first)

\* In a file that always begins with `first`, no half of the other kind ever
\* waits, and what is closed of the section is in the attachments.
Carries(first) ==
    LET s == section.binaries
        waiting == IF first = "desc" THEN entry.desc ELSE entry.data
        other == IF first = "desc" THEN entry.data ELSE entry.desc
    IN /\ other = None
       /\ Len(s) % 2 = 0 => entry.attachments = Described(s)
       /\ Len(s) % 2 = 1 => /\ waiting = s[Len(s)].value
                            /\ entry.attachments = Described(SubSeq(s, 1, Len(s) - 1))

FieldsOwn ==
    /\ entry.fields = section.fields
    /\ \A k \in DOMAIN entries : entries[k].fields = entries[k].section.fields

BinariesOwn ==
    \A first \in {"desc", "data"} : InOrder(first) =>
        /\ \A k \in DOMAIN entries :
              entries[k].attachments = Described(entries[k].section.binaries)
        /\ Begins(section.binaries, first) => Carries(first)

EntriesInv == EntryTypeOK /\ AllLastsKnown(section.binaries) /\ FieldsOwn /\ BinariesOwn

LEMMA PutMaps ==
    ASSUME NEW A, NEW B, NEW f \in Maps(A, B), NEW a \in A, NEW b \in B
    PROVE  Put(f, a, b) \in Maps(A, B)
<1>1. PICK X \in SUBSET A : f \in [X -> B]
  BY DEF Maps
<1>2. Put(f, a, b) \in [X \cup {a} -> B]
  BY <1>1 DEF Put
<1>3. X \cup {a} \in SUBSET A
  OBVIOUS
<1> QED  BY <1>2, <1>3 DEF Maps

LEMMA EmptyMaps == ASSUME NEW A, NEW B PROVE EmptyMap \in Maps(A, B)
<1>1. EmptyMap \in [{} -> B]
  BY DEF EmptyMap
<1> QED  BY <1>1 DEF Maps

\* One more half: the last places that name something are still known.
LEMMA LastsStayKnown ==
    ASSUME NEW s \in Seq(Halves), LastsKnown(s), NEW x \in Halves
    PROVE  LastsKnown(Append(s, x))
<1> DEFINE t == Append(s, x)
<1>1. /\ Len(s) \in Nat /\ DOMAIN s = 1 .. Len(s) /\ DOMAIN t = 1 .. Len(s) + 1
      /\ \A i \in 1 .. Len(s) : t[i] = s[i]
      /\ t[Len(s) + 1] = x
  OBVIOUS
<1> HIDE DEF t
<1> SUFFICES ASSUME NEW n, NamedAt(t, n) # {}
             PROVE  \E i : IsLast(t, n, i)
  BY DEF t, LastsKnown
<1>2. CASE x.kind = "desc" /\ x.value = n
  <2>1. Len(s) + 1 \in NamedAt(t, n)
    BY <1>1, <1>2 DEF NamedAt
  <2>2. \A j \in NamedAt(t, n) : j <= Len(s) + 1
    BY <1>1 DEF NamedAt
  <2> QED  BY <2>1, <2>2 DEF IsLast
<1>3. CASE ~(x.kind = "desc" /\ x.value = n)
  <2>1. NamedAt(t, n) = NamedAt(s, n)
    BY <1>1, <1>3 DEF NamedAt
  <2> QED  BY <2>1 DEF LastsKnown, IsLast
<1> QED  BY <1>2, <1>3

LEMMA AllLastsStayKnown ==
    ASSUME NEW s \in Seq(Halves), AllLastsKnown(s), NEW x \in Halves
    PROVE  AllLastsKnown(Append(s, x))
<1> DEFINE t == Append(s, x)
<1>1. /\ Len(s) \in Nat /\ Len(t) = Len(s) + 1 /\ t \in Seq(Halves)
      /\ SubSeq(s, 1, Len(s)) = s /\ SubSeq(t, 1, Len(t)) = t
  OBVIOUS
<1>2. \A m \in 0 .. Len(s) : SubSeq(t, 1, m) = SubSeq(s, 1, m)
  OBVIOUS
<1>3. LastsKnown(s)
  <2>1. Len(s) \in 0 .. Len(s)
    BY <1>1
  <2>2. LastsKnown(SubSeq(s, 1, Len(s)))
    BY <2>1 DEF AllLastsKnown
  <2> QED  BY <1>1, <2>2
<1>4. LastsKnown(t)
  BY <1>3, LastsStayKnown
<1> HIDE DEF t
<1>5. \A m \in 0 .. Len(t) : m \in 0 .. Len(s) \/ m = Len(t)
  BY <1>1
<1>6. AllLastsKnown(t)
  BY <1>1, <1>2, <1>4, <1>5 DEF AllLastsKnown
<1> QED  BY <1>6 DEF t

\* Described in terms of the places
Partner(s, i) == s[IF s[1].kind = "desc" THEN i + 1 ELSE i - 1].value
LastAt(s, n) == CHOOSE i \in NamedAt(s, n) : \A j \in NamedAt(s, n) : j <= i

LEMMA DescribedIs ==
    ASSUME NEW s
    PROVE  Described(s) = [n \in {m \in {s[i].value : i \in DOMAIN s} : NamedAt(s, m) # {}}
                              |-> Partner(s, LastAt(s, n))]
<1>1. {s[i].value : i \in {j \in DOMAIN s : s[j].kind = "desc"}}
          = {m \in {s[i].value : i \in DOMAIN s} : NamedAt(s, m) # {}}
  BY DEF NamedAt
<1> QED  BY <1>1 DEF Described, Partner, LastAt, NamedAt

LEMMA LastIs ==
    ASSUME NEW s \in Seq(Halves), NEW n, NEW i, IsLast(s, n, i)
    PROVE  LastAt(s, n) = i
<1>1. NamedAt(s, n) \subseteq Nat
  BY DEF NamedAt
<1>2. \E l \in NamedAt(s, n) : \A j \in NamedAt(s, n) : j <= l
  BY DEF IsLast
<1>3. /\ LastAt(s, n) \in NamedAt(s, n)
      /\ \A j \in NamedAt(s, n) : j <= LastAt(s, n)
  BY <1>2 DEF LastAt
<1>4. i \in NamedAt(s, n) /\ LastAt(s, n) <= i /\ i <= LastAt(s, n)
  BY <1>3 DEF IsLast
<1> QED  BY <1>1, <1>3, <1>4

\* A pair closes: its name and its content are put into what the pairs before
\* it describe.
LEMMA PairDescribed ==
    ASSUME NEW s \in Seq(Halves), LastsKnown(s), NEW x \in Halves, NEW y \in Halves,
           NEW first \in {"desc", "data"}, Len(s) % 2 = 0,
           Begins(Append(Append(s, x), y), first)
    PROVE  Described(Append(Append(s, x), y)) =
               IF first = "desc" THEN Put(Described(s), x.value, y.value)
                                 ELSE Put(Described(s), y.value, x.value)
<1> DEFINE t == Append(Append(s, x), y)
           m == Len(s)
           n == IF first = "desc" THEN x.value ELSE y.value
           v == IF first = "desc" THEN y.value ELSE x.value
           l == IF first = "desc" THEN m + 1 ELSE m + 2
<1>1. /\ m \in Nat /\ m % 2 = 0 /\ DOMAIN s = 1 .. m /\ DOMAIN t = 1 .. m + 2
      /\ \A i \in 1 .. m : t[i] = s[i] /\ s[i] \in Halves
      /\ t[m + 1] = x /\ t[m + 2] = y
      /\ t \in Seq(Halves)
  OBVIOUS
<1>0. Begins(t, first)
  OBVIOUS
<1> HIDE DEF m, t
<1>2. /\ (m + 1) % 2 = 1 /\ (m + 2) % 2 = 0
      /\ 1 % 2 = 1
  BY <1>1
<1>3. /\ (x.kind = first) /\ (y.kind # first)
      /\ \A i \in 1 .. m : (s[i].kind = first) <=> (i % 2 = 1)
      /\ t[1].kind = first
      /\ m # 0 => s[1].kind = first
  <2>1. \A i \in 1 .. m + 2 : (t[i].kind = first) <=> (i % 2 = 1)
    BY <1>0, <1>1 DEF Begins
  <2>2. /\ 1 \in 1 .. m + 2 /\ m + 1 \in 1 .. m + 2 /\ m + 2 \in 1 .. m + 2
        /\ \A i \in 1 .. m : i \in 1 .. m + 2
        /\ m # 0 => 1 \in 1 .. m
    BY <1>1
  <2>3. t[1].kind = first /\ t[m + 1].kind = first /\ t[m + 2].kind # first
    <3>1. (t[1].kind = first) <=> (1 % 2 = 1)
      BY <2>1, <2>2
    <3>2. (t[m + 1].kind = first) <=> ((m + 1) % 2 = 1)
      BY <2>1, <2>2
    <3>3. (t[m + 2].kind = first) <=> ((m + 2) % 2 = 1)
      BY <2>1, <2>2
    <3>4. (m + 2) % 2 # 1
      BY <1>2
    <3> QED  BY <1>2, <3>1, <3>2, <3>3, <3>4
  <2>4. \A i \in 1 .. m : (s[i].kind = first) <=> (i % 2 = 1)
    BY <1>1, <2>1, <2>2
  <2> QED  BY <1>1, <1>2, <2>2, <2>3, <2>4
<1>4. /\ x.kind = "desc" <=> first = "desc"
      /\ y.kind = "desc" <=> first = "data"
      /\ \A i \in 1 .. m : s[i].kind = "desc" <=> (i % 2 = IF first = "desc" THEN 1 ELSE 0)
  BY <1>1, <1>3 DEF Halves
<1>5. /\ l \in NamedAt(t, n) /\ \A j \in NamedAt(t, n) : j <= l
      /\ Partner(t, l) = v
  <2>1. CASE first = "desc"
    BY <1>1, <1>3, <1>4, <2>1 DEF NamedAt, Partner
  <2>2. CASE first = "data"
    BY <1>1, <1>3, <1>4, <2>2 DEF NamedAt, Partner
  <2> QED  BY <2>1, <2>2
<1>6. LastAt(t, n) = l
  <2>1. IsLast(t, n, l)
    BY <1>5 DEF IsLast
  <2> HIDE DEF n, l
  <2> QED  BY <1>1, <2>1, LastIs
<1>7. ASSUME NEW k, k # n
      PROVE  NamedAt(t, k) = NamedAt(s, k)
  <2>1. ~(t[m + 1].kind = "desc" /\ t[m + 1].value = k)
    BY <1>1, <1>4, <1>7
  <2>2. ~(t[m + 2].kind = "desc" /\ t[m + 2].value = k)
    BY <1>1, <1>4, <1>7
  <2>3. \A i \in 1 .. m + 2 : i = m + 1 \/ i = m + 2 \/ i \in 1 .. m
    BY <1>1
  <2>4. \A i \in 1 .. m : i \in 1 .. m + 2
    BY <1>1
  <2>5. ASSUME NEW i
        PROVE  i \in NamedAt(t, k) <=> i \in NamedAt(s, k)
    <3> HIDE DEF n, v, l
    <3>1. i \in NamedAt(t, k) <=> i \in 1 .. m + 2 /\ t[i].kind = "desc" /\ t[i].value = k
      BY <1>1 DEF NamedAt
    <3>2. i \in NamedAt(s, k) <=> i \in 1 .. m /\ s[i].kind = "desc" /\ s[i].value = k
      BY <1>1 DEF NamedAt
    <3>3. i \in 1 .. m => t[i] = s[i]
      BY <1>1
    <3> QED  BY <2>1, <2>2, <2>3, <2>4, <3>1, <3>2, <3>3
  <2> HIDE DEF n, v, l
  <2> QED  BY <2>5
<1>8. ASSUME NEW k, k # n, NamedAt(s, k) # {}
      PROVE  Partner(t, LastAt(t, k)) = Partner(s, LastAt(s, k))
  <2>1. PICK i : IsLast(s, k, i)
    BY <1>8 DEF LastsKnown
  <2>2. LastAt(t, k) = LastAt(s, k)
    BY <1>7, <1>8 DEF LastAt
  <2>3. LastAt(s, k) = i
    BY <2>1, LastIs
  <2>4. i \in 1 .. m /\ s[i].kind = "desc"
    BY <1>1, <2>1 DEF IsLast, NamedAt
  <2>5. Partner(t, i) = Partner(s, i)
    <3>1. CASE first = "desc"
      <4>1. i % 2 = 1
        BY <1>4, <2>4, <3>1
      <4>2. i + 1 \in 1 .. m
        BY <1>1, <2>4, <4>1
      <4>3. t[1].kind = "desc" /\ s[1].kind = "desc"
        BY <1>1, <1>3, <2>4, <3>1
      <4> QED  BY <1>1, <4>2, <4>3 DEF Partner
    <3>2. CASE first = "data"
      <4>1. i % 2 = 0
        BY <1>4, <2>4, <3>2
      <4>2. i - 1 \in 1 .. m
        BY <2>4, <4>1, <1>1
      <4>3. t[1].kind # "desc" /\ s[1].kind # "desc"
        BY <1>1, <1>3, <2>4, <3>2
      <4> QED  BY <1>1, <4>2, <4>3 DEF Partner
    <3> QED  BY <3>1, <3>2
  <2> QED  BY <2>2, <2>3, <2>5
<1> DEFINE Ds == {k \in {s[i].value : i \in DOMAIN s} : NamedAt(s, k) # {}}
           Dt == {k \in {t[i].value : i \in DOMAIN t} : NamedAt(t, k) # {}}
<1>9. Dt = Ds \cup {n}
  <2>1. \A k : k \in Dt <=> NamedAt(t, k) # {}
    BY DEF NamedAt
  <2>2. \A k : k \in Ds <=> NamedAt(s, k) # {}
    BY DEF NamedAt
  <2> HIDE DEF Dt, Ds, n
  <2> QED  BY <1>5, <1>7, <2>1, <2>2
<1>10. Described(t) = [k \in Dt |-> Partner(t, LastAt(t, k))]
  BY DescribedIs
<1>11. Described(s) = [k \in Ds |-> Partner(s, LastAt(s, k))]
  BY DescribedIs
<1>12. \A k \in Ds : NamedAt(s, k) # {}
  OBVIOUS
<1> HIDE DEF Ds, Dt, n, v, l
<1>13. Described(t) = Put(Described(s), n, v)
  BY <1>5, <1>6, <1>8, <1>9, <1>10, <1>11, <1>12 DEF Put
<1> QED  BY <1>13 DEF n, v, t

----------------------------------------------------------------------------
(* Steps.                                                                  *)

LEMMA NothingDescribed ==
    /\ Described(<<>>) = EmptyMap
    /\ AllLastsKnown(<<>>)
    /\ \A first : Begins(<<>>, first)
<1>1. Described(<<>>) = EmptyMap
  BY DEF Described, EmptyMap
<1>2. AllLastsKnown(<<>>)
  <2>1. \A m \in 0 .. Len(<<>>) : SubSeq(<<>>, 1, m) = <<>>
    OBVIOUS
  <2>2. LastsKnown(<<>>)
    BY DEF LastsKnown, NamedAt
  <2> QED  BY <2>1, <2>2 DEF AllLastsKnown
<1> QED  BY <1>1, <1>2 DEF Begins

LEMMA EntriesInit == KdbInit => EntriesInv
<1> SUFFICES ASSUME KdbInit
             PROVE  EntriesInv
  OBVIOUS
<1>1. EntryTypeOK
  <2>1. gidMap \in Maps(Gids, Nat)
    BY EmptyMaps, PutMaps, GidsAssumption DEF KdbInit, Root
  <2> QED  BY <2>1, EmptyMaps DEF KdbInit, EntryTypeOK, NoEntry, NoSection, Sections
<1>2. AllLastsKnown(section.binaries)
  BY NothingDescribed DEF KdbInit, NoSection
<1>3. FieldsOwn
  BY DEF KdbInit, FieldsOwn, NoEntry, NoSection
<1>4. BinariesOwn
  <2>1. ASSUME NEW first \in {"desc", "data"}
        PROVE  Carries(first)
    <3>1. entry.desc = None /\ entry.data = None /\ entry.attachments = EmptyMap
      BY DEF KdbInit, NoEntry
    <3>2. section.binaries = <<>> /\ Len(<<>>) = 0 /\ 0 % 2 = 0
      BY DEF KdbInit, NoSection
    <3> QED  BY <3>1, <3>2, NothingDescribed DEF Carries
  <2>2. entries = <<>>
    BY DEF KdbInit
  <2> QED  BY <2>1, <2>2 DEF BinariesOwn
<1> QED  BY <1>1, <1>2, <1>3, <1>4 DEF EntriesInv

LEMMA Parity ==
    ASSUME NEW m \in Nat
    PROVE  /\ m % 2 \in {0, 1}
           /\ m % 2 = 0 => (m + 1) % 2 = 1
           /\ m % 2 = 1 => m >= 1 /\ (m + 1) % 2 = 0 /\ (m - 1) % 2 = 0
OBVIOUS

\* The next half of a binary, of a file that begins with `first`
LEMMA HalfCarries ==
    ASSUME EntriesInv, NEW first \in {"desc", "data"}, InOrder(first),
           NEW x \in Halves, section' = [section EXCEPT !.binaries = Append(@, x)],
           entry' = IF x.kind = "desc" THEN WithDesc(entry, x.value)
                                       ELSE WithData(entry, x.value),
           Begins(section'.binaries, first)
    PROVE  Carries(first)'
<1> DEFINE s == section.binaries
           t == Append(s, x)
           m == Len(s)
<1>1. s \in Seq(Halves) /\ section'.binaries = t
  BY DEF EntriesInv, EntryTypeOK, Sections
<1>2. /\ m \in Nat /\ Len(t) = m + 1 /\ DOMAIN t = 1 .. m + 1 /\ DOMAIN s = 1 .. m
      /\ \A i \in 1 .. m : t[i] = s[i]
      /\ t[m + 1] = x /\ SubSeq(t, 1, m) = s /\ t \in Seq(Halves)
  BY <1>1
<1> HIDE DEF t, m
<1>3. Begins(s, first)
  BY <1>1, <1>2 DEF Begins
<1>4. (x.kind = first) <=> ((m + 1) % 2 = 1)
  BY <1>1, <1>2 DEF Begins
<1>5. Carries(first)
  BY <1>3 DEF EntriesInv, BinariesOwn
<1>6. entry = [gid |-> entry.gid, fields |-> entry.fields, desc |-> entry.desc,
               data |-> entry.data, attachments |-> entry.attachments]
  BY DEF EntriesInv, EntryTypeOK
<1>7. x.value \in Binaries /\ x.value # None /\ x.kind \in {"desc", "data"}
  BY BinariesAssumption DEF Halves
<1>8. CASE m % 2 = 0
  <2>1. (m + 1) % 2 = 1
    BY <1>2, <1>8, Parity
  <2>2. x.kind = first
    BY <1>4, <2>1
  <2>3. entry.attachments = Described(s)
    BY <1>5, <1>8 DEF Carries, m
  <2>4. /\ entry'.attachments = entry.attachments
        /\ (IF first = "desc" THEN entry'.desc ELSE entry'.data) = x.value
        /\ (IF first = "desc" THEN entry'.data ELSE entry'.desc) = None
    BY <1>5, <1>6, <2>2 DEF Carries, WithDesc, WithData
  <2>5. Carries(first)' <=>
           /\ (IF first = "desc" THEN entry'.data ELSE entry'.desc) = None
           /\ Len(t) % 2 = 0 => entry'.attachments = Described(t)
           /\ Len(t) % 2 = 1 =>
                 /\ (IF first = "desc" THEN entry'.desc ELSE entry'.data) = t[Len(t)].value
                 /\ entry'.attachments = Described(SubSeq(t, 1, Len(t) - 1))
    BY <1>1 DEF Carries
  <2>6. Len(t) % 2 = 1 /\ Len(t) - 1 = m /\ ~(Len(t) % 2 = 0)
    BY <1>2, <2>1
  <2> HIDE DEF s
  <2> QED  BY <1>2, <2>3, <2>4, <2>5, <2>6
<1>9. CASE m % 2 # 0
  <2>0. m % 2 = 1 /\ (m + 1) % 2 = 0 /\ m \in 1 .. m /\ m - 1 \in 0 .. m /\ (m - 1) % 2 = 0
    <3>1. m % 2 = 1 /\ m >= 1 /\ (m + 1) % 2 = 0 /\ (m - 1) % 2 = 0
      BY <1>2, <1>9, Parity
    <3>2. m \in Nat /\ m >= 1
      BY <1>2, <3>1
    <3>3. m \in 1 .. m /\ m - 1 \in 0 .. m
      BY <3>2
    <3> QED  BY <3>1, <3>3
  <2>1. x.kind # first
    BY <1>4, <2>0
  <2> DEFINE r == SubSeq(s, 1, m - 1)
             w == s[m]
             waiting == IF first = "desc" THEN entry.desc ELSE entry.data
  <2>2. /\ r \in Seq(Halves) /\ Len(r) = m - 1 /\ w \in Halves /\ s = Append(r, w)
    BY <1>1, <2>0 DEF m
  <2>3. LastsKnown(r)
    BY <2>0 DEF EntriesInv, AllLastsKnown, m
  <2>4. waiting = w.value /\ entry.attachments = Described(r)
    BY <1>5, <2>0 DEF Carries, m
  <2>5. w.value \in Binaries /\ w.value # None
    BY <2>2, BinariesAssumption DEF Halves
  <2>6. Described(t) = IF first = "desc" THEN Put(Described(r), w.value, x.value)
                                         ELSE Put(Described(r), x.value, w.value)
    <3>1. t = Append(Append(r, w), x)
      BY <2>2 DEF t
    <3>2. Begins(Append(Append(r, w), x), first)
      BY <1>1, <3>1
    <3>3. Len(r) % 2 = 0
      BY <2>0, <2>2
    <3>4. r \in Seq(Halves) /\ w \in Halves
      BY <2>2
    <3> HIDE DEF r, w
    <3>5. Described(Append(Append(r, w), x)) =
              IF first = "desc" THEN Put(Described(r), w.value, x.value)
                                ELSE Put(Described(r), x.value, w.value)
      BY <2>3, <3>2, <3>3, <3>4, PairDescribed
    <3> QED  BY <3>1, <3>5
  <2>7. /\ entry'.attachments = Described(t)
        /\ (IF first = "desc" THEN entry'.data ELSE entry'.desc) = None
    <3>1. CASE first = "desc"
      <4>1. x.kind = "data" /\ entry.desc = w.value /\ entry' = WithData(entry, x.value)
        BY <1>7, <2>1, <2>4, <3>1
      <4> HIDE DEF r, w
      <4> QED  BY <1>6, <2>4, <2>5, <2>6, <3>1, <4>1 DEF WithData
    <3>2. CASE first = "data"
      <4>1. x.kind = "desc" /\ entry.data = w.value /\ entry' = WithDesc(entry, x.value)
        BY <1>7, <2>1, <2>4, <3>2
      <4> HIDE DEF r, w
      <4> QED  BY <1>6, <2>4, <2>5, <2>6, <3>2, <4>1 DEF WithDesc
    <3> QED  BY <3>1, <3>2
  <2>8. ~(Len(t) % 2 = 1)
    BY <1>2, <2>0
  <2> QED  BY <1>1, <2>7, <2>8 DEF Carries
<1> QED  BY <1>8, <1>9

\* A half of a binary in the section of the entry being read
LEMMA HalfInv ==
    ASSUME EntriesInv, NEW x \in Halves,
           section' = [section EXCEPT !.binaries = Append(@, x)],
           entry' = IF x.kind = "desc" THEN WithDesc(entry, x.value)
                                       ELSE WithData(entry, x.value),
           UNCHANGED <<groups, gidMap, entries>>
    PROVE  EntriesInv'
<1> DEFINE s == section.binaries
<1>1. s \in Seq(Halves) /\ section'.binaries = Append(s, x) /\ section'.fields = section.fields
  BY DEF EntriesInv, EntryTypeOK, Sections
<1>2. section' \in Sections
  <2>1. Append(s, x) \in Seq(Halves) /\ section \in Sections
    BY <1>1 DEF EntriesInv, EntryTypeOK
  <2> QED  BY <2>1 DEF Sections
<1>3. entry' \in [gid : Gids \cup {None}, fields : Maps(FieldNames, Texts),
                  desc : Binaries \cup {None}, data : Binaries \cup {None},
                  attachments : Maps(Binaries, Binaries)]
  <2>1. x.value \in Binaries
    BY DEF Halves
  <2>2. CASE x.kind = "desc"
    <3>1. entry.data # None => Put(entry.attachments, x.value, entry.data) \in Maps(Binaries, Binaries)
      BY <2>1, PutMaps DEF EntriesInv, EntryTypeOK
    <3> QED  BY <2>1, <2>2, <3>1 DEF WithDesc, EntriesInv, EntryTypeOK
  <2>3. CASE x.kind # "desc"
    <3>1. entry.desc # None => Put(entry.attachments, entry.desc, x.value) \in Maps(Binaries, Binaries)
      BY <2>1, PutMaps DEF EntriesInv, EntryTypeOK
    <3> QED  BY <2>1, <2>3, <3>1 DEF WithData, EntriesInv, EntryTypeOK
  <2> QED  BY <2>2, <2>3
<1>4. EntryTypeOK'
  BY <1>2, <1>3 DEF EntriesInv, EntryTypeOK
<1>5. AllLastsKnown(section'.binaries)
  BY <1>1, AllLastsStayKnown DEF EntriesInv
<1>6. FieldsOwn'
  <2>1. entry'.fields = entry.fields
    BY DEF WithDesc, WithData, EntriesInv, EntryTypeOK
  <2> QED  BY <1>1, <2>1 DEF EntriesInv, FieldsOwn
<1>7. BinariesOwn'
  <2>1. ASSUME NEW first \in {"desc", "data"}, InOrder(first),
               Begins(section'.binaries, first)
        PROVE  Carries(first)'
    BY <2>1, HalfCarries
  <2>2. \A first : InOrder(first)' <=> InOrder(first)
    BY DEF InOrder
  <2> QED  BY <2>1, <2>2 DEF EntriesInv, BinariesOwn
<1> QED  BY <1>4, <1>5, <1>6, <1>7 DEF EntriesInv

LEMMA FieldInv ==
    ASSUME EntriesInv, EntryField
    PROVE  EntriesInv'
<1>0. UNCHANGED <<groups, gidMap, entries>>
  BY DEF EntryField, groupVars
<1>e. entry \in [gid : Gids \cup {None}, fields : Maps(FieldNames, Texts),
                 desc : Binaries \cup {None}, data : Binaries \cup {None},
                 attachments : Maps(Binaries, Binaries)]
  BY DEF EntriesInv, EntryTypeOK
<1>1. ASSUME NEW g \in Gids, entry' = [entry EXCEPT !.gid = g], UNCHANGED section
      PROVE  EntriesInv'
  <2>1. /\ entry'.fields = entry.fields /\ entry'.attachments = entry.attachments
        /\ entry'.desc = entry.desc /\ entry'.data = entry.data
    BY <1>e, <1>1
  <2>2. EntryTypeOK'
    BY <1>0, <1>1 DEF EntriesInv, EntryTypeOK
  <2> QED  BY <1>0, <1>1, <2>1, <2>2 DEF EntriesInv, FieldsOwn, BinariesOwn, InOrder, Carries
<1>2. ASSUME NEW f \in FieldNames, NEW t \in Texts,
             entry' = [entry EXCEPT !.fields = Put(@, f, t)],
             section' = [section EXCEPT !.fields = Put(@, f, t)]
      PROVE  EntriesInv'
  <2>0. section.fields \in Maps(FieldNames, Texts) /\ section \in Sections
    BY DEF EntriesInv, EntryTypeOK, Sections
  <2>1. /\ entry'.fields = Put(entry.fields, f, t) /\ entry'.attachments = entry.attachments
        /\ entry'.desc = entry.desc /\ entry'.data = entry.data
        /\ section'.fields = Put(section.fields, f, t)
        /\ section'.binaries = section.binaries
    BY <1>e, <1>2, <2>0 DEF Sections
  <2>2. Put(entry.fields, f, t) \in Maps(FieldNames, Texts)
    BY <1>e, PutMaps
  <2>3. Put(section.fields, f, t) \in Maps(FieldNames, Texts)
    BY <2>0, PutMaps
  <2>4. EntryTypeOK'
    <3>1. entry' \in [gid : Gids \cup {None}, fields : Maps(FieldNames, Texts),
                      desc : Binaries \cup {None}, data : Binaries \cup {None},
                      attachments : Maps(Binaries, Binaries)]
      BY <1>e, <1>2, <2>2
    <3>2. section' \in Sections
      BY <1>2, <2>0, <2>3 DEF Sections
    <3> QED  BY <1>0, <3>1, <3>2 DEF EntriesInv, EntryTypeOK
  <2>5. FieldsOwn'
    BY <1>0, <2>1 DEF EntriesInv, FieldsOwn
  <2>6. BinariesOwn'
    BY <1>0, <2>1 DEF EntriesInv, BinariesOwn, InOrder, Carries
  <2> QED  BY <2>1, <2>4, <2>5, <2>6 DEF EntriesInv
<1>3. ASSUME NEW x \in Halves,
             section' = [section EXCEPT !.binaries = Append(@, x)],
             entry' = IF x.kind = "desc" THEN WithDesc(entry, x.value)
                                         ELSE WithData(entry, x.value)
      PROVE  EntriesInv'
  BY <1>0, <1>3, HalfInv
<1>4. ASSUME NEW n \in Binaries, entry' = WithDesc(entry, n), Saw("desc", n)
      PROVE  EntriesInv'
  <2> DEFINE x == [kind |-> "desc", value |-> n]
  <2>1. x \in Halves /\ x.kind = "desc" /\ x.value = n
    BY DEF Halves
  <2>2. section' = [section EXCEPT !.binaries = Append(@, x)]
    BY <1>4 DEF Saw
  <2>3. entry' = IF x.kind = "desc" THEN WithDesc(entry, x.value) ELSE WithData(entry, x.value)
    BY <1>4
  <2> HIDE DEF x
  <2> QED  BY <1>3, <2>1, <2>2, <2>3
<1>5. ASSUME NEW b \in Binaries, entry' = WithData(entry, b), Saw("data", b)
      PROVE  EntriesInv'
  <2> DEFINE x == [kind |-> "data", value |-> b]
  <2>1. x \in Halves /\ x.kind = "data" /\ x.value = b
    BY DEF Halves
  <2>2. section' = [section EXCEPT !.binaries = Append(@, x)]
    BY <1>5 DEF Saw
  <2>3. entry' = IF x.kind = "desc" THEN WithDesc(entry, x.value) ELSE WithData(entry, x.value)
    BY <1>5, <2>1
  <2> HIDE DEF x
  <2> QED  BY <1>3, <2>1, <2>2, <2>3
<1>6. ASSUME UNCHANGED <<entry, section>>
      PROVE  EntriesInv'
  BY <1>0, <1>6 DEF EntriesInv, EntryTypeOK, FieldsOwn, BinariesOwn, InOrder, Carries
<1> QED  BY <1>1, <1>2, <1>4, <1>5, <1>6 DEF EntryField

\* The end of an entry: what its section describes is in it, unless the file has
\* left the order, and what waits for the next entry is what `first` allows.
LEMMA EndEntryInv ==
    ASSUME EntriesInv, EndEntry
    PROVE  EntriesInv'
<1> DEFINE made == [group |-> gidMap[entry.gid], fields |-> entry.fields,
                   attachments |-> entry.attachments, section |-> section]
           R == [group : Nat, fields : Maps(FieldNames, Texts),
                 attachments : Maps(Binaries, Binaries), section : Sections]
<1>e. entry \in [gid : Gids \cup {None}, fields : Maps(FieldNames, Texts),
                 desc : Binaries \cup {None}, data : Binaries \cup {None},
                 attachments : Maps(Binaries, Binaries)]
  BY DEF EntriesInv, EntryTypeOK
<1>1. /\ entries' = Append(entries, made) /\ entry' = Cleared(entry) /\ section' = NoSection
      /\ UNCHANGED <<groups, gidMap>>
  BY DEF EndEntry, groupVars
<1>2. made \in R
  <2>1. PICK X \in SUBSET Gids : gidMap \in [X -> Nat]
    BY DEF EntriesInv, EntryTypeOK, Maps
  <2>2. gidMap[entry.gid] \in Nat
    BY <2>1 DEF EndEntry, CanEndEntry
  <2> QED  BY <1>e, <2>2 DEF EntriesInv, EntryTypeOK
<1>3. entries \in Seq(R)
  BY DEF EntriesInv, EntryTypeOK
<1> HIDE DEF R
<1>4. /\ entries' \in Seq(R) /\ Len(entries) \in Nat
      /\ DOMAIN entries = 1 .. Len(entries) /\ DOMAIN entries' = 1 .. Len(entries) + 1
      /\ \A k \in 1 .. Len(entries) : entries'[k] = entries[k]
      /\ entries'[Len(entries) + 1] = made
  <2> HIDE DEF made
  <2> QED  BY <1>1, <1>2, <1>3
<1>5. /\ entry'.fields = EmptyMap /\ entry'.attachments = EmptyMap
      /\ entry'.desc = entry.desc /\ entry'.data = entry.data
  BY <1>1, <1>e DEF Cleared
<1>6. EntryTypeOK'
  <2>1. section' \in Sections
    BY <1>1, EmptyMaps DEF NoSection, Sections
  <2>2. entry' \in [gid : Gids \cup {None}, fields : Maps(FieldNames, Texts),
                    desc : Binaries \cup {None}, data : Binaries \cup {None},
                    attachments : Maps(Binaries, Binaries)]
    BY <1>1, <1>e, EmptyMaps DEF Cleared
  <2> QED  BY <1>1, <1>4, <2>1, <2>2 DEF EntriesInv, EntryTypeOK, R
<1>7. section'.binaries = <<>> /\ section'.fields = EmptyMap
  BY <1>1 DEF NoSection
<1>8. /\ made.fields = made.section.fields
      /\ \A k \in DOMAIN entries : entries[k].fields = entries[k].section.fields
  BY DEF EntriesInv, FieldsOwn
<1>9. FieldsOwn'
  <2> HIDE DEF made
  <2> QED  BY <1>4, <1>5, <1>7, <1>8 DEF FieldsOwn
<1>10. BinariesOwn'
  <2> SUFFICES ASSUME NEW first \in {"desc", "data"}, InOrder(first)'
               PROVE  /\ \A k \in DOMAIN entries' : entries'[k].attachments
                                                  = Described(entries'[k].section.binaries)
                      /\ Carries(first)'
    BY DEF BinariesOwn
  <2>1. /\ InOrder(first)
        /\ Alternates(section.binaries, first)
    <3>1. \A k \in 1 .. Len(entries) + 1 : Alternates(entries'[k].section.binaries, first)
      BY <1>4 DEF InOrder
    <3>2. \A k \in 1 .. Len(entries) : k \in 1 .. Len(entries) + 1
      BY <1>4
    <3>3. Len(entries) + 1 \in 1 .. Len(entries) + 1
      BY <1>4
    <3>4. Alternates(made.section.binaries, first)
      <4> HIDE DEF made
      <4> QED  BY <1>4, <3>1, <3>3
    <3> HIDE DEF made
    <3>5. InOrder(first)
      BY <1>4, <3>1, <3>2 DEF InOrder
    <3> QED  BY <3>4, <3>5 DEF made
  <2>2. Begins(section.binaries, first) /\ Len(section.binaries) % 2 = 0
    BY <2>1 DEF Alternates, Begins
  <2>3. /\ Carries(first)
        /\ \A k \in DOMAIN entries : entries[k].attachments
                                   = Described(entries[k].section.binaries)
    BY <2>1, <2>2 DEF EntriesInv, BinariesOwn
  <2>4. made.attachments = Described(made.section.binaries)
    BY <2>2, <2>3 DEF Carries
  <2>5. (IF first = "desc" THEN entry'.data ELSE entry'.desc) = None
    BY <1>5, <2>3 DEF Carries
  <2> HIDE DEF made
  <2>6. Len(<<>>) = 0 /\ 0 % 2 = 0 /\ ~(0 % 2 = 1)
    OBVIOUS
  <2>7. Carries(first)'
    BY <1>5, <1>7, <2>5, <2>6, NothingDescribed DEF Carries
  <2>8. \A k \in DOMAIN entries' : k \in DOMAIN entries \/ k = Len(entries) + 1
    BY <1>4
  <2>9. \A k \in DOMAIN entries' : entries'[k].attachments
                                 = Described(entries'[k].section.binaries)
    BY <1>4, <2>3, <2>4, <2>8
  <2> QED  BY <2>7, <2>9
<1> QED  BY <1>6, <1>7, <1>9, <1>10, NothingDescribed DEF EntriesInv

LEMMA EntriesNext ==
    ASSUME EntriesInv, [KdbNext]_kdbVars, LevelsInv, LevelsInv'
    PROVE  EntriesInv'
<1>1. CASE EntryField
  BY <1>1, FieldInv
<1>2. CASE EndEntry
  BY <1>2, EndEntryInv
<1>3. ASSUME UNCHANGED entryVars, EntryTypeOK'
      PROVE  EntriesInv'
  BY <1>3 DEF entryVars, EntriesInv, FieldsOwn, BinariesOwn, InOrder, Carries
<1>4. CASE EndGroup
  <2>1. UNCHANGED entryVars
    BY <1>4 DEF EndGroup
  <2>2. Len(groups) + 1 \in Nat /\ group.gid \in Gids
    BY <1>4 DEF LevelsInv, BranchTypeOK, EndGroup, CanEndGroup
  <2>3. gidMap' \in Maps(Gids, Nat)
    <3>1. gidMap' = Put(gidMap, group.gid, Len(groups) + 1)
      BY <1>4 DEF EndGroup
    <3> QED  BY <2>2, <3>1, PutMaps DEF EntriesInv, EntryTypeOK
  <2>4. groups' \in Seq([parent : Nat])
    BY DEF LevelsInv, BranchTypeOK
  <2>5. EntryTypeOK'
    BY <2>1, <2>3, <2>4 DEF entryVars, EntriesInv, EntryTypeOK
  <2> QED  BY <1>3, <2>1, <2>5
<1>5. CASE UNCHANGED <<groups, gidMap, entryVars>>
  BY <1>3, <1>5 DEF entryVars, EntriesInv, EntryTypeOK
<1> QED  BY <1>1, <1>2, <1>4, <1>5 DEF KdbNext, GroupField, GroupsDone, EntriesDone,
            BadField, EarlyEnd, kdbVars, groupVars

\* The strings of an entry are those of its own section, and in a file that
\* always gives the two halves of a binary in the same order so are its binaries,
\* although parse_entries carries one half from entry to entry.
THEOREM EntriesAreTheirOwn == KdbSpec => []EntriesOwn
<1>1. EntriesInv => EntriesOwn
  BY DEF EntriesInv, FieldsOwn, BinariesOwn, InOrder, EntriesOwn
<1>2. KdbInit => LevelsInv /\ EntriesInv
  BY LevelsInit, EntriesInit
<1>3. (LevelsInv /\ EntriesInv) /\ [KdbNext]_kdbVars => (LevelsInv /\ EntriesInv)'
  BY LevelsNext, EntriesNext
<1> QED  BY <1>1, <1>2, <1>3, PTL DEF KdbSpec

----------------------------------------------------------------------------
(* The tools.                                                              *)

\* What the elements of a plan are about
Writes == {"create", "overwrite", "save", "print"}
Reads == {"read", "read xml"}
Tasks == Writes \cup Reads \cup {"key", "find", "secret", "purge", "change"}
HasDb == 1 \in DOMAIN tool.db

\* Whatever is still to be done to a file comes after the database was read.
ReadFirst ==
    /\ todo \in Seq(Tasks)
    /\ todo # <<>> => "db" \in DOMAIN tool
    /\ \A i \in DOMAIN todo : todo[i] \in Writes =>
          HasDb \/ \E j \in 1 .. i - 1 : todo[j] \in Reads

\* The first r of p are read and not yet written.
ReadsAt(p, r) ==
    /\ p \in Seq(Tasks)
    /\ r \in DOMAIN p /\ p[r] \in Reads
    /\ \A i \in 1 .. r : p[i] \notin Writes

LEMMA PlansReadFirst ==
    ASSUME NEW name \in Writers \cup {"show"}
    PROVE  \E r : ReadsAt(Plan(name), r)
<1>1. ReadsAt(PurgeHistory, 2)
  <2>1. PurgeHistory \in Seq(Tasks) /\ Len(PurgeHistory) \in Nat
    BY DEF PurgeHistory, Tasks, Reads, Writes
  <2>3. Len(PurgeHistory) >= 2
    BY DEF PurgeHistory
  <2>2. PurgeHistory[1] = "key" /\ PurgeHistory[2] = "read"
    BY DEF PurgeHistory
  <2>4. 2 \in DOMAIN PurgeHistory
    BY <2>1, <2>3
  <2>5. \A i \in 1 .. 2 : i = 1 \/ i = 2
    OBVIOUS
  <2> QED  BY <2>1, <2>2, <2>4, <2>5 DEF ReadsAt, Reads, Writes
<1>2. ReadsAt(Rewrite, 2)
  <2>1. Rewrite \in Seq(Tasks) /\ Len(Rewrite) \in Nat
    BY DEF Rewrite, Tasks, Reads, Writes
  <2>3. Len(Rewrite) >= 2
    BY DEF Rewrite
  <2>2. Rewrite[1] = "key" /\ Rewrite[2] = "read"
    BY DEF Rewrite
  <2>4. 2 \in DOMAIN Rewrite
    BY <2>1, <2>3
  <2>5. \A i \in 1 .. 2 : i = 1 \/ i = 2
    OBVIOUS
  <2> QED  BY <2>1, <2>2, <2>4, <2>5 DEF ReadsAt, Reads, Writes
<1>3. ReadsAt(YkAdd, 2)
  <2>1. YkAdd \in Seq(Tasks) /\ Len(YkAdd) \in Nat
    BY DEF YkAdd, Tasks, Reads, Writes
  <2>3. Len(YkAdd) >= 2
    BY DEF YkAdd
  <2>2. YkAdd[1] = "key" /\ YkAdd[2] = "read"
    BY DEF YkAdd
  <2>4. 2 \in DOMAIN YkAdd
    BY <2>1, <2>3
  <2>5. \A i \in 1 .. 2 : i = 1 \/ i = 2
    OBVIOUS
  <2> QED  BY <2>1, <2>2, <2>4, <2>5 DEF ReadsAt, Reads, Writes
<1>4. ReadsAt(YkRemove, 3)
  <2>1. YkRemove \in Seq(Tasks) /\ Len(YkRemove) \in Nat
    BY DEF YkRemove, Tasks, Reads, Writes
  <2>3. Len(YkRemove) >= 3
    BY DEF YkRemove
  <2>2. YkRemove[1] = "key" /\ YkRemove[2] = "find" /\ YkRemove[3] = "read"
    BY DEF YkRemove
  <2>4. 3 \in DOMAIN YkRemove
    BY <2>1, <2>3
  <2>5. \A i \in 1 .. 3 : i = 1 \/ i = 2 \/ i = 3
    OBVIOUS
  <2> QED  BY <2>1, <2>2, <2>4, <2>5 DEF ReadsAt, Reads, Writes
<1>5. ReadsAt(YkRecover, 3)
  <2>1. YkRecover \in Seq(Tasks) /\ Len(YkRecover) \in Nat
    BY DEF YkRecover, Tasks, Reads, Writes
  <2>3. Len(YkRecover) >= 3
    BY DEF YkRecover
  <2>2. YkRecover[1] = "key" /\ YkRecover[2] = "secret" /\ YkRecover[3] = "read"
    BY DEF YkRecover
  <2>4. 3 \in DOMAIN YkRecover
    BY <2>1, <2>3
  <2>5. \A i \in 1 .. 3 : i = 1 \/ i = 2 \/ i = 3
    OBVIOUS
  <2> QED  BY <2>1, <2>2, <2>4, <2>5 DEF ReadsAt, Reads, Writes
<1>6. ReadsAt(DumpXml, 2)
  <2>1. DumpXml \in Seq(Tasks) /\ Len(DumpXml) \in Nat
    BY DEF DumpXml, Tasks, Reads, Writes
  <2>3. Len(DumpXml) >= 2
    BY DEF DumpXml
  <2>2. DumpXml[1] = "key" /\ DumpXml[2] = "read xml"
    BY DEF DumpXml
  <2>4. 2 \in DOMAIN DumpXml
    BY <2>1, <2>3
  <2>5. \A i \in 1 .. 2 : i = 1 \/ i = 2
    OBVIOUS
  <2> QED  BY <2>1, <2>2, <2>4, <2>5 DEF ReadsAt, Reads, Writes
<1>7. ReadsAt(Program, 1)
  <2>1. Program \in Seq(Tasks) /\ Len(Program) \in Nat
    BY DEF Program, Tasks, Reads, Writes
  <2>3. Len(Program) >= 1
    BY DEF Program
  <2>2. Program[1] = "read"
    BY DEF Program
  <2>4. 1 \in DOMAIN Program
    BY <2>1, <2>3
  <2>5. \A i \in 1 .. 1 : i = 1
    OBVIOUS
  <2> QED  BY <2>1, <2>2, <2>4, <2>5 DEF ReadsAt, Reads, Writes
<1>8. ReadsAt(Show, 1)
  <2>1. Show \in Seq(Tasks) /\ Len(Show) \in Nat
    BY DEF Show, Tasks, Reads, Writes
  <2>3. Len(Show) >= 1
    BY DEF Show
  <2>2. Show[1] = "read"
    BY DEF Show
  <2>4. 1 \in DOMAIN Show
    BY <2>1, <2>3
  <2>5. \A i \in 1 .. 1 : i = 1
    OBVIOUS
  <2> QED  BY <2>1, <2>2, <2>4, <2>5 DEF ReadsAt, Reads, Writes
<1> QED  BY <1>1, <1>2, <1>3, <1>4, <1>5, <1>6, <1>7, <1>8 DEF Plan, Writers

\* The tool ends, or goes on to what is left of its plan.
LEMMA NothingLeft ==
    ASSUME todo' = <<>>
    PROVE  ReadFirst'
BY DEF ReadFirst

LEMMA GoesOn ==
    ASSUME ReadFirst, todo # <<>>, Goes, DOMAIN tool' = DOMAIN tool,
           HasDb => HasDb', todo[1] \in Reads => HasDb'
    PROVE  ReadFirst'
<1>1. /\ todo' \in Seq(Tasks)
      /\ \A i \in DOMAIN todo' : i + 1 \in DOMAIN todo /\ todo'[i] = todo[i + 1]
  BY DEF Goes, ReadFirst
<1>2. ASSUME NEW i \in DOMAIN todo', todo'[i] \in Writes, ~HasDb'
      PROVE  \E j \in 1 .. i - 1 : todo'[j] \in Reads
  <2>1. PICK j \in 1 .. (i + 1) - 1 : todo[j] \in Reads
    BY <1>1, <1>2 DEF ReadFirst
  <2>2. j # 1
    BY <1>2, <2>1
  <2>3. i \in Nat /\ \A k \in 1 .. i - 1 : k \in DOMAIN todo'
    BY <1>1
  <2>4. j - 1 \in 1 .. i - 1 /\ todo'[j - 1] = todo[j]
    BY <1>1, <2>1, <2>2, <2>3
  <2> QED  BY <2>1, <2>4
<1> QED  BY <1>1, <1>2 DEF ReadFirst

LEMMA StartReadsFirst ==
    ASSUME Start
    PROVE  ReadFirst'
<1>1. PICK name \in Writers \cup {"show"} : todo' = Plan(name)
  BY DEF Start
<1>2. PICK r : ReadsAt(Plan(name), r)
  BY PlansReadFirst
<1>3. \A i \in DOMAIN Plan(name) : Plan(name)[i] \in Writes => r \in 1 .. i - 1
  BY <1>2 DEF ReadsAt
<1>4. "db" \in DOMAIN tool'
  BY DEF Start
<1> QED  BY <1>1, <1>2, <1>3, <1>4 DEF ReadFirst, ReadsAt

\* The one thing that the tools put into a file comes when the database is there.
LEMMA StepsReadFirst ==
    ASSUME ReadFirst, [Next]_vars
    PROVE  ReadFirst' /\ (disk' # disk => tool.db # NoSave)
<1>1. ASSUME todo # <<>>, todo[1] \in Writes
      PROVE  HasDb
  <2>1. 1 \in DOMAIN todo
    BY <1>1 DEF ReadFirst
  <2> QED  BY <1>1, <2>1 DEF ReadFirst
<1>2. HasDb => tool.db # NoSave
  BY DEF HasDb, NoSave, Missing
<1>3. CASE Start
  BY <1>3, StartReadsFirst DEF Start
<1>4. CASE KeyGiven
  BY <1>4, GoesOn, NothingLeft DEF KeyGiven, Ends, HasDb, Does, Reads
<1>5. CASE FindYubikey
  <2>1. ASSUME NEW k
        PROVE  /\ [tool EXCEPT !.saveKey = k].db = tool.db
               /\ [tool EXCEPT !.readKey = k].db = tool.db
    OBVIOUS
  <2>2. todo # <<>> /\ todo[1] \notin Reads /\ disk' = disk
    BY <1>5 DEF FindYubikey, Does, Reads
  <2>3. Ends \/ (Goes /\ \E k : tool' = [tool EXCEPT !.saveKey = k] \/ tool' = [tool EXCEPT !.readKey = k])
    BY <1>5 DEF FindYubikey
  <2> QED  BY <2>1, <2>2, <2>3, GoesOn, NothingLeft DEF Ends, HasDb
<1>6. CASE AskSecret
  <2>1. ASSUME NEW k PROVE [tool EXCEPT !.readKey = k].db = tool.db
    OBVIOUS
  <2> QED  BY <1>6, <2>1, GoesOn DEF AskSecret, HasDb, Does, Reads
<1>7. CASE ReadFile
  BY <1>7, NothingLeft DEF ReadFile, Ends, ReadFirst, HasDb
<1>8. CASE Reading
  BY <1>8 DEF Reading, toolVars, ReadFirst, HasDb
<1>9. CASE Read
  <2>1. "db" \in DOMAIN tool /\ todo # <<>> /\ disk' = disk
    BY <1>9 DEF Read, Does, ReadFirst
  <2>2. Ends \/ (Goes /\ tool' = [tool EXCEPT !.db = Some(result)])
    BY <1>9 DEF Read
  <2>3. CASE Goes /\ tool' = [tool EXCEPT !.db = Some(result)]
    <3>1. DOMAIN tool' = DOMAIN tool /\ tool'.db = <<result>>
      BY <2>1, <2>3 DEF Some
    <3>2. HasDb'
      BY <3>1 DEF HasDb
    <3> QED  BY <2>1, <2>3, <3>1, <3>2, GoesOn
  <2> QED  BY <2>1, <2>2, <2>3, NothingLeft DEF Ends
<1>10. CASE Purge
  BY <1>10, GoesOn DEF Purge, HasDb, Does, Reads
<1>11. CASE Change
  BY <1>11, GoesOn DEF Change, HasDb, Does, Reads
<1>12. CASE Create
  BY <1>1, <1>2, <1>12, GoesOn DEF Create, HasDb, Does, Reads, Writes
<1>13. CASE Overwrite
  BY <1>13, GoesOn DEF Overwrite, HasDb, Does, Reads
<1>14. CASE BeginSave
  BY <1>14, NothingLeft DEF BeginSave, Ends, ReadFirst, HasDb
<1>15. CASE WriteCell
  BY <1>1, <1>2, <1>15 DEF WriteCell, Does, Writes, ReadFirst, HasDb
<1>16. CASE EndSave
  BY <1>16, NothingLeft DEF EndSave, Ends
<1>17. CASE PrintXml
  BY <1>1, <1>2, <1>17, NothingLeft DEF PrintXml, Ends, Does, Writes
<1>18. CASE Crash
  BY <1>18, NothingLeft DEF Crash, Ends
<1>19. CASE UNCHANGED vars
  BY <1>19 DEF vars, toolVars, ReadFirst, HasDb
<1> QED  BY <1>3, <1>4, <1>5, <1>6, <1>7, <1>8, <1>9, <1>10, <1>11, <1>12, <1>13, <1>14, <1>15,
            <1>16, <1>17, <1>18, <1>19 DEF Next, Step

\* No file is touched before the database was opened, whatever tools are run on
\* whatever paths, and wherever they are killed (the order of Database::open and
\* File::create in the main functions of src/bin).
THEOREM DatabaseReadFirst == Spec => OpenedFirst
<1>1. Init => ReadFirst
  BY DEF Init, ReadFirst
<1>2. ReadFirst /\ [Next]_vars => ReadFirst'
  BY StepsReadFirst
<1>3. ReadFirst /\ [Next]_vars => [disk' # disk => tool.db # NoSave]_vars
  BY StepsReadFirst
<1> QED  BY <1>1, <1>2, <1>3, PTL DEF Spec, OpenedFirst
=============================================================================
