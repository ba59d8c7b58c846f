------------------------- MODULE DatabaseTypesProofs -------------------------
(***************************************************************************)
(* Facts about the values of DatabaseTypes that the proofs about Database  *)
(* and about Merge rest on: which operators keep the types of the maps,    *)
(* which keep the tree of groups, and which keep entries in their groups.  *)
(***************************************************************************)
EXTENDS DatabaseTypes, FiniteSetTheorems, TLAPS

----------------------------------------------------------------------------
(* Induction over the natural numbers, for sets.                           *)

\* Were a number missing from S, there would be finitely many missing up to it,
\* each with a missing predecessor, and counting down by one would map them
\* one to one into fewer.
LEMMA NumbersInduction ==
    ASSUME NEW S, 0 \in S, \A n \in Nat : n \in S => n + 1 \in S
    PROVE  Nat \subseteq S
<1> SUFFICES ASSUME NEW m \in Nat, m \notin S
             PROVE  FALSE
  OBVIOUS
<1> DEFINE B == {k \in 0 .. m : k \notin S}
           f == [k \in B |-> k - 1]
<1>1. \A k \in B : k - 1 \in B \ {m}
  OBVIOUS
<1>2. IsFiniteSet(B) /\ Cardinality(B) \in Nat
  <2>1. IsFiniteSet(0 .. m)
    BY FS_Interval
  <2> QED  BY <2>1, FS_Subset, FS_CardinalityType
<1>3. m \in B
  OBVIOUS
<1>4. IsFiniteSet(B \ {m}) /\ Cardinality(B \ {m}) < Cardinality(B)
  <2> HIDE DEF B, f
  <2>1. /\ IsFiniteSet(B \ {m})
        /\ Cardinality(B \ {m}) = IF m \in B THEN Cardinality(B) - 1 ELSE Cardinality(B)
    BY <1>2, FS_RemoveElement
  <2> QED  BY <1>2, <1>3, <2>1
<1>5. f \in [B -> B \ {m}]
  BY <1>1
<1>6. \A x, y \in B : f[x] = f[y] => x = y
  OBVIOUS
<1> HIDE DEF B, f
<1> QED  BY <1>2, <1>4, <1>5, <1>6, FS_PigeonHole

----------------------------------------------------------------------------
(* Maps, sequences of versions, records.                                   *)

\* HashMap::insert and ::remove keep a map's type.
LEMMA PutType ==
    ASSUME NEW D, NEW R, NEW f, IsMap(f, D, R), NEW k \in D, NEW v \in R
    PROVE  IsMap(Put(f, k, v), D, R)
BY DEF IsMap, Put

LEMMA WithoutType ==
    ASSUME NEW D, NEW R, NEW f, IsMap(f, D, R), NEW S
    PROVE  IsMap(Without(f, S), D, R)
BY DEF IsMap, Without

LEMMA EmptyMapType == \A D, R : IsMap(EmptyMap, D, R)
BY DEF IsMap, EmptyMap

\* The attachments of a version are a map.
LEMMA AttachmentMapType ==
    ASSUME NEW m
    PROVE  m \in AttachmentMaps <=> IsMap(m, Names, AttachmentIds)
BY DEF AttachmentMaps, IsMap

Lives == Seq(Versions) \ {<<>>}

\* An entry keeps a live version when one of its versions is overwritten, ...
LEMMA EntriesUpdate ==
    ASSUME NEW es, IsMap(es, EntryIds, Lives), NEW e \in DOMAIN es,
           NEW i \in DOMAIN es[e], NEW v \in Versions
    PROVE  IsMap([es EXCEPT ![e][i] = v], EntryIds, Lives)
<1>1. [es[e] EXCEPT ![i] = v] \in Lives
  BY DEF IsMap, Lives
<1> QED  BY <1>1 DEF IsMap

\* ... and when every version is rewritten.
LEMMA VersionsRewritten ==
    ASSUME NEW es, IsMap(es, EntryIds, Lives), NEW t,
           t = [e \in DOMAIN es |-> t[e]],
           \A e \in DOMAIN es : t[e] \in [DOMAIN es[e] -> Versions]
    PROVE  IsMap(t, EntryIds, Lives)
<1>1. ASSUME NEW e \in DOMAIN es
      PROVE  t[e] \in Lives
  <2>1. es[e] \in Seq(Versions) /\ es[e] # <<>>
    BY DEF IsMap, Lives
  <2>2. DOMAIN es[e] = 1 .. Len(es[e]) /\ Len(es[e]) \in Nat \ {0}
    BY <2>1
  <2>3. t[e] \in [1 .. Len(es[e]) -> Versions]
    BY <2>2
  <2>4. t[e] \in Seq(Versions)
    BY <2>2, <2>3
  <2> QED  BY <2>2, <2>3, <2>4 DEF Lives
<1> QED  BY <1>1 DEF IsMap

LEMMA VersionTyped ==
    ASSUME NEW es, IsMap(es, EntryIds, Lives), NEW e \in DOMAIN es, NEW i \in DOMAIN es[e]
    PROVE  /\ es[e][i] \in Versions
           /\ es[e][1] \in Versions
           /\ e \in EntryIds
BY DEF IsMap, Lives

----------------------------------------------------------------------------
(* The groups' operators keep the groups' type.                            *)

LEMMA ListedType ==
    ASSUME NEW gs, IsMap(gs, GroupIds, Groups), NEW g \in DOMAIN gs, NEW e \in EntryIds
    PROVE  IsMap([gs EXCEPT ![g].entries = @ \cup {e}], GroupIds, Groups)
<1>1. [gs[g] EXCEPT !.entries = @ \cup {e}] \in Groups
  BY DEF IsMap, Groups
<1> QED  BY <1>1 DEF IsMap

LEMMA EditedType ==
    ASSUME NEW gs, IsMap(gs, GroupIds, Groups), NEW g \in DOMAIN gs, NEW c \in Contents,
           NEW t \in Times
    PROVE  /\ IsMap([gs EXCEPT ![g].content = c, ![g].mtime = t], GroupIds, Groups)
           /\ IsMap([gs EXCEPT ![g].ltime = t], GroupIds, Groups)
           /\ gs[g].mtime \in Times /\ gs[g].ltime \in Times
<1>1. gs[g] \in Groups
  BY DEF IsMap
<1>2. [gs[g] EXCEPT !.content = c, !.mtime = t] \in Groups
  BY <1>1 DEF Groups
<1>3. [gs[g] EXCEPT !.ltime = t] \in Groups
  BY <1>1 DEF Groups
<1>4. IsMap([gs EXCEPT ![g].content = c, ![g].mtime = t], GroupIds, Groups)
  BY <1>2 DEF IsMap
<1>5. IsMap([gs EXCEPT ![g].ltime = t], GroupIds, Groups)
  BY <1>3 DEF IsMap
<1>6. gs[g].mtime \in Times /\ gs[g].ltime \in Times
  BY <1>1 DEF Groups
<1> QED  BY <1>4, <1>5, <1>6

LEMMA AddGroupType ==
    ASSUME NEW gs, IsMap(gs, GroupIds, Groups), NEW p \in DOMAIN gs, NEW g \in GroupIds,
           NEW t \in Nat
    PROVE  IsMap(AddGroupTo(gs, p, g, t), GroupIds, Groups)
<1>1. NewGroup(p, t) \in Groups
  BY NoContentAssumption DEF IsMap, NewGroup, Groups, Times, IconValues
<1>2. [gs[p] EXCEPT !.groups = @ \cup {g}] \in Groups
  BY DEF IsMap, Groups
<1>3. IsMap([gs EXCEPT ![p].groups = @ \cup {g}], GroupIds, Groups)
  BY <1>2 DEF IsMap
<1> QED  BY <1>1, <1>3, PutType DEF AddGroupTo

LEMMA MoveGroupType ==
    ASSUME NEW gs, IsMap(gs, GroupIds, Groups), NEW g \in DOMAIN gs, NEW q \in DOMAIN gs
    PROVE  IsMap(MoveGroupTo(gs, g, q), GroupIds, Groups)
<1> DEFINE listed(x) == (IF x = gs[g].parent THEN gs[x].groups \ {g} ELSE gs[x].groups)
                            \cup (IF x = q THEN {g} ELSE {})
           parent(x) == IF x = g THEN q ELSE gs[x].parent
           prev(x)   == IF x = g THEN gs[g].parent ELSE gs[x].prev
<1>1. ASSUME NEW x \in DOMAIN gs
      PROVE  [gs[x] EXCEPT !.groups = listed(x), !.parent = parent(x), !.prev = prev(x)] \in Groups
  <2>1. gs[x] \in Groups /\ gs[g] \in Groups /\ q \in GroupIds /\ g \in GroupIds
    BY DEF IsMap
  <2>2. listed(x) \in SUBSET GroupIds
    BY <2>1 DEF Groups
  <2>3. parent(x) \in GroupIds \cup {None} /\ prev(x) \in GroupIds \cup {None}
    BY <2>1 DEF Groups
  <2> HIDE DEF listed, parent, prev
  <2> QED  BY <2>1, <2>2, <2>3 DEF Groups
<1> QED  BY <1>1 DEF IsMap, MoveGroupTo

LEMMA DropGroupsType ==
    ASSUME NEW gs, IsMap(gs, GroupIds, Groups), NEW g \in DOMAIN gs, NEW S
    PROVE  IsMap(DropGroups(gs, g, S), GroupIds, Groups)
BY DEF IsMap, Groups, DropGroups

LEMMA RelistType ==
    ASSUME NEW gs, IsMap(gs, GroupIds, Groups), NEW e \in EntryIds, NEW p, NEW q
    PROVE  IsMap(RelistEntry(gs, e, p, q), GroupIds, Groups)
BY DEF IsMap, Groups, RelistEntry

LEMMA UnlistType ==
    ASSUME NEW gs, IsMap(gs, GroupIds, Groups), NEW es, NEW E
    PROVE  IsMap(UnlistEntries(gs, es, E), GroupIds, Groups)
<1> DEFINE listed(x) == gs[x].entries \ {e \in E : Live(es, e).parent = x}
           hint(x)   == IF gs[x].ltve \in E THEN None ELSE gs[x].ltve
<1>1. ASSUME NEW x \in DOMAIN gs
      PROVE  [gs[x] EXCEPT !.entries = listed(x), !.ltve = hint(x)] \in Groups
  <2>1. gs[x] \in Groups
    BY DEF IsMap
  <2>2. listed(x) \in SUBSET EntryIds /\ hint(x) \in EntryIds \cup {None}
    BY <2>1 DEF Groups
  <2> HIDE DEF listed, hint
  <2> QED  BY <2>1, <2>2 DEF Groups
<1> QED  BY <1>1 DEF IsMap, UnlistEntries

----------------------------------------------------------------------------
(* Compaction: an id's rank among the ids kept is again an id.             *)

LEMMA RankType ==
    ASSUME NEW S \in SUBSET AttachmentIds, NEW id \in S
    PROVE  Rank(S, id) \in AttachmentIds
<1> DEFINE below == {j \in S : j < id}
<1>1. id \in Nat /\ id <= MaxAttachments - 1 /\ MaxAttachments \in Nat
  BY MaxAttachmentsAssumption DEF AttachmentIds
<1>2. IsFiniteSet(0 .. id - 1) /\ Cardinality(0 .. id - 1) = id
  <2>1. id = 0 => 0 .. id - 1 = {}
    BY <1>1
  <2>2. CASE id = 0
    BY <2>1, <2>2, FS_EmptySet
  <2>3. CASE id > 0
    BY <1>1, <2>3, FS_Interval
  <2> QED  BY <1>1, <2>2, <2>3
<1>3. ASSUME NEW j \in S, j < id
      PROVE  j \in 0 .. id - 1
  <2>1. j \in AttachmentIds
    OBVIOUS
  <2>2. j \in Nat
    BY <2>1, <1>1 DEF AttachmentIds
  <2> QED  BY <1>1, <1>3, <2>2
<1>4. IsFiniteSet(below) /\ Cardinality(below) <= id
  <2>1. below \subseteq 0 .. id - 1
    BY <1>3
  <2> HIDE DEF below
  <2>2. IsFiniteSet(below) /\ Cardinality(below) <= Cardinality(0 .. id - 1)
    BY <1>2, <2>1, FS_Subset
  <2> QED  BY <1>2, <2>2
<1>5. Cardinality(below) \in Nat
  BY <1>4, FS_CardinalityType
<1> QED  BY <1>1, <1>4, <1>5 DEF Rank, AttachmentIds

LEMMA CompactedType ==
    ASSUME NEW es, IsMap(es, EntryIds, Lives), NEW pool, IsMap(pool, AttachmentIds, Binaries),
           NEW kept \in SUBSET DOMAIN pool
    PROVE  /\ IsMap(CompactedEntries(es, kept), EntryIds, Lives)
           /\ IsMap(CompactedPool(pool, kept), AttachmentIds, Binaries)
<1>1. kept \in SUBSET AttachmentIds
  BY DEF IsMap
<1>2. \A id \in kept : Rank(kept, id) \in AttachmentIds
  BY <1>1, RankType
<1>3. ASSUME NEW m \in AttachmentMaps
      PROVE  RemapRefs(m, kept) \in AttachmentMaps
  BY <1>2, AttachmentMapType DEF IsMap, RemapRefs
<1>4. \A v \in Versions : [v EXCEPT !.attachments = RemapRefs(@, kept)] \in Versions
  BY <1>3 DEF Versions
<1>5. IsMap(CompactedEntries(es, kept), EntryIds, Lives)
  BY <1>4, VersionTyped, VersionsRewritten DEF CompactedEntries, MapVersions
<1>6. IsMap(CompactedPool(pool, kept), AttachmentIds, Binaries)
  BY <1>2 DEF IsMap, CompactedPool
<1> QED  BY <1>5, <1>6

----------------------------------------------------------------------------
(* A new database is well formed.                                          *)

LEMMA NewDatabaseIsOne == IsDatabase(NewDatabase)
<1> DEFINE gs == NewDatabase.groups
<1>1. /\ DOMAIN gs = {Root} /\ gs[Root] = NewGroup(None, 0)
      /\ NewDatabase.entries = EmptyMap /\ NewDatabase.attachments = EmptyMap
      /\ NewDatabase.icons = EmptyMap /\ NewDatabase.deleted = EmptyMap
      /\ NewDatabase.meta \in [MetaFields -> GroupIds \cup {None}]
      /\ gs = [g \in {Root} |-> NewGroup(None, 0)]
  BY DEF NewDatabase
<1>2. NewGroup(None, 0) \in Groups
  BY NoContentAssumption DEF NewGroup, Groups, Times, IconValues
<1>3. IsMap(gs, GroupIds, Groups)
  BY <1>1, <1>2, RootAssumption DEF IsMap
<1> HIDE DEF gs
<1>4. IsTree(gs)
  BY <1>1, RootAssumption, SentinelAssumption DEF IsTree, NewGroup
<1>5. DOMAIN EmptyMap = {}
  BY DEF EmptyMap
<1>6. IsPlaced(gs, EmptyMap)
  BY <1>1, <1>5 DEF IsPlaced, NewGroup
<1>7. ReferencedIds(EmptyMap) = {}
  BY <1>5 DEF ReferencedIds
<1>8. IconMentions(gs, EmptyMap) \subseteq {None}
  BY <1>1, <1>5 DEF IconMentions, NewGroup
<1>9. Backreferenced(gs, EmptyMap)
  BY <1>5 DEF Backreferenced
<1> QED  BY <1>1, <1>3, <1>4, <1>5, <1>6, <1>7, <1>8, <1>9, EmptyMapType DEF IsDatabase, gs

----------------------------------------------------------------------------
(* The least closed sets that removal and the check for a cycle compute.   *)

LEMMA SubtreeLeast ==
    ASSUME NEW gs, NEW g \in DOMAIN gs
    PROVE  /\ g \in Subtree(gs, g)
           /\ Subtree(gs, g) \subseteq DOMAIN gs
           /\ ChildClosed(gs, Subtree(gs, g))
           /\ \A S \in SUBSET DOMAIN gs :
                 g \in S /\ ChildClosed(gs, S) => Subtree(gs, g) \subseteq S
BY DEF Subtree, ChildClosed

LEMMA AncestorsLeast ==
    ASSUME NEW gs, NEW g \in DOMAIN gs
    PROVE  /\ g \in AncestorsOrSelf(gs, g)
           /\ ParentClosed(gs, AncestorsOrSelf(gs, g))
           /\ \A S \in SUBSET DOMAIN gs :
                 g \in S /\ ParentClosed(gs, S) => AncestorsOrSelf(gs, g) \subseteq S
BY DEF AncestorsOrSelf, ParentClosed

\* What makes a tree, without the spanning: the two representations agree.
Agree(gs) ==
    /\ Root \in DOMAIN gs
    /\ gs[Root].parent = None
    /\ None \notin DOMAIN gs
    /\ \A x \in DOMAIN gs \ {Root} : gs[x].parent \in DOMAIN gs
    /\ \A p \in DOMAIN gs : gs[p].groups = {x \in DOMAIN gs : gs[x].parent = p}

Spans(gs) == \A S \in SUBSET DOMAIN gs : Root \in S /\ ChildClosed(gs, S) => S = DOMAIN gs

LEMMA TreeParts ==
    ASSUME NEW gs, None \notin DOMAIN gs
    PROVE  IsTree(gs) <=> Agree(gs) /\ Spans(gs)
BY DEF IsTree, Agree, Spans

\* The check for a cycle, made on the parents, keeps the target of a move out
\* of the subtree that removal would find through the child sets.
LEMMA TargetOutside ==
    ASSUME NEW gs, Agree(gs), NEW g \in DOMAIN gs, NEW q \in DOMAIN gs,
           g \notin AncestorsOrSelf(gs, q)
    PROVE  q \notin Subtree(gs, g)
<1> DEFINE T == {x \in DOMAIN gs : g \in AncestorsOrSelf(gs, x)}
<1>1. g \in T
  BY AncestorsLeast
<1>2. ASSUME NEW x \in T, NEW y \in gs[x].groups \cap DOMAIN gs
      PROVE  y \in T
  <2>1. gs[y].parent = x
    BY DEF Agree
  <2>2. x \in AncestorsOrSelf(gs, y)
    BY <2>1, AncestorsLeast DEF ParentClosed
  <2>3. ParentClosed(gs, AncestorsOrSelf(gs, y)) /\ AncestorsOrSelf(gs, y) \subseteq DOMAIN gs
    BY AncestorsLeast DEF AncestorsOrSelf
  <2>4. AncestorsOrSelf(gs, x) \subseteq AncestorsOrSelf(gs, y)
    BY <2>2, <2>3, AncestorsLeast
  <2> QED  BY <2>4
<1>3. ChildClosed(gs, T)
  BY <1>2 DEF ChildClosed
<1>4. Subtree(gs, g) \subseteq T
  BY <1>1, <1>3, SubtreeLeast
<1> QED  BY <1>4

\* In a subtree, every group but the topmost has its parent there too.
LEMMA SubtreeParents ==
    ASSUME NEW gs, Agree(gs), NEW g \in DOMAIN gs
    PROVE  \A y \in Subtree(gs, g) : y = g \/ gs[y].parent \in Subtree(gs, g)
<1> DEFINE S == Subtree(gs, g)
           W == {y \in S : y = g \/ gs[y].parent \in S}
<1>1. g \in W /\ W \subseteq DOMAIN gs
  BY SubtreeLeast
<1>2. ChildClosed(gs, W)
  BY SubtreeLeast DEF ChildClosed, Agree
<1>3. S \subseteq W
  BY <1>1, <1>2, SubtreeLeast
<1> QED  BY <1>3

LEMMA RootNotBelow ==
    ASSUME NEW gs, Agree(gs), NEW g \in DOMAIN gs \ {Root}
    PROVE  Root \notin Subtree(gs, g)
<1>1. ChildClosed(gs, DOMAIN gs \ {Root})
  BY DEF ChildClosed, Agree
<1> QED  BY <1>1, SubtreeLeast

----------------------------------------------------------------------------
(* Adding, moving and removing a group, and leaving the tree alone.        *)

LEMMA AddGroupTree ==
    ASSUME NEW gs, Agree(gs), Spans(gs), NEW p \in DOMAIN gs, NEW g, g \notin DOMAIN gs,
           g # None, NEW t
    PROVE  Agree(AddGroupTo(gs, p, g, t)) /\ Spans(AddGroupTo(gs, p, g, t))
<1> DEFINE hs == AddGroupTo(gs, p, g, t)
<1>1. /\ DOMAIN hs = DOMAIN gs \cup {g}
      /\ hs[g].parent = p /\ hs[g].groups = {}
      /\ \A x \in DOMAIN gs : /\ hs[x].parent = gs[x].parent
                              /\ hs[x].groups = IF x = p THEN gs[x].groups \cup {g} ELSE gs[x].groups
  BY DEF AddGroupTo, Put, NewGroup
<1> HIDE DEF hs
<1>2. Agree(hs)
  <2>1. \A x \in DOMAIN hs \ {Root} : hs[x].parent \in DOMAIN hs
    BY <1>1 DEF Agree
  <2>2. ASSUME NEW x \in DOMAIN hs
        PROVE  hs[x].groups = {y \in DOMAIN hs : hs[y].parent = x}
    <3> DEFINE listed == {y \in DOMAIN hs : hs[y].parent = x}
               before == {y \in DOMAIN gs : gs[y].parent = x}
    <3>0. /\ \A y \in DOMAIN gs : hs[y].parent = gs[y].parent
          /\ hs[g].parent = p
      BY <1>1
    <3>3. listed = before \cup (IF x = p THEN {g} ELSE {})
      BY <1>1, <3>0
    <3>1. CASE x = g
      <4>1. before = {}
        BY <3>1 DEF Agree
      <4> QED  BY <1>1, <3>1, <3>3, <4>1
    <3>2. CASE x # g
      <4>1. x \in DOMAIN gs /\ gs[x].groups = before
        BY <1>1, <3>2 DEF Agree
      <4>2. hs[x].groups = IF x = p THEN gs[x].groups \cup {g} ELSE gs[x].groups
        BY <1>1, <4>1
      <4> HIDE DEF listed, before
      <4>3. hs[x].groups = listed
        BY <3>3, <4>1, <4>2
      <4> QED  BY <4>3 DEF listed
    <3> QED  BY <3>1, <3>2
  <2>3. Root \in DOMAIN hs /\ hs[Root].parent = None /\ None \notin DOMAIN hs
    BY <1>1 DEF Agree
  <2> QED  BY <2>1, <2>2, <2>3 DEF Agree
<1>3. ASSUME NEW S \in SUBSET DOMAIN hs, Root \in S, ChildClosed(hs, S)
      PROVE  S = DOMAIN hs
  <2>1. ChildClosed(gs, S \ {g})
    BY <1>1, <1>3 DEF ChildClosed
  <2>2. S \ {g} = DOMAIN gs
    BY <1>1, <1>3, <2>1 DEF Spans, Agree
  <2>3. g \in S
    BY <1>1, <1>3, <2>2 DEF ChildClosed
  <2> QED  BY <1>1, <2>2, <2>3
<1> QED  BY <1>2, <1>3 DEF Spans, hs

LEMMA MoveGroupTree ==
    ASSUME NEW gs, Agree(gs), Spans(gs), NEW g \in DOMAIN gs, NEW q \in DOMAIN gs,
           CanMoveGroup(gs, g, q), \A x \in DOMAIN gs : gs[x] \in Groups
    PROVE  Agree(MoveGroupTo(gs, g, q)) /\ Spans(MoveGroupTo(gs, g, q))
<1> DEFINE hs == MoveGroupTo(gs, g, q)
           T == Subtree(gs, g)
<1>1. /\ DOMAIN hs = DOMAIN gs
      /\ \A x \in DOMAIN gs :
            /\ hs[x].parent = IF x = g THEN q ELSE gs[x].parent
            /\ hs[x].groups = (IF x = gs[g].parent THEN gs[x].groups \ {g} ELSE gs[x].groups)
                                  \cup (IF x = q THEN {g} ELSE {})
  <2>1. ASSUME NEW x \in DOMAIN gs
        PROVE  /\ hs[x].parent = IF x = g THEN q ELSE gs[x].parent
               /\ hs[x].groups = (IF x = gs[g].parent THEN gs[x].groups \ {g} ELSE gs[x].groups)
                                     \cup (IF x = q THEN {g} ELSE {})
    <3>1. gs[x] \in Groups
      OBVIOUS
    <3> QED  BY <3>1 DEF MoveGroupTo, Groups
  <2> QED  BY <2>1 DEF MoveGroupTo
<1>2. g # Root
  BY DEF CanMoveGroup, Agree
<1>3. q \notin T
  BY TargetOutside DEF CanMoveGroup
<1> HIDE DEF hs
<1>4. Agree(hs)
  BY <1>1, <1>2 DEF Agree
<1>5. ASSUME NEW S \in SUBSET DOMAIN hs, Root \in S, ChildClosed(hs, S)
      PROVE  S = DOMAIN hs
  <2>1. /\ g \in T /\ T \subseteq DOMAIN gs /\ ChildClosed(gs, T)
        /\ \A V \in SUBSET DOMAIN gs : g \in V /\ ChildClosed(gs, V) => T \subseteq V
    BY SubtreeLeast
  <2> HIDE DEF T
  <2>2. \A x \in DOMAIN gs : gs[x].groups \ {g} \subseteq hs[x].groups
    BY <1>1
  <2>3. ChildClosed(gs, S \cup T)
    BY <1>1, <1>5, <2>1, <2>2 DEF ChildClosed
  <2>4. S \cup T = DOMAIN gs
    BY <1>1, <1>5, <2>1, <2>3 DEF Spans
  <2>5. g \in S
    BY <1>1, <1>3, <1>5, <2>4 DEF ChildClosed
  <2>6. ChildClosed(gs, S \cap T)
    BY <1>1, <1>5, <2>1, <2>2, <2>5 DEF ChildClosed
  <2>7. T \subseteq S
    BY <1>1, <2>1, <2>5, <2>6
  <2> QED  BY <1>1, <2>4, <2>7
<1> QED  BY <1>4, <1>5 DEF Spans, hs

\* hs is gs without the groups T below g
TakenOut(gs, hs, g, T) ==
    /\ DOMAIN hs = DOMAIN gs \ T
    /\ \A x \in DOMAIN hs :
          /\ hs[x].parent = gs[x].parent
          /\ hs[x].groups = IF x = gs[g].parent THEN gs[x].groups \ {g} ELSE gs[x].groups

LEMMA RemovedGroups ==
    ASSUME NEW gs, NEW g \in DOMAIN gs, NEW T, NEW es, NEW E,
           \A x \in DOMAIN gs : gs[x] \in Groups
    PROVE  TakenOut(gs, UnlistEntries(DropGroups(gs, g, T), es, E), g, T)
<1> DEFINE hs == UnlistEntries(DropGroups(gs, g, T), es, E)
<1>1. DOMAIN hs = DOMAIN gs \ T
  BY DEF UnlistEntries, DropGroups
<1>2. ASSUME NEW x \in DOMAIN hs
      PROVE  /\ hs[x].parent = gs[x].parent
             /\ hs[x].groups = IF x = gs[g].parent THEN gs[x].groups \ {g} ELSE gs[x].groups
  <2> DEFINE ds == DropGroups(gs, g, T)
  <2>1. x \in DOMAIN gs /\ x \notin T /\ gs[x] \in Groups
    BY <1>1
  <2>2. /\ x \in DOMAIN ds
        /\ ds[x] = [gs[x] EXCEPT !.groups = IF x = gs[g].parent THEN @ \ {g} ELSE @]
    BY <2>1 DEF DropGroups
  <2>3. hs[x] = [ds[x] EXCEPT !.entries = @ \ {e \in E : Live(es, e).parent = x},
                              !.ltve    = IF @ \in E THEN None ELSE @]
    BY <2>2 DEF UnlistEntries
  <2> HIDE DEF hs, ds
  <2>4. /\ ds[x].parent = gs[x].parent
        /\ ds[x].groups = IF x = gs[g].parent THEN gs[x].groups \ {g} ELSE gs[x].groups
    BY <2>1, <2>2 DEF Groups
  <2>5. hs[x].parent = ds[x].parent /\ hs[x].groups = ds[x].groups
    BY <2>1, <2>2, <2>3 DEF Groups
  <2> QED  BY <2>4, <2>5
<1> QED  BY <1>1, <1>2 DEF TakenOut

LEMMA RemoveGroupTree ==
    ASSUME NEW gs, Agree(gs), Spans(gs), NEW g \in DOMAIN gs \ {Root}, NEW es, NEW E,
           \A x \in DOMAIN gs : gs[x] \in Groups
    PROVE  LET hs == UnlistEntries(DropGroups(gs, g, Subtree(gs, g)), es, E)
           IN  Agree(hs) /\ Spans(hs)
<1> DEFINE T == Subtree(gs, g)
           hs == UnlistEntries(DropGroups(gs, g, T), es, E)
<1>1. /\ DOMAIN hs = DOMAIN gs \ T
      /\ \A x \in DOMAIN hs :
            /\ hs[x].parent = gs[x].parent
            /\ hs[x].groups = IF x = gs[g].parent THEN gs[x].groups \ {g} ELSE gs[x].groups
  <2> HIDE DEF T
  <2>1. TakenOut(gs, hs, g, T)
    BY RemovedGroups
  <2> HIDE DEF hs
  <2> QED  BY <2>1 DEF TakenOut
<1>2. /\ g \in T /\ T \subseteq DOMAIN gs /\ ChildClosed(gs, T) /\ Root \notin T
      /\ \A y \in T : y = g \/ gs[y].parent \in T
  BY SubtreeLeast, SubtreeParents, RootNotBelow
<1> HIDE DEF T, hs
<1>3. Agree(hs)
  <2>1. ASSUME NEW x \in DOMAIN hs \ {Root}
        PROVE  hs[x].parent \in DOMAIN hs
    <3>1. gs[x].parent \in DOMAIN gs /\ x \in gs[gs[x].parent].groups
      BY <1>1 DEF Agree
    <3>2. gs[x].parent \notin T
      BY <1>1, <1>2, <3>1 DEF ChildClosed
    <3> QED  BY <1>1, <3>1, <3>2
  <2>2. ASSUME NEW p \in DOMAIN hs
        PROVE  hs[p].groups = {x \in DOMAIN hs : hs[x].parent = p}
    <3>1. gs[p].groups = {x \in DOMAIN gs : gs[x].parent = p}
      BY <1>1 DEF Agree
    <3>2. \A y \in T : gs[y].parent = p => y = g
      BY <1>1, <1>2
    <3>3. DOMAIN hs = DOMAIN gs \ T /\ g \in T /\ p \in DOMAIN gs
      BY <1>1, <1>2
    <3>4. \A x \in DOMAIN hs : hs[x].parent = gs[x].parent
      BY <1>1
    <3>5. {x \in DOMAIN hs : hs[x].parent = p} = gs[p].groups \ {g}
      BY <3>1, <3>2, <3>3, <3>4
    <3>6. hs[p].groups = gs[p].groups \ {g}
      <4>1. hs[p].groups = IF p = gs[g].parent THEN gs[p].groups \ {g} ELSE gs[p].groups
        BY <1>1
      <4>2. p # gs[g].parent => g \notin gs[p].groups
        BY <3>1
      <4> QED  BY <4>1, <4>2
    <3> QED  BY <3>5, <3>6
  <2> QED  BY <1>1, <1>2, <2>1, <2>2 DEF Agree
<1>4. ASSUME NEW S \in SUBSET DOMAIN hs, Root \in S, ChildClosed(hs, S)
      PROVE  S = DOMAIN hs
  <2>1. ChildClosed(gs, S \cup T)
    <3> SUFFICES ASSUME NEW x \in S \cup T, NEW y \in gs[x].groups \cap DOMAIN gs, y \notin T
                 PROVE  y \in S
      BY DEF ChildClosed
    <3>1. x \in S
      BY <1>2 DEF ChildClosed
    <3>2. y \in hs[x].groups \cap DOMAIN hs
      BY <1>1, <1>2, <3>1
    <3> QED  BY <1>4, <3>1, <3>2 DEF ChildClosed
  <2>2. S \cup T = DOMAIN gs
    BY <1>1, <1>2, <1>4, <2>1 DEF Spans
  <2> QED  BY <1>1, <2>2
<1> QED  BY <1>3, <1>4 DEF Spans, hs, T

\* Changes that touch neither parents nor child sets
LEMMA SameTree ==
    ASSUME NEW gs, NEW hs, DOMAIN hs = DOMAIN gs,
           \A x \in DOMAIN gs : hs[x].parent = gs[x].parent /\ hs[x].groups = gs[x].groups
    PROVE  Agree(gs) /\ Spans(gs) => Agree(hs) /\ Spans(hs)
<1>1. \A S \in SUBSET DOMAIN gs : ChildClosed(hs, S) => ChildClosed(gs, S)
  BY DEF ChildClosed
<1> QED  BY <1>1 DEF Agree, Spans

LEMMA TreeHolds ==
    ASSUME NEW gs, IsMap(gs, GroupIds, Groups)
    PROVE  /\ IsTree(gs) <=> Agree(gs) /\ Spans(gs)
           /\ \A x \in DOMAIN gs : gs[x] \in Groups
BY TreeParts, SentinelAssumption DEF IsMap

----------------------------------------------------------------------------
(* Entries in their groups.                                                *)

\* es and fs have the same entries, with the same live parents
SameParents(es, fs) ==
    /\ DOMAIN fs = DOMAIN es
    /\ \A e \in DOMAIN es : Live(fs, e).parent = Live(es, e).parent

SameLists(gs, hs) ==
    /\ DOMAIN hs = DOMAIN gs
    /\ \A g \in DOMAIN gs : hs[g].entries = gs[g].entries

LEMMA SamePlacement ==
    ASSUME NEW gs, NEW es, NEW hs, NEW fs, IsPlaced(gs, es), SameLists(gs, hs),
           SameParents(es, fs)
    PROVE  IsPlaced(hs, fs)
BY DEF IsPlaced, SameLists, SameParents

LEMMA AddGroupPlacement ==
    ASSUME NEW gs, NEW es, IsPlaced(gs, es), NEW p \in DOMAIN gs, NEW g, g \notin DOMAIN gs, NEW t,
           \A x \in DOMAIN gs : gs[x] \in Groups
    PROVE  IsPlaced(AddGroupTo(gs, p, g, t), es)
<1> DEFINE hs == AddGroupTo(gs, p, g, t)
<1>1. /\ DOMAIN hs = DOMAIN gs \cup {g}
      /\ hs[g].entries = {}
      /\ \A x \in DOMAIN gs : hs[x].entries = gs[x].entries
  BY DEF AddGroupTo, Put, NewGroup, Groups
<1> HIDE DEF hs
<1> QED  BY <1>1 DEF IsPlaced, hs

LEMMA AddEntryPlacement ==
    ASSUME NEW gs, NEW es, IsPlaced(gs, es), NEW p \in DOMAIN gs, NEW e, e \notin DOMAIN es, NEW t,
           \A x \in DOMAIN gs : gs[x] \in Groups
    PROVE  IsPlaced([gs EXCEPT ![p].entries = @ \cup {e}], Put(es, e, <<NewVersion(p, t)>>))
<1> DEFINE hs == [gs EXCEPT ![p].entries = @ \cup {e}]
           fs == Put(es, e, <<NewVersion(p, t)>>)
<1>1. /\ DOMAIN hs = DOMAIN gs
      /\ \A x \in DOMAIN gs :
            hs[x].entries = IF x = p THEN gs[x].entries \cup {e} ELSE gs[x].entries
  BY DEF Groups
<1>2. /\ DOMAIN fs = DOMAIN es \cup {e}
      /\ Live(fs, e).parent = p
      /\ \A x \in DOMAIN es : Live(fs, x) = Live(es, x)
  BY DEF Put, Live, NewVersion
<1> HIDE DEF hs, fs
<1>4. ASSUME NEW x \in DOMAIN gs
      PROVE  hs[x].entries = {y \in DOMAIN fs : Live(fs, y).parent = x}
  <2>1. gs[x].entries = {y \in DOMAIN es : Live(es, y).parent = x}
    BY DEF IsPlaced
  <2>2. {y \in DOMAIN fs : Live(fs, y).parent = x}
          = {y \in DOMAIN es : Live(es, y).parent = x} \cup (IF x = p THEN {e} ELSE {})
    BY <1>2
  <2> QED  BY <1>1, <2>1, <2>2
<1>5. \A y \in DOMAIN fs : Live(fs, y).parent \in DOMAIN hs
  BY <1>1, <1>2 DEF IsPlaced
<1>3. IsPlaced(hs, fs)
  BY <1>1, <1>4, <1>5 DEF IsPlaced
<1> QED  BY <1>3 DEF hs, fs

LEMMA MoveEntryPlacement ==
    ASSUME NEW gs, NEW es, NEW fs, IsPlaced(gs, es), NEW e \in DOMAIN es, NEW q \in DOMAIN gs,
           \A x \in DOMAIN gs : gs[x] \in Groups, DOMAIN fs = DOMAIN es,
           \A x \in DOMAIN es : Live(fs, x).parent = IF x = e THEN q ELSE Live(es, x).parent
    PROVE  IsPlaced(RelistEntry(gs, e, Live(es, e).parent, q), fs)
<1> DEFINE p == Live(es, e).parent
           hs == RelistEntry(gs, e, p, q)
<1>1. /\ DOMAIN hs = DOMAIN gs
      /\ \A x \in DOMAIN gs :
            hs[x].entries = (IF x = p THEN gs[x].entries \ {e} ELSE gs[x].entries)
                               \cup (IF x = q THEN {e} ELSE {})
  BY DEF RelistEntry, Groups
<1> HIDE DEF hs
<1>2. ASSUME NEW x \in DOMAIN gs
      PROVE  hs[x].entries = {y \in DOMAIN fs : Live(fs, y).parent = x}
  <2>1. gs[x].entries = {y \in DOMAIN es : Live(es, y).parent = x}
    BY DEF IsPlaced
  <2> QED  BY <1>1, <2>1
<1>3. IsPlaced(hs, fs)
  BY <1>1, <1>2 DEF IsPlaced
<1> QED  BY <1>3 DEF hs

LEMMA RemovalPlacement ==
    ASSUME NEW gs, NEW es, NEW hs, IsPlaced(gs, es), NEW S, NEW E,
           E \subseteq DOMAIN es, \A e \in DOMAIN es : Live(es, e).parent \in S => e \in E,
           DOMAIN hs = DOMAIN gs \ S,
           \A x \in DOMAIN hs : hs[x].entries = gs[x].entries \ {e \in E : Live(es, e).parent = x}
    PROVE  IsPlaced(hs, Without(es, E))
<1>1. /\ DOMAIN Without(es, E) = DOMAIN es \ E
      /\ \A e \in DOMAIN es \ E : Live(Without(es, E), e) = Live(es, e)
  BY DEF Without, Live
<1>2. ASSUME NEW x \in DOMAIN hs
      PROVE  hs[x].entries = {e \in DOMAIN es \ E : Live(es, e).parent = x}
  <2>1. gs[x].entries = {e \in DOMAIN es : Live(es, e).parent = x}
    BY DEF IsPlaced
  <2> QED  BY <2>1
<1> QED  BY <1>1, <1>2 DEF IsPlaced
=============================================================================
