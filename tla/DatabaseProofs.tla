--------------------------- MODULE DatabaseProofs ---------------------------
(***************************************************************************)
(* What holds of Database for every set of identifiers, every bound and    *)
(* every file it may have been opened from: types, tombstones, the groups  *)
(* that Meta names, the order of histories; that its groups form one tree  *)
(* and its entries sit in it; that each call is a step of Containment or   *)
(* leaves its tree alone; and why no attachment name and no custom icon    *)
(* dangles, as long as nobody reaches around an open tracker, with what    *)
(* follows for hints, removals, compaction and saving.                     *)
(***************************************************************************)
EXTENDS Stored, DatabaseTypesProofs, SequenceTheorems

----------------------------------------------------------------------------
(* Type correctness: one lemma per family of actions.                      *)

LEMMA GroupTypes ==
    ASSUME TypeOK, GroupNext
    PROVE  TypeOK'
<1> USE DEF Times
<1>1. ASSUME NEW p \in DOMAIN groups, NEW g \in GroupIds, AddGroup(p, g)
      PROVE  TypeOK'
  BY <1>1, AddGroupType DEF TypeOK, AddGroup
<1>2. ASSUME NEW p \in DOMAIN groups, NEW e \in EntryIds, AddEntry(p, e)
      PROVE  TypeOK'
  <2>1. p \in GroupIds
    BY DEF TypeOK, IsMap
  <2>2. NewVersion(p, now) \in Versions
    BY <2>1, NoContentAssumption, EmptyMapType, AttachmentMapType
       DEF TypeOK, NewVersion, Versions, IconValues
  <2>3. <<NewVersion(p, now)>> \in Lives
    BY <2>2 DEF Lives
  <2>4. IsMap(entries', EntryIds, Lives)
    BY <1>2, <2>3, PutType DEF TypeOK, AddEntry, Lives
  <2>5. IsMap(groups', GroupIds, Groups)
    BY <1>2, ListedType DEF TypeOK, AddEntry
  <2> QED  BY <1>2, <2>4, <2>5 DEF TypeOK, AddEntry, Lives
<1>3. ASSUME NEW g \in DOMAIN groups, NEW c \in Contents, NEW tracked \in BOOLEAN,
             EditGroup(g, c, tracked)
      PROVE  TypeOK'
  <2>1. IsMap(groups', GroupIds, Groups)
    <3> DEFINE t == IF tracked THEN now ELSE groups[g].mtime
    <3>1. t \in Nat
      BY EditedType DEF TypeOK
    <3>2. groups' = [groups EXCEPT ![g].content = c, ![g].mtime = t]
      BY <1>3 DEF EditGroup
    <3> HIDE DEF t
    <3> QED  BY <3>1, <3>2, EditedType DEF TypeOK
  <2> QED  BY <1>3, <2>1 DEF TypeOK, EditGroup
<1>4. ASSUME NEW S
      PROVE  IsMap(Unreference(S), IconIds, Icons)
  BY DEF TypeOK, Unreference, IsMap, Icons
<1>5. ASSUME NEW g \in DOMAIN groups, NEW v \in IconValues
      PROVE  IsMap([groups EXCEPT ![g].icon = v], GroupIds, Groups)
  <2>1. groups[g] \in Groups
    BY DEF TypeOK, IsMap
  <2>2. [groups[g] EXCEPT !.icon = v] \in Groups
    BY <2>1 DEF Groups
  <2> QED  BY <2>2 DEF TypeOK, IsMap
<1>6. ASSUME NEW g \in DOMAIN groups, NEW icon \in {None} \cup BuiltIns,
             SetGroupIcon(g, icon)
      PROVE  TypeOK'
  BY <1>4, <1>5, <1>6 DEF TypeOK, SetGroupIcon, IconValues
<1>7. ASSUME NEW g \in DOMAIN groups, NEW c \in IconIds, SetGroupIconCustom(g, c)
      PROVE  TypeOK'
  <2>1. IsMap(icons', IconIds, Icons)
    <3> DEFINE cleared == Unreference({g})
    <3>1. IsMap(cleared, IconIds, Icons) /\ g \in GroupIds
      BY <1>4 DEF TypeOK, IsMap
    <3>2. DOMAIN cleared = DOMAIN icons
      BY DEF Unreference
    <3> HIDE DEF cleared
    <3>3. \A x \in DOMAIN icons :
             [cleared[x] EXCEPT !.groups = @ \cup (IF x = c THEN {g} ELSE {})] \in Icons
      BY <3>1, <3>2 DEF IsMap, Icons
    <3>4. icons' = [x \in DOMAIN icons |->
             [cleared[x] EXCEPT !.groups = @ \cup (IF x = c THEN {g} ELSE {})]]
      BY <1>7 DEF SetGroupIconCustom, cleared
    <3> QED  BY <3>1, <3>2, <3>3, <3>4 DEF IsMap
  <2>2. IsMap(groups', GroupIds, Groups)
    BY <1>5, <1>7 DEF SetGroupIconCustom, IconValues
  <2> QED  BY <1>7, <2>1, <2>2 DEF TypeOK, SetGroupIconCustom
<1>8. ASSUME NEW g \in DOMAIN groups, NEW c \in IconIds, SetGroupIconCustomNew(g, c)
      PROVE  TypeOK'
  <2>1. [groups |-> {g}, mtime |-> now] \in Icons
    BY DEF TypeOK, IsMap, Icons
  <2>2. IsMap(icons', IconIds, Icons)
    BY <1>4, <1>8, <2>1, PutType DEF SetGroupIconCustomNew
  <2>3. IsMap(groups', GroupIds, Groups)
    BY <1>5, <1>8 DEF SetGroupIconCustomNew, IconValues
  <2> QED  BY <1>8, <2>2, <2>3 DEF TypeOK, SetGroupIconCustomNew
<1>9. ASSUME NEW g \in DOMAIN groups, NEW q \in DOMAIN groups, NEW tracked \in BOOLEAN,
             MoveGroup(g, q, tracked)
      PROVE  TypeOK'
  <2> DEFINE moved == MoveGroupTo(groups, g, q)
  <2>1. IsMap(moved, GroupIds, Groups) /\ DOMAIN moved = DOMAIN groups
    <3>1. IsMap(moved, GroupIds, Groups)
      BY MoveGroupType DEF TypeOK
    <3>2. DOMAIN moved = DOMAIN groups
      BY DEF MoveGroupTo
    <3> QED  BY <3>1, <3>2
  <2>2. groups' = [moved EXCEPT ![g].ltime = IF tracked THEN now ELSE @]
    BY <1>9 DEF MoveGroup
  <2> HIDE DEF moved
  <2>3. IsMap(groups', GroupIds, Groups)
    <3> DEFINE t == IF tracked THEN now ELSE moved[g].ltime
    <3>1. t \in Nat
      BY <2>1, EditedType, NoContentAssumption DEF TypeOK, Times
    <3>2. groups' = [moved EXCEPT ![g].ltime = t]
      <4>1. [moved EXCEPT ![g].ltime = IF tracked THEN now ELSE @] = [moved EXCEPT ![g].ltime = t]
        BY <2>1
      <4> QED  BY <2>2, <4>1
    <3> HIDE DEF t
    <3> QED  BY <2>1, <3>1, <3>2, EditedType, NoContentAssumption
  <2> QED  BY <1>9, <2>3 DEF TypeOK, MoveGroup
<1>10. ASSUME NEW g \in DOMAIN groups, NEW S, NEW E, RemoveSubtree(g, S, E)
       PROVE  /\ IsMap(groups', GroupIds, Groups)
              /\ IsMap(entries', EntryIds, Lives)
              /\ IsMap(attachments', AttachmentIds, Binaries)
  BY <1>10, DropGroupsType, UnlistType, WithoutType DEF TypeOK, RemoveSubtree, Lives
<1>11. ASSUME NEW g \in DOMAIN groups, RemoveGroup(g)
       PROVE  TypeOK'
  BY <1>4, <1>10, <1>11 DEF TypeOK, RemoveGroup, ClearedMeta, Lives
<1>12. ASSUME NEW g \in DOMAIN groups, TrackedRemoveGroup(g)
       PROVE  TypeOK'
  <2> DEFINE S == Subtree(groups, g)
             E == EntriesUnder(groups, S) \cap DOMAIN entries
  <2>1. RemoveSubtree(g, S, E) /\ deleted' = Bury(S \cup E)
    BY <1>12 DEF TrackedRemoveGroup
  <2>2. S \subseteq GroupIds /\ E \subseteq EntryIds
    BY DEF TypeOK, IsMap, Subtree
  <2> HIDE DEF S, E
  <2>3. IsMap(deleted', GroupIds \cup EntryIds \cup IconIds, Nat)
    BY <2>1, <2>2 DEF TypeOK, IsMap, Bury
  <2> QED  BY <1>10, <1>12, <2>1, <2>3 DEF TypeOK, TrackedRemoveGroup, Lives
<1> QED  BY <1>1, <1>2, <1>3, <1>6, <1>7, <1>8, <1>9, <1>11, <1>12 DEF GroupNext

LEMMA EntryTypes ==
    ASSUME TypeOK, EntryNext
    PROVE  TypeOK'
<1> USE DEF Times
<1>e. PICK e \in DOMAIN entries : \E i \in DOMAIN entries[e], tracked \in BOOLEAN :
        \/ \E c \in Contents : EditEntry(e, i, c, tracked)
        \/ \E q \in DOMAIN groups : MoveEntry(e, i, q, tracked)
        \/ RemoveEntry(e, i, tracked)
        \/ \E icon \in {None} \cup BuiltIns : SetEntryIcon(e, i, icon, tracked)
        \/ \E c \in IconIds : SetEntryIconCustom(e, i, c, tracked)
        \/ \E c \in IconIds : SetEntryIconCustomNew(e, i, c, tracked)
        \/ \E n \in Names, b \in Binaries : AddAttachment(e, i, n, b, tracked)
  BY DEF EntryNext
<1>1. PICK i \in DOMAIN entries[e], tracked \in BOOLEAN :
        \/ \E c \in Contents : EditEntry(e, i, c, tracked)
        \/ \E q \in DOMAIN groups : MoveEntry(e, i, q, tracked)
        \/ RemoveEntry(e, i, tracked)
        \/ \E icon \in {None} \cup BuiltIns : SetEntryIcon(e, i, icon, tracked)
        \/ \E c \in IconIds : SetEntryIconCustom(e, i, c, tracked)
        \/ \E c \in IconIds : SetEntryIconCustomNew(e, i, c, tracked)
        \/ \E n \in Names, b \in Binaries : AddAttachment(e, i, n, b, tracked)
  BY <1>e
<1> DEFINE v == entries[e][i]
<1>2. v \in Versions /\ e \in EntryIds
  BY VersionTyped DEF TypeOK, Lives
<1>3. Stamped(v, tracked) \in Versions /\ Stamped(v, tracked).attachments = v.attachments
  BY <1>2 DEF TypeOK, Stamped, Versions
<1>4. ASSUME NEW w \in Versions, SetVersion(e, i, w)
      PROVE  IsMap(entries', EntryIds, Seq(Versions) \ {<<>>})
  BY <1>4, EntriesUpdate DEF TypeOK, SetVersion, Lives
<1>5. ASSUME NEW c \in Contents, EditEntry(e, i, c, tracked)
      PROVE  TypeOK'
  <2>1. [Stamped(v, tracked) EXCEPT !.content = c] \in Versions
    BY <1>3 DEF Versions
  <2> QED  BY <1>4, <1>5, <2>1 DEF TypeOK, EditEntry
<1>6. ASSUME NEW q \in DOMAIN groups, MoveEntry(e, i, q, tracked)
      PROVE  TypeOK'
  <2> DEFINE t == IF tracked THEN now ELSE v.ltime
  <2>1. t \in Nat /\ q \in GroupIds
    BY <1>2 DEF TypeOK, Versions, IsMap
  <2>2. [v EXCEPT !.parent = q, !.prev = v.parent, !.ltime = t] \in Versions
    <3> HIDE DEF t, v
    <3> QED  BY <1>2, <2>1 DEF Versions
  <2>3. SetVersion(e, i, [v EXCEPT !.parent = q, !.prev = v.parent, !.ltime = t])
    BY <1>6 DEF MoveEntry
  <2>4. IsMap(groups', GroupIds, Groups)
    BY <1>2, <1>6, RelistType DEF TypeOK, MoveEntry
  <2> QED  BY <1>4, <1>6, <2>2, <2>3, <2>4 DEF TypeOK, MoveEntry
<1>7. ASSUME RemoveEntry(e, i, tracked)
      PROVE  TypeOK'
  <2>1. /\ IsMap(groups', GroupIds, Groups)
        /\ IsMap(entries', EntryIds, Seq(Versions) \ {<<>>})
        /\ IsMap(attachments', AttachmentIds, Binaries)
    BY <1>7, UnlistType, WithoutType DEF TypeOK, RemoveEntry
  <2>2. CASE tracked
    <3>1. IsMap(deleted', GroupIds \cup EntryIds \cup IconIds, Nat)
      BY <1>2, <1>7, <2>2 DEF TypeOK, RemoveEntry, IsMap, Bury
    <3>2. trackers # <<>>
      BY <1>7, <2>2 DEF RemoveEntry, CanCallOnMain, CanEdit, IsTracked
    <3>3. trackers' \in Seq([entry : EntryIds, historical : Versions])
      <4> DEFINE T == [entry : EntryIds, historical : Versions]
      <4>1. trackers \in Seq(T)
        BY DEF TypeOK
      <4>2. trackers' = SubSeq(trackers, 1, Len(trackers) - 1)
        BY <1>7, <2>2 DEF RemoveEntry
      <4> HIDE DEF T
      <4>3. SubSeq(trackers, 1, Len(trackers) - 1) \in Seq(T)
        BY <3>2, <4>1
      <4> QED  BY <4>2, <4>3 DEF T
    <3> QED  BY <1>7, <2>1, <3>1, <3>3 DEF TypeOK, RemoveEntry
  <2>3. CASE ~tracked
    BY <1>7, <2>1, <2>3 DEF TypeOK, RemoveEntry
  <2> QED  BY <2>2, <2>3
<1>8. ASSUME NEW icon \in {None} \cup BuiltIns, SetEntryIcon(e, i, icon, tracked)
      PROVE  TypeOK'
  <2>1. [Stamped(v, tracked) EXCEPT !.icon = icon] \in Versions
    BY <1>3 DEF Versions, IconValues
  <2> QED  BY <1>4, <1>8, <2>1 DEF TypeOK, SetEntryIcon
<1>9. ASSUME NEW c \in IconIds, SetEntryIconCustom(e, i, c, tracked)
      PROVE  TypeOK'
  <2>1. [Stamped(v, tracked) EXCEPT !.icon = c] \in Versions
    BY <1>3 DEF Versions, IconValues
  <2>2. [v EXCEPT !.icon = None] \in Versions
    BY <1>2 DEF Versions, IconValues
  <2>3. IsMap(entries', EntryIds, Seq(Versions) \ {<<>>})
    BY <1>4, <1>9, <2>1, <2>2 DEF SetEntryIconCustom
  <2> QED  BY <1>9, <2>3 DEF TypeOK, SetEntryIconCustom
<1>10. ASSUME NEW c \in IconIds, SetEntryIconCustomNew(e, i, c, tracked)
       PROVE  TypeOK'
  <2>1. [Stamped(v, tracked) EXCEPT !.icon = c] \in Versions
    BY <1>3 DEF Versions, IconValues
  <2>2. [groups |-> {}, mtime |-> now] \in Icons
    BY DEF TypeOK, Icons
  <2>3. IsMap(icons', IconIds, Icons)
    BY <1>10, <2>2, PutType DEF TypeOK, SetEntryIconCustomNew
  <2>4. IsMap(entries', EntryIds, Seq(Versions) \ {<<>>})
    BY <1>4, <1>10, <2>1 DEF SetEntryIconCustomNew
  <2> QED  BY <1>10, <2>3, <2>4 DEF TypeOK, SetEntryIconCustomNew
<1>11. ASSUME NEW n \in Names, NEW b \in Binaries, AddAttachment(e, i, n, b, tracked)
       PROVE  TypeOK'
  <2> DEFINE u == Stamped(v, tracked)
  <2>1. PICK id \in AttachmentIds :
          /\ attachments' = Put(attachments, id, b)
          /\ LET m == Put(u.attachments, n, id)
             IN SetVersion(e, i, [u EXCEPT !.attachments =
                    IF n \in DOMAIN u.attachments THEN ForgetId(m, u.attachments[n]) ELSE m])
    BY <1>11 DEF AddAttachment
  <2> HIDE DEF u
  <2> DEFINE m == Put(u.attachments, n, id)
             w == IF n \in DOMAIN u.attachments THEN ForgetId(m, u.attachments[n]) ELSE m
  <2>2. u \in Versions
    BY <1>3 DEF u
  <2>3. m \in AttachmentMaps
    BY <2>2, AttachmentMapType, PutType DEF Versions
  <2>4. w \in AttachmentMaps
    BY <2>3, AttachmentMapType, WithoutType DEF ForgetId
  <2> HIDE DEF w
  <2>5. [u EXCEPT !.attachments = w] \in Versions
    BY <2>2, <2>4 DEF Versions
  <2>6. SetVersion(e, i, [u EXCEPT !.attachments = w])
    BY <2>1 DEF w
  <2>7. IsMap(attachments', AttachmentIds, Binaries)
    BY <2>1, PutType DEF TypeOK
  <2> QED  BY <1>4, <1>11, <2>5, <2>6, <2>7 DEF TypeOK, AddAttachment
<1> QED  BY <1>1, <1>5, <1>6, <1>7, <1>8, <1>9, <1>10, <1>11

LEMMA AttachmentTypes ==
    ASSUME TypeOK, AttachmentNext
    PROVE  TypeOK'
<1>1. ASSUME NEW m \in AttachmentMaps, NEW S, NEW id
      PROVE  Without(m, S) \in AttachmentMaps /\ ForgetId(m, id) \in AttachmentMaps
  BY AttachmentMapType, WithoutType DEF ForgetId
<1>2. ASSUME NEW v \in Versions, NEW S, NEW id
      PROVE  /\ [v EXCEPT !.attachments = Without(@, S)] \in Versions
             /\ [v EXCEPT !.attachments = ForgetId(@, id)] \in Versions
  BY <1>1 DEF Versions
<1>3. ASSUME NEW e \in DOMAIN entries, NEW i \in DOMAIN entries[e], NEW n \in Names,
             RemoveAttachmentByName(e, i, n)
      PROVE  TypeOK'
  <2>1. [entries[e][i] EXCEPT !.attachments = Without(@, {n})] \in Versions
    BY <1>2, VersionTyped DEF TypeOK, Lives
  <2>2. IsMap(entries', EntryIds, Lives)
    BY <1>3, <2>1, EntriesUpdate DEF TypeOK, RemoveAttachmentByName, SetVersion, Lives
  <2> QED  BY <1>3, <2>2 DEF TypeOK, RemoveAttachmentByName, Lives
<1>4. ASSUME NEW e \in DOMAIN entries, NEW i \in DOMAIN entries[e], NEW id,
             RemoveAttachmentById(e, i, id)
      PROVE  TypeOK'
  <2>1. [entries[e][i] EXCEPT !.attachments = ForgetId(@, id)] \in Versions
    BY <1>2, VersionTyped DEF TypeOK, Lives
  <2>2. IsMap(entries', EntryIds, Lives)
    BY <1>4, <2>1, EntriesUpdate DEF TypeOK, RemoveAttachmentById, SetVersion, Lives
  <2> QED  BY <1>4, <2>2 DEF TypeOK, RemoveAttachmentById, Lives
<1>5. ASSUME NEW id \in DOMAIN attachments, NEW b \in Binaries, EditAttachment(id, b)
      PROVE  TypeOK'
  <2>1. IsMap(attachments', AttachmentIds, Binaries)
    BY <1>5 DEF TypeOK, EditAttachment, IsMap
  <2> QED  BY <1>5, <2>1 DEF TypeOK, EditAttachment
<1>6. ASSUME NEW id \in DOMAIN attachments, RemoveAttachment(id)
      PROVE  TypeOK'
  <2>1. IsMap(entries', EntryIds, Lives)
    BY <1>2, <1>6, VersionTyped, VersionsRewritten
       DEF TypeOK, RemoveAttachment, MapVersions, Lives
  <2> QED  BY <1>6, <2>1, WithoutType DEF TypeOK, RemoveAttachment, Lives
<1>7. ASSUME CompactAttachments
      PROVE  TypeOK'
  <2>1. KeptIds(entries, attachments) \subseteq DOMAIN attachments
    BY DEF KeptIds
  <2> QED  BY <1>7, <2>1, CompactedType DEF TypeOK, CompactAttachments, Lives
<1> QED  BY <1>3, <1>4, <1>5, <1>6, <1>7 DEF AttachmentNext

LEMMA TrackerTypes ==
    ASSUME TypeOK, TrackerNext
    PROVE  TypeOK'
<1> DEFINE Trackers == [entry : EntryIds, historical : Versions]
<1>1. ASSUME NEW e \in DOMAIN entries, NEW i \in DOMAIN entries[e], TrackChanges(e, i)
      PROVE  TypeOK'
  <2>1. [entry |-> e, historical |-> entries[e][i]] \in Trackers
    BY VersionTyped DEF TypeOK, Lives
  <2> QED  BY <1>1, <2>1 DEF TypeOK, TrackChanges
<1>2. ASSUME DropTracker
      PROVE  TypeOK'
  <2>1. trackers \in Seq(Trackers) /\ trackers # <<>>
    BY <1>2 DEF TypeOK, DropTracker
  <2>2. trackers' \in Seq(Trackers) /\ Top \in Trackers
    <3> HIDE DEF Trackers
    <3>1. Len(trackers) \in Nat \ {0}
      BY <2>1
    <3>2. trackers' = SubSeq(trackers, 1, Len(trackers) - 1)
      BY <1>2 DEF DropTracker
    <3> QED  BY <2>1, <3>1, <3>2 DEF Top
  <2>3. Top \in Trackers
    BY <2>2
  <2>4. IsMap(entries', EntryIds, Lives)
    <3>1. CASE Top.entry \in DOMAIN entries
      <4> DEFINE vs == entries[Top.entry]
      <4>1. vs \in Seq(Versions) /\ vs # <<>>
        BY <3>1 DEF TypeOK, IsMap
      <4>2. WithHistory(vs, Top.historical) \in Lives
        <5>1. Head(vs) \in Versions /\ Tail(vs) \in Seq(Versions) /\ Top.historical \in Versions
          BY <2>3, <4>1
        <5>2. <<Head(vs), Top.historical>> \in Seq(Versions)
          BY <5>1
        <5>3. Len(<<Head(vs), Top.historical>>) = 2
          OBVIOUS
        <5> HIDE DEF vs
        <5> DEFINE hs == <<Head(vs), Top.historical>>
        <5> HIDE DEF hs
        <5>4. hs \o Tail(vs) \in Seq(Versions) /\ hs \o Tail(vs) # <<>>
          BY <5>1, <5>2, <5>3 DEF hs
        <5> QED  BY <5>4 DEF hs, WithHistory, Lives
      <4>3. entries' = [entries EXCEPT ![Top.entry] = WithHistory(@, Top.historical)]
        BY <1>2, <3>1 DEF DropTracker
      <4> QED  BY <3>1, <4>2, <4>3 DEF TypeOK, IsMap, Lives
    <3>2. CASE Top.entry \notin DOMAIN entries
      BY <1>2, <3>2 DEF TypeOK, DropTracker, Lives
    <3> QED  BY <3>1, <3>2
  <2> QED  BY <1>2, <2>2, <2>4 DEF TypeOK, DropTracker, Lives
<1>3. ASSUME PurgeHistory
      PROVE  TypeOK'
  <2>1. \A e \in DOMAIN entries : <<Live(entries, e)>> \in Lives
    BY VersionTyped DEF TypeOK, Live, Lives, IsMap
  <2>2. IsMap(entries', EntryIds, Lives)
    BY <1>3, <2>1 DEF TypeOK, PurgeHistory, IsMap
  <2> QED  BY <1>3, <2>2 DEF TypeOK, PurgeHistory, Lives
<1> QED  BY <1>1, <1>2, <1>3 DEF TrackerNext

LEMMA OtherTypes ==
    ASSUME TypeOK, OtherNext
    PROVE  TypeOK'
<1>1. ASSUME NEW c \in DOMAIN icons, RemoveIcon(c)
      PROVE  TypeOK'
  <2>1. \A v \in Versions : [v EXCEPT !.icon = IF @ = c THEN None ELSE @] \in Versions
    BY DEF Versions, IconValues
  <2>2. IsMap(entries', EntryIds, Lives)
    BY <1>1, <2>1, VersionTyped, VersionsRewritten DEF TypeOK, RemoveIcon, MapVersions, Lives
  <2>3. IsMap(groups', GroupIds, Groups)
    <3> DEFINE icon(g) == IF g \in icons[c].groups /\ groups[g].icon = c
                            THEN None ELSE groups[g].icon
    <3>1. ASSUME NEW g \in DOMAIN groups
          PROVE  icon(g) \in IconValues /\ groups[g] \in Groups
      BY DEF TypeOK, IsMap, Groups, IconValues
    <3>2. groups' = [g \in DOMAIN groups |-> [groups[g] EXCEPT !.icon = icon(g)]]
      BY <1>1 DEF RemoveIcon
    <3> HIDE DEF icon
    <3>3. \A g \in DOMAIN groups : [groups[g] EXCEPT !.icon = icon(g)] \in Groups
      BY <3>1 DEF Groups
    <3> QED  BY <3>2, <3>3 DEF TypeOK, IsMap
  <2> QED  BY <1>1, <2>2, <2>3, WithoutType DEF TypeOK, RemoveIcon, Lives
<1>2. ASSUME NEW f \in MetaFields, NEW g \in DOMAIN groups \cup {None}, SetMeta(f, g)
      PROVE  TypeOK'
  <2>1. g \in GroupIds \cup {None}
    BY DEF TypeOK, IsMap
  <2> QED  BY <1>2, <2>1 DEF TypeOK, SetMeta
<1>3. ASSUME Tick
      PROVE  TypeOK'
  BY <1>3 DEF TypeOK, Tick, Times
<1> QED  BY <1>1, <1>2, <1>3 DEF OtherNext

LEMMA InitTypes ==
    ASSUME Init
    PROVE  TypeOK
<1>1. PICK d \in OpenedDatabases \cup {NewDatabase} :
        /\ groups = d.groups /\ entries = d.entries
        /\ attachments = d.attachments /\ icons = d.icons
        /\ meta = d.meta /\ deleted = d.deleted
  BY DEF Init
<1>2. IsDatabase(d)
  BY NewDatabaseIsOne, OpenedAssumption
<1>3. trackers = <<>> /\ now \in Nat
  BY BoundsAssumption DEF Init
<1> QED  BY <1>1, <1>2, <1>3 DEF TypeOK, IsDatabase, Times

LEMMA StepTypes ==
    ASSUME TypeOK, [Next]_vars
    PROVE  TypeOK'
<1>1. CASE UNCHANGED vars
  BY <1>1 DEF TypeOK, vars
<1> QED  BY <1>1, GroupTypes, EntryTypes, AttachmentTypes, TrackerTypes, OtherTypes DEF Next

\* The maps keep the types of their keys and values, and every entry keeps a
\* live version, through every sequence of API calls.
THEOREM TypeCorrect == Spec => []TypeOK
<1>1. Init => TypeOK
  BY InitTypes
<1>2. TypeOK /\ [Next]_vars => TypeOK'
  BY StepTypes
<1> QED  BY <1>1, <1>2, PTL DEF Spec

----------------------------------------------------------------------------
(* What a removal leaves behind.                                           *)

LEMMA BuriedNow ==
    ASSUME NEW X, deleted' = Bury(X), NEW x \in X
    PROVE  x \in DOMAIN deleted' /\ deleted'[x] = now
BY DEF Bury

\* An entry's calls leave the metadata alone, the groups where they are, and,
\* but for the removal, the tombstones.
LEMMA EntryFrame ==
    ASSUME EntryNext
    PROVE  /\ meta' = meta /\ DOMAIN groups' = DOMAIN groups
           /\ \/ deleted' = deleted
              \/ \E e \in DOMAIN entries : \E i \in DOMAIN entries[e] : RemoveEntry(e, i, TRUE)
<1>e. PICK e \in DOMAIN entries : \E i \in DOMAIN entries[e], tracked \in BOOLEAN :
        \/ \E c \in Contents : EditEntry(e, i, c, tracked)
        \/ \E q \in DOMAIN groups : MoveEntry(e, i, q, tracked)
        \/ RemoveEntry(e, i, tracked)
        \/ \E icon \in {None} \cup BuiltIns : SetEntryIcon(e, i, icon, tracked)
        \/ \E c \in IconIds : SetEntryIconCustom(e, i, c, tracked)
        \/ \E c \in IconIds : SetEntryIconCustomNew(e, i, c, tracked)
        \/ \E n \in Names, b \in Binaries : AddAttachment(e, i, n, b, tracked)
  BY DEF EntryNext
<1>1. PICK i \in DOMAIN entries[e], tracked \in BOOLEAN :
        \/ \E c \in Contents : EditEntry(e, i, c, tracked)
        \/ \E q \in DOMAIN groups : MoveEntry(e, i, q, tracked)
        \/ RemoveEntry(e, i, tracked)
        \/ \E icon \in {None} \cup BuiltIns : SetEntryIcon(e, i, icon, tracked)
        \/ \E c \in IconIds : SetEntryIconCustom(e, i, c, tracked)
        \/ \E c \in IconIds : SetEntryIconCustomNew(e, i, c, tracked)
        \/ \E n \in Names, b \in Binaries : AddAttachment(e, i, n, b, tracked)
  BY <1>e
<1> DEFINE Framed == meta' = meta /\ DOMAIN groups' = DOMAIN groups /\ deleted' = deleted
<1>2. ASSUME NEW c, \/ EditEntry(e, i, c, tracked) \/ SetEntryIcon(e, i, c, tracked)
                    \/ SetEntryIconCustom(e, i, c, tracked) \/ SetEntryIconCustomNew(e, i, c, tracked)
      PROVE  Framed
  BY <1>2 DEF EditEntry, SetEntryIcon, SetEntryIconCustom, SetEntryIconCustomNew
<1>3. ASSUME NEW q, MoveEntry(e, i, q, tracked)
      PROVE  Framed
  BY <1>3 DEF MoveEntry, RelistEntry
<1>4. ASSUME RemoveEntry(e, i, tracked)
      PROVE  meta' = meta /\ DOMAIN groups' = DOMAIN groups /\ (Framed \/ tracked = TRUE)
  BY <1>4 DEF RemoveEntry, UnlistEntries
<1>5. ASSUME NEW n, NEW b, AddAttachment(e, i, n, b, tracked)
      PROVE  Framed
  BY <1>5 DEF AddAttachment
<1> QED  BY <1>1, <1>2, <1>3, <1>4, <1>5

\* Nothing but the two tracked removals touches the tombstones.
LEMMA WhoBuries ==
    ASSUME [Next]_vars, deleted' # deleted
    PROVE  \/ \E g \in DOMAIN groups : TrackedRemoveGroup(g)
           \/ \E e \in DOMAIN entries : \E i \in DOMAIN entries[e] : RemoveEntry(e, i, TRUE)
<1>1. \/ GroupNext \/ EntryNext
  <2>1. Next
    BY DEF vars
  <2>2. ~ AttachmentNext
    BY DEF AttachmentNext, RemoveAttachmentByName, RemoveAttachmentById, EditAttachment,
           RemoveAttachment, CompactAttachments
  <2>3. ~ TrackerNext
    BY DEF TrackerNext, TrackChanges, DropTracker, PurgeHistory
  <2>4. ~ OtherNext
    BY DEF OtherNext, RemoveIcon, SetMeta, Tick
  <2> QED  BY <2>1, <2>2, <2>3, <2>4 DEF Next
<1>2. CASE GroupNext
  BY <1>2 DEF GroupNext, AddGroup, AddEntry, EditGroup, SetGroupIcon, SetGroupIconCustom,
              SetGroupIconCustomNew, MoveGroup, RemoveGroup
<1>3. CASE EntryNext
  BY <1>3, EntryFrame
<1> QED  BY <1>1, <1>2, <1>3

\* A tracked removal leaves a tombstone, of its own time, for everything that it
\* takes away (GroupTrack::remove and EntryTrack::remove).
THEOREM EverythingTakenIsBuried == Spec => TombstonesComplete
<1> DEFINE Buried ==
        \A x \in (DOMAIN groups \ DOMAIN groups') \cup (DOMAIN entries \ DOMAIN entries') :
          (TrackedRemoval \/ deleted' # deleted) => x \in DOMAIN deleted' /\ deleted'[x] = now
<1>1. ASSUME [Next]_vars
      PROVE  Buried
  <2> SUFFICES ASSUME TrackedRemoval \/ deleted' # deleted,
                      NEW x \in (DOMAIN groups \ DOMAIN groups')
                                    \cup (DOMAIN entries \ DOMAIN entries')
               PROVE  x \in DOMAIN deleted' /\ deleted'[x] = now
    OBVIOUS
  <2>1. CASE \E g \in DOMAIN groups : TrackedRemoveGroup(g)
    <3>1. PICK g \in DOMAIN groups : TrackedRemoveGroup(g)
      BY <2>1
    <3> DEFINE S == Subtree(groups, g)
               E == EntriesUnder(groups, S) \cap DOMAIN entries
    <3>2. RemoveSubtree(g, S, E) /\ deleted' = Bury(S \cup E)
      BY <3>1 DEF TrackedRemoveGroup
    <3> HIDE DEF S, E
    <3>3. DOMAIN groups' = DOMAIN groups \ S /\ DOMAIN entries' = DOMAIN entries \ E
      BY <3>2 DEF RemoveSubtree, UnlistEntries, DropGroups, Without
    <3>4. x \in S \cup E
      BY <3>3
    <3> QED  BY <3>2, <3>4, BuriedNow
  <2>2. CASE \E e \in DOMAIN entries : \E i \in DOMAIN entries[e] : RemoveEntry(e, i, TRUE)
    <3>1. PICK e \in DOMAIN entries : \E i \in DOMAIN entries[e] : RemoveEntry(e, i, TRUE)
      BY <2>2
    <3>2. /\ groups' = UnlistEntries(groups, entries, {e})
          /\ entries' = Without(entries, {e})
          /\ deleted' = Bury({e})
      BY <3>1 DEF RemoveEntry
    <3>3. DOMAIN groups' = DOMAIN groups /\ DOMAIN entries' = DOMAIN entries \ {e}
      BY <3>2 DEF UnlistEntries, Without
    <3>4. x \in {e}
      BY <3>3
    <3> QED  BY <3>2, <3>4, BuriedNow
  <2> QED  BY <1>1, <2>1, <2>2, WhoBuries DEF TrackedRemoval
<1>2. [Next]_vars => [Buried]_vars
  BY <1>1
<1>3. [][Buried]_vars => TombstonesComplete
  BY DEF TombstonesComplete
<1> QED  BY <1>2, <1>3, PTL DEF Spec

\* No call but the removals takes a group out of the map.
LEMMA WhoTakesGroups ==
    ASSUME [Next]_vars, ~ (DOMAIN groups \subseteq DOMAIN groups')
    PROVE  \E g \in DOMAIN groups : RemoveGroup(g) \/ TrackedRemoveGroup(g)
<1>1. Next
  BY DEF vars
<1>2. ~ EntryNext
  BY EntryFrame
<1>3. ~ AttachmentNext
  BY DEF AttachmentNext, RemoveAttachmentByName, RemoveAttachmentById, EditAttachment,
         RemoveAttachment, CompactAttachments
<1>4. ~ TrackerNext
  BY DEF TrackerNext, TrackChanges, DropTracker, PurgeHistory
<1>5. ~ OtherNext
  BY DEF OtherNext, RemoveIcon, SetMeta, Tick
<1>6. GroupNext
  BY <1>1, <1>2, <1>3, <1>4, <1>5 DEF Next
<1>7. \A g, q \in DOMAIN groups, tracked \in BOOLEAN :
         MoveGroup(g, q, tracked) => DOMAIN groups' = DOMAIN groups
  BY DEF MoveGroup, MoveGroupTo
<1>8. \A p \in DOMAIN groups : \A g : AddGroup(p, g) => DOMAIN groups' = DOMAIN groups \cup {g}
  BY DEF AddGroup, AddGroupTo, Put
<1> QED  BY <1>6, <1>7, <1>8 DEF GroupNext, AddEntry, EditGroup, SetGroupIcon, SetGroupIconCustom,
              SetGroupIconCustomNew

\* Nor does any but SetMeta and the removal without tombstones touch the metadata.
LEMMA WhoSetsMeta ==
    ASSUME [Next]_vars, meta' # meta
    PROVE  \/ \E g \in DOMAIN groups : RemoveGroup(g)
           \/ \E f \in MetaFields, g \in DOMAIN groups \cup {None} : SetMeta(f, g)
<1>1. Next
  BY DEF vars
<1>2. ~ EntryNext
  BY EntryFrame
<1>3. ~ AttachmentNext
  BY DEF AttachmentNext, RemoveAttachmentByName, RemoveAttachmentById, EditAttachment,
         RemoveAttachment, CompactAttachments
<1>4. ~ TrackerNext
  BY DEF TrackerNext, TrackChanges, DropTracker, PurgeHistory
<1>5. CASE OtherNext
  BY <1>5 DEF OtherNext, RemoveIcon, Tick
<1>6. CASE GroupNext
  BY <1>6 DEF GroupNext, AddGroup, AddEntry, EditGroup, SetGroupIcon, SetGroupIconCustom,
              SetGroupIconCustomNew, MoveGroup, TrackedRemoveGroup
<1> QED  BY <1>1, <1>2, <1>3, <1>4, <1>5, <1>6 DEF Next

\* A field of Meta that names a group names one still after any call that leaves
\* no tombstone for it, or none (GroupMut::remove).
THEOREM MetaIsCleared == Spec => RemovalClearsMeta
<1> DEFINE Cleared == \A f \in MetaFields :
          (meta[f] \in DOMAIN groups /\ meta[f] \notin DOMAIN deleted')
              => meta'[f] \in DOMAIN groups' \cup {None}
<1>1. ASSUME TypeOK, [Next]_vars
      PROVE  Cleared
  <2> SUFFICES ASSUME NEW f \in MetaFields, meta[f] \in DOMAIN groups,
                      meta[f] \notin DOMAIN deleted'
               PROVE  meta'[f] \in DOMAIN groups' \cup {None}
    OBVIOUS
  <2>1. ASSUME NEW g \in DOMAIN groups, RemoveGroup(g)
        PROVE  meta'[f] \in DOMAIN groups' \cup {None}
    <3> DEFINE S == Subtree(groups, g)
    <3>1. PICK E : RemoveSubtree(g, S, E) /\ meta' = ClearedMeta(g, S)
      BY <2>1 DEF RemoveGroup
    <3> HIDE DEF S
    <3>2. DOMAIN groups' = DOMAIN groups \ S
      BY <3>1 DEF RemoveSubtree, UnlistEntries, DropGroups
    <3>3. meta'[f] = IF meta[f] \in S THEN None ELSE meta[f]
      BY <3>1 DEF ClearedMeta
    <3> QED  BY <3>2, <3>3
  <2>2. ASSUME NEW g \in DOMAIN groups, TrackedRemoveGroup(g)
        PROVE  meta'[f] \in DOMAIN groups' \cup {None}
    <3> DEFINE S == Subtree(groups, g)
               E == EntriesUnder(groups, S) \cap DOMAIN entries
    <3>1. RemoveSubtree(g, S, E) /\ deleted' = Bury(S \cup E) /\ meta' = meta
      BY <2>2 DEF TrackedRemoveGroup
    <3> HIDE DEF S, E
    <3>2. DOMAIN groups' = DOMAIN groups \ S
      BY <3>1 DEF RemoveSubtree, UnlistEntries, DropGroups
    <3>3. meta[f] \notin S
      BY <3>1, BuriedNow
    <3> QED  BY <3>1, <3>2, <3>3
  <2>3. ASSUME NEW h \in MetaFields, NEW g \in DOMAIN groups \cup {None}, SetMeta(h, g)
        PROVE  meta'[f] \in DOMAIN groups' \cup {None}
    BY <2>3 DEF SetMeta, TypeOK
  <2>4. CASE meta' = meta /\ DOMAIN groups \subseteq DOMAIN groups'
    BY <2>4
  <2> QED  BY <1>1, <2>1, <2>2, <2>3, <2>4, WhoTakesGroups, WhoSetsMeta
<1>2. TypeOK /\ [Next]_vars => [Cleared]_vars
  BY <1>1
<1>3. [][Cleared]_vars => RemovalClearsMeta
  BY DEF RemovalClearsMeta
<1>4. Spec => []TypeOK
  BY TypeCorrect
<1> QED  BY <1>2, <1>3, <1>4, PTL DEF Spec

----------------------------------------------------------------------------
(* Times of modification.                                                  *)

\* The versions stay where they are; the live one may have been stamped.
Stays(es, fs) ==
    /\ DOMAIN fs = DOMAIN es
    /\ \A e \in DOMAIN es :
          /\ DOMAIN fs[e] = DOMAIN es[e]
          /\ \A i \in DOMAIN es[e] :
                \/ fs[e][i].mtime = es[e][i].mtime
                \/ i = 1 /\ fs[e][i].mtime = now

\* A version of a call that stamps or does not stamp it
StaysAt(i, v, w) == w.mtime = v.mtime \/ (i = 1 /\ w.mtime = now)

LEMMA VersionStays ==
    ASSUME NEW es, IsMap(es, EntryIds, Lives), NEW e \in DOMAIN es, NEW i \in DOMAIN es[e],
           NEW w, StaysAt(i, es[e][i], w)
    PROVE  Stays(es, [es EXCEPT ![e][i] = w])
<1> DEFINE fs == [es EXCEPT ![e][i] = w]
<1>1. DOMAIN fs = DOMAIN es
  OBVIOUS
<1>2. ASSUME NEW x \in DOMAIN es
      PROVE  /\ DOMAIN fs[x] = DOMAIN es[x]
             /\ \A j \in DOMAIN es[x] : fs[x][j] = IF x = e /\ j = i THEN w ELSE es[x][j]
  OBVIOUS
<1> HIDE DEF fs
<1>3. ASSUME NEW x \in DOMAIN es, NEW j \in DOMAIN es[x]
      PROVE  StaysAt(j, es[x][j], fs[x][j])
  <2>1. CASE x = e /\ j = i
    BY <1>2, <2>1
  <2>2. CASE ~ (x = e /\ j = i)
    BY <1>2, <2>2 DEF StaysAt
  <2> QED  BY <2>1, <2>2
<1>4. Stays(es, fs)
  BY <1>1, <1>2, <1>3 DEF Stays, StaysAt
<1> QED  BY <1>4 DEF fs

\* The same of a change of all versions that does not touch their times
LEMMA AllStay ==
    ASSUME NEW es, NEW fs, DOMAIN fs = DOMAIN es,
           \A e \in DOMAIN es : /\ DOMAIN fs[e] = DOMAIN es[e]
                                /\ \A i \in DOMAIN es[e] : fs[e][i].mtime = es[e][i].mtime
    PROVE  Stays(es, fs)
BY DEF Stays

LEMMA EntryTimes ==
    ASSUME TypeOK, EntryNext
    PROVE  /\ now' = now
           /\ \/ Stays(entries, entries') /\ trackers' = trackers
              \/ /\ \E E : entries' = Without(entries, E)
                 /\ \/ trackers' = trackers
                    \/ trackers # <<>> /\ trackers' = SubSeq(trackers, 1, Len(trackers) - 1)
<1>t. IsMap(entries, EntryIds, Lives)
  BY DEF TypeOK, Lives
<1>e. PICK e \in DOMAIN entries : \E i \in DOMAIN entries[e], tracked \in BOOLEAN :
        \/ \E c \in Contents : EditEntry(e, i, c, tracked)
        \/ \E q \in DOMAIN groups : MoveEntry(e, i, q, tracked)
        \/ RemoveEntry(e, i, tracked)
        \/ \E icon \in {None} \cup BuiltIns : SetEntryIcon(e, i, icon, tracked)
        \/ \E c \in IconIds : SetEntryIconCustom(e, i, c, tracked)
        \/ \E c \in IconIds : SetEntryIconCustomNew(e, i, c, tracked)
        \/ \E n \in Names, b \in Binaries : AddAttachment(e, i, n, b, tracked)
  BY DEF EntryNext
<1>1. PICK i \in DOMAIN entries[e], tracked \in BOOLEAN :
        \/ \E c \in Contents : EditEntry(e, i, c, tracked)
        \/ \E q \in DOMAIN groups : MoveEntry(e, i, q, tracked)
        \/ RemoveEntry(e, i, tracked)
        \/ \E icon \in {None} \cup BuiltIns : SetEntryIcon(e, i, icon, tracked)
        \/ \E c \in IconIds : SetEntryIconCustom(e, i, c, tracked)
        \/ \E c \in IconIds : SetEntryIconCustomNew(e, i, c, tracked)
        \/ \E n \in Names, b \in Binaries : AddAttachment(e, i, n, b, tracked)
  BY <1>e
<1> DEFINE v == entries[e][i]
           u == Stamped(v, tracked)
<1>2. v \in Versions
  BY <1>t, VersionTyped
<1> HIDE DEF v
<1>3. ASSUME CanEdit(e, i, tracked)
      PROVE  u \in Versions /\ StaysAt(i, v, u)
  <2>1. tracked => i = 1
    BY <1>3 DEF CanEdit
  <2> QED  BY <1>2, <2>1 DEF TypeOK, Stamped, Versions, StaysAt
<1> HIDE DEF u
<1>4. ASSUME NEW w, SetVersion(e, i, w), StaysAt(i, v, w)
      PROVE  Stays(entries, entries')
  BY <1>4, <1>t, VersionStays DEF SetVersion, v
<1>5. ASSUME NEW c, EditEntry(e, i, c, tracked)
      PROVE  Stays(entries, entries') /\ trackers' = trackers /\ now' = now
  <2>1. SetVersion(e, i, [u EXCEPT !.content = c]) /\ CanEdit(e, i, tracked)
    BY <1>5 DEF EditEntry, u, v
  <2>2. [u EXCEPT !.content = c].mtime = u.mtime
    BY <1>3, <2>1 DEF Versions
  <2>3. StaysAt(i, v, [u EXCEPT !.content = c])
    BY <1>3, <2>1, <2>2 DEF StaysAt
  <2> QED  BY <1>4, <1>5, <2>1, <2>3 DEF EditEntry
<1>6. ASSUME NEW q, MoveEntry(e, i, q, tracked)
      PROVE  Stays(entries, entries') /\ trackers' = trackers /\ now' = now
  <2> DEFINE t == IF tracked THEN now ELSE v.ltime
             w == [v EXCEPT !.parent = q, !.prev = v.parent, !.ltime = t]
  <2>1. SetVersion(e, i, w)
    BY <1>6 DEF MoveEntry, v
  <2> HIDE DEF t
  <2>2. w.mtime = v.mtime
    BY <1>2 DEF Versions
  <2> HIDE DEF w
  <2>3. StaysAt(i, v, w)
    BY <2>2 DEF StaysAt
  <2> QED  BY <1>4, <1>6, <2>1, <2>3 DEF MoveEntry
<1>7. ASSUME NEW icon, SetEntryIcon(e, i, icon, tracked)
      PROVE  Stays(entries, entries') /\ trackers' = trackers /\ now' = now
  <2>1. SetVersion(e, i, [u EXCEPT !.icon = icon]) /\ CanEdit(e, i, tracked)
    BY <1>7 DEF SetEntryIcon, u, v
  <2>2. [u EXCEPT !.icon = icon].mtime = u.mtime
    BY <1>3, <2>1 DEF Versions
  <2>3. StaysAt(i, v, [u EXCEPT !.icon = icon])
    BY <1>3, <2>1, <2>2 DEF StaysAt
  <2> QED  BY <1>4, <1>7, <2>1, <2>3 DEF SetEntryIcon
<1>8. ASSUME NEW c, \/ SetEntryIconCustom(e, i, c, tracked)
                    \/ SetEntryIconCustomNew(e, i, c, tracked)
      PROVE  Stays(entries, entries') /\ trackers' = trackers /\ now' = now
  <2>1. CanEdit(e, i, tracked) /\ trackers' = trackers /\ now' = now
    BY <1>8 DEF SetEntryIconCustom, SetEntryIconCustomNew
  <2>2. \/ SetVersion(e, i, [u EXCEPT !.icon = c])
        \/ SetVersion(e, i, [v EXCEPT !.icon = None])
    BY <1>8 DEF SetEntryIconCustom, SetEntryIconCustomNew, u, v
  <2>3. [u EXCEPT !.icon = c].mtime = u.mtime /\ [v EXCEPT !.icon = None].mtime = v.mtime
    BY <1>2, <1>3, <2>1 DEF Versions
  <2>4. StaysAt(i, v, [u EXCEPT !.icon = c]) /\ StaysAt(i, v, [v EXCEPT !.icon = None])
    BY <1>3, <2>1, <2>3 DEF StaysAt
  <2> QED  BY <1>4, <2>1, <2>2, <2>4
<1>9. ASSUME NEW n, NEW b, AddAttachment(e, i, n, b, tracked)
      PROVE  Stays(entries, entries') /\ trackers' = trackers /\ now' = now
  <2>1. CanEdit(e, i, tracked) /\ trackers' = trackers /\ now' = now
    BY <1>9 DEF AddAttachment
  <2>2. PICK id \in AttachmentIds :
          LET m == Put(u.attachments, n, id)
          IN SetVersion(e, i, [u EXCEPT !.attachments =
                    IF n \in DOMAIN u.attachments THEN ForgetId(m, u.attachments[n]) ELSE m])
    BY <1>9, <1>2 DEF AddAttachment, u, v
  <2> DEFINE m == Put(u.attachments, n, id)
             names == IF n \in DOMAIN u.attachments THEN ForgetId(m, u.attachments[n]) ELSE m
             w == [u EXCEPT !.attachments = names]
  <2>3. SetVersion(e, i, w)
    BY <2>2
  <2> HIDE DEF names
  <2>4. w.mtime = u.mtime
    BY <1>3, <2>1 DEF Versions
  <2> HIDE DEF w
  <2>5. StaysAt(i, v, w)
    BY <1>3, <2>1, <2>4 DEF StaysAt
  <2> QED  BY <1>4, <2>1, <2>3, <2>5
<1>10. ASSUME RemoveEntry(e, i, tracked)
       PROVE  /\ entries' = Without(entries, {e}) /\ now' = now
              /\ \/ trackers' = trackers
                 \/ trackers # <<>> /\ trackers' = SubSeq(trackers, 1, Len(trackers) - 1)
  BY <1>10 DEF RemoveEntry, CanCallOnMain, CanEdit, IsTracked
<1> QED  BY <1>1, <1>5, <1>6, <1>7, <1>8, <1>9, <1>10

LEMMA GroupTimes ==
    ASSUME TypeOK, GroupNext
    PROVE  /\ now' = now /\ trackers' = trackers
           /\ \/ entries' = entries
              \/ \E E : entries' = Without(entries, E)
              \/ \E p, e : e \notin DOMAIN entries /\ entries' = Put(entries, e, <<NewVersion(p, now)>>)
BY DEF GroupNext, AddGroup, AddEntry, EditGroup, SetGroupIcon, SetGroupIconCustom,
       SetGroupIconCustomNew, MoveGroup, RemoveGroup, TrackedRemoveGroup, RemoveSubtree

LEMMA OtherTimes ==
    ASSUME TypeOK, AttachmentNext \/ OtherNext
    PROVE  /\ trackers' = trackers
           /\ now' \in Nat /\ now <= now'
           /\ Stays(entries, entries')
<1>t. IsMap(entries, EntryIds, Lives) /\ now \in Nat
  BY DEF TypeOK, Lives, Times
<1>1. ASSUME NEW e \in DOMAIN entries, NEW i \in DOMAIN entries[e], NEW n,
             RemoveAttachmentByName(e, i, n) \/ RemoveAttachmentById(e, i, n)
      PROVE  Stays(entries, entries') /\ trackers' = trackers /\ now' = now
  <2> DEFINE v == entries[e][i]
  <2>1. v \in Versions
    BY <1>t, VersionTyped
  <2>2. PICK m : SetVersion(e, i, [v EXCEPT !.attachments = m])
    BY <1>1 DEF RemoveAttachmentByName, RemoveAttachmentById
  <2> DEFINE w == [v EXCEPT !.attachments = m]
  <2>3. entries' = [entries EXCEPT ![e][i] = w]
    BY <2>2 DEF SetVersion
  <2>4. StaysAt(i, entries[e][i], w)
    BY <2>1 DEF Versions, StaysAt
  <2> HIDE DEF w
  <2>5. Stays(entries, entries')
    BY <1>t, <2>3, <2>4, VersionStays
  <2> QED  BY <1>1, <2>5 DEF RemoveAttachmentByName, RemoveAttachmentById
<1>2. ASSUME NEW e \in DOMAIN entries, NEW i \in DOMAIN entries[e], NEW m, NEW icon
      PROVE  /\ [entries[e][i] EXCEPT !.attachments = m].mtime = entries[e][i].mtime
             /\ [entries[e][i] EXCEPT !.icon = icon].mtime = entries[e][i].mtime
  BY <1>t, VersionTyped DEF Versions
<1>3. ASSUME NEW id, RemoveAttachment(id)
      PROVE  Stays(entries, entries') /\ trackers' = trackers /\ now' = now
  <2>1. entries' = [e \in DOMAIN entries |-> [i \in DOMAIN entries[e] |-> 
             [entries[e][i] EXCEPT !.attachments = ForgetId(@, id)]]]
    BY <1>3 DEF RemoveAttachment, MapVersions
  <2>2. ASSUME NEW e \in DOMAIN entries
        PROVE  /\ DOMAIN entries'[e] = DOMAIN entries[e]
               /\ \A i \in DOMAIN entries[e] : entries'[e][i].mtime = entries[e][i].mtime
    BY <1>2, <2>1
  <2>3. DOMAIN entries' = DOMAIN entries
    BY <2>1
  <2>4. Stays(entries, entries')
    BY <2>2, <2>3, AllStay
  <2> QED  BY <1>3, <2>4 DEF RemoveAttachment
<1>4. ASSUME CompactAttachments
      PROVE  Stays(entries, entries') /\ trackers' = trackers /\ now' = now
  <2>1. entries' = [e \in DOMAIN entries |-> [i \in DOMAIN entries[e] |-> 
             [entries[e][i] EXCEPT !.attachments = RemapRefs(@, KeptIds(entries, attachments))]]]
    BY <1>4 DEF CompactAttachments, CompactedEntries, MapVersions
  <2>2. ASSUME NEW e \in DOMAIN entries
        PROVE  /\ DOMAIN entries'[e] = DOMAIN entries[e]
               /\ \A i \in DOMAIN entries[e] : entries'[e][i].mtime = entries[e][i].mtime
    BY <1>2, <2>1
  <2>3. DOMAIN entries' = DOMAIN entries
    BY <2>1
  <2>4. Stays(entries, entries')
    BY <2>2, <2>3, AllStay
  <2> QED  BY <1>4, <2>4 DEF CompactAttachments
<1>5. ASSUME NEW c, RemoveIcon(c)
      PROVE  Stays(entries, entries') /\ trackers' = trackers /\ now' = now
  <2>1. entries' = [e \in DOMAIN entries |-> [i \in DOMAIN entries[e] |-> 
             [entries[e][i] EXCEPT !.icon = IF @ = c THEN None ELSE @]]]
    BY <1>5 DEF RemoveIcon, MapVersions
  <2>2. ASSUME NEW e \in DOMAIN entries
        PROVE  /\ DOMAIN entries'[e] = DOMAIN entries[e]
               /\ \A i \in DOMAIN entries[e] : entries'[e][i].mtime = entries[e][i].mtime
    <3> DEFINE icon(i) == IF entries[e][i].icon = c THEN None ELSE entries[e][i].icon
    <3>1. /\ DOMAIN entries'[e] = DOMAIN entries[e]
          /\ \A i \in DOMAIN entries[e] : entries'[e][i] = [entries[e][i] EXCEPT !.icon = icon(i)]
      BY <2>1
    <3>2. ASSUME NEW i \in DOMAIN entries[e]
          PROVE  entries'[e][i].mtime = entries[e][i].mtime
      <4> DEFINE shown == icon(i)
      <4>1. entries'[e][i] = [entries[e][i] EXCEPT !.icon = shown]
        BY <3>1
      <4> HIDE DEF shown
      <4> QED  BY <1>2, <4>1
    <3> QED  BY <3>1, <3>2
  <2>3. DOMAIN entries' = DOMAIN entries
    BY <2>1
  <2>4. Stays(entries, entries')
    BY <2>2, <2>3, AllStay
  <2> QED  BY <1>5, <2>4 DEF RemoveIcon
<1>6. entries' = entries => Stays(entries, entries')
  BY DEF Stays
<1>7. CASE AttachmentNext
  BY <1>t, <1>1, <1>3, <1>4, <1>6, <1>7 DEF AttachmentNext, EditAttachment
<1>8. CASE OtherNext
  BY <1>t, <1>5, <1>6, <1>8 DEF OtherNext, SetMeta, Tick
<1> QED  BY <1>7, <1>8

----------------------------------------------------------------------------
(* Trackers and histories as sequences.                                    *)

LEMMA TupleDomains ==
    ASSUME NEW v
    PROVE  /\ DOMAIN <<>> = {}
           /\ DOMAIN <<v>> = {1} /\ <<v>>[1] = v
OBVIOUS

\* The tracker on top, and the trackers under it
LEMMA TopOf ==
    ASSUME NEW T, NEW s \in Seq(T), s # <<>>
    PROVE  Len(s) \in Nat \ {0} /\ Len(s) \in DOMAIN s /\ s[Len(s)] \in T
<1>1. Len(s) \in Nat \ {0}
  OBVIOUS
<1> QED  BY <1>1, ElementOfSeq

LEMMA FirstOf ==
    ASSUME NEW T, NEW s \in Seq(T), s # <<>>
    PROVE  1 \in DOMAIN s
<1>1. Len(s) \in Nat \ {0} /\ DOMAIN s = 1 .. Len(s)
  BY TopOf
<1> QED  BY <1>1

LEMMA UnderTop ==
    ASSUME NEW T, NEW s \in Seq(T), s # <<>>
    PROVE  \A k \in DOMAIN SubSeq(s, 1, Len(s) - 1) :
               k \in DOMAIN s /\ SubSeq(s, 1, Len(s) - 1)[k] = s[k] /\ k # Len(s)
<1>1. Len(s) \in Nat \ {0} /\ DOMAIN s = 1 .. Len(s)
  BY TopOf
<1>2. /\ SubSeq(s, 1, Len(s) - 1) \in Seq(T)
      /\ Len(SubSeq(s, 1, Len(s) - 1)) = Len(s) - 1
      /\ \A k \in 1 .. Len(s) - 1 : SubSeq(s, 1, Len(s) - 1)[k] = s[k]
  BY <1>1
<1>3. DOMAIN SubSeq(s, 1, Len(s) - 1) = 1 .. Len(s) - 1
  BY <1>1, <1>2
<1> QED  BY <1>1, <1>2, <1>3

LEMMA TrackersAreSeq == TypeOK => trackers \in Seq([entry : EntryIds, historical : Versions])
BY DEF TypeOK

LEMMA TrackerOpened ==
    ASSUME TypeOK, NEW t \in [entry : EntryIds, historical : Versions],
           trackers' = Append(trackers, t)
    PROVE  /\ trackers'[Len(trackers')] = t
           /\ DOMAIN trackers' = DOMAIN trackers \cup {Len(trackers')}
           /\ \A k \in DOMAIN trackers : trackers'[k] = trackers[k]
<1> DEFINE T == [entry : EntryIds, historical : Versions]
<1>1. trackers \in Seq(T) /\ t \in T
  BY TrackersAreSeq
<1> HIDE DEF T
<1>2. /\ trackers' \in Seq(T) /\ Len(trackers') = Len(trackers) + 1
      /\ trackers'[Len(trackers) + 1] = t
      /\ \A k \in 1 .. Len(trackers) : trackers'[k] = trackers[k]
  BY <1>1, AppendProperties
<1>3. Len(trackers) \in Nat /\ DOMAIN trackers = 1 .. Len(trackers)
  BY <1>1
<1>4. DOMAIN trackers' = 1 .. Len(trackers) + 1
  BY <1>2
<1> QED  BY <1>2, <1>3, <1>4

\* What add_entry makes of a history: one version more, under the live one
LEMMA WithHistoryAt ==
    ASSUME NEW vs \in Lives, NEW h \in Versions
    PROVE  /\ Len(vs) \in Nat \ {0} /\ DOMAIN vs = 1 .. Len(vs)
           /\ Len(WithHistory(vs, h)) = Len(vs) + 1
           /\ DOMAIN WithHistory(vs, h) = 1 .. Len(vs) + 1
           /\ WithHistory(vs, h)[1] = vs[1]
           /\ WithHistory(vs, h)[2] = h
           /\ \A j \in 2 .. Len(vs) : WithHistory(vs, h)[j + 1] = vs[j]
<1>1. vs \in Seq(Versions) /\ Len(vs) \in Nat \ {0} /\ DOMAIN vs = 1 .. Len(vs)
  BY TopOf DEF Lives
<1> DEFINE front == <<vs[1], h>>
           rest  == Tail(vs)
<1>2. front \in Seq(Versions) /\ Len(front) = 2 /\ front[1] = vs[1] /\ front[2] = h
  BY <1>1
<1>3. /\ rest \in Seq(Versions) /\ Len(rest) = Len(vs) - 1
      /\ \A i \in 1 .. Len(vs) - 1 : rest[i] = vs[i + 1]
  BY <1>1
<1>4. WithHistory(vs, h) = front \o rest
  BY <1>1 DEF WithHistory
<1> HIDE DEF front, rest
<1>5. /\ front \o rest \in Seq(Versions)
      /\ Len(front \o rest) = Len(vs) + 1
      /\ \A i \in 1 .. Len(vs) + 1 :
            (front \o rest)[i] = IF i <= 2 THEN front[i] ELSE rest[i - 2]
  <2>1. front \o rest \in Seq(Versions) /\ Len(front \o rest) = Len(front) + Len(rest)
    BY <1>2, <1>3, ConcatProperties
  <2>2. \A i \in 1 .. Len(front) + Len(rest) :
            (front \o rest)[i] = IF i <= Len(front) THEN front[i] ELSE rest[i - Len(front)]
    BY <1>2, <1>3, ConcatProperties
  <2>3. Len(front) + Len(rest) = Len(vs) + 1
    BY <1>1, <1>2, <1>3
  <2> QED  BY <1>2, <2>1, <2>2, <2>3
<1>6. DOMAIN (front \o rest) = 1 .. Len(vs) + 1
  BY <1>5
<1>7. (front \o rest)[1] = vs[1] /\ (front \o rest)[2] = h
  BY <1>1, <1>2, <1>5
<1>8. ASSUME NEW j \in 2 .. Len(vs)
      PROVE  (front \o rest)[j + 1] = vs[j]
  <2>1. j + 1 \in 1 .. Len(vs) + 1 /\ ~ (j + 1 <= 2) /\ j + 1 - 2 = j - 1
        /\ j - 1 \in 1 .. Len(vs) - 1 /\ (j - 1) + 1 = j
    BY <1>1
  <2>2. (front \o rest)[j + 1] = rest[j - 1]
    BY <1>5, <2>1
  <2> QED  BY <1>3, <2>1, <2>2
<1> QED  BY <1>1, <1>4, <1>5, <1>6, <1>7, <1>8

LEMMA SameLength ==
    ASSUME NEW m \in Nat \ {0}, NEW n \in Nat \ {0}, 1 .. m = 1 .. n
    PROVE  m = n
<1>1. m \in 1 .. n /\ n \in 1 .. m
  OBVIOUS
<1> QED  BY <1>1

LEMMA LiveLength ==
    ASSUME NEW es, IsMap(es, EntryIds, Lives), NEW e \in DOMAIN es
    PROVE  /\ es[e] \in Lives /\ Len(es[e]) \in Nat \ {0} /\ DOMAIN es[e] = 1 .. Len(es[e])
           /\ \A i \in 1 .. Len(es[e]) : es[e][i].mtime \in Nat
<1>1. es[e] \in Lives
  BY DEF IsMap
<1>2. es[e] \in Seq(Versions) /\ es[e] # <<>>
  BY <1>1 DEF Lives
<1>3. Len(es[e]) \in Nat \ {0} /\ DOMAIN es[e] = 1 .. Len(es[e])
  BY <1>2, TopOf
<1>4. \A i \in 1 .. Len(es[e]) : es[e][i] \in Versions
  BY <1>2, <1>3
<1> QED  BY <1>1, <1>3, <1>4 DEF Versions, Times

\* The trackers' calls, and what a purge leaves.
LEMMA TrackerTimes ==
    ASSUME TypeOK, TrackerNext
    PROVE  /\ now' = now
           /\ \/ \E e \in DOMAIN entries : \E i \in DOMAIN entries[e] : TrackChanges(e, i)
              \/ DropTracker
              \/ trackers' = trackers /\ entries' = [e \in DOMAIN entries |-> <<Live(entries, e)>>]
BY DEF TrackerNext, TrackChanges, DropTracker, PurgeHistory

\* Any call, as far as versions and times go
LEMMA StepTimes ==
    ASSUME TypeOK, [Next]_vars
    PROVE  /\ now' \in Nat /\ now <= now'
           /\ \/ Stays(entries, entries') /\ trackers' = trackers
              \/ /\ \E E : entries' = Without(entries, E)
                 /\ \/ trackers' = trackers
                    \/ trackers # <<>> /\ trackers' = SubSeq(trackers, 1, Len(trackers) - 1)
              \/ /\ trackers' = trackers
                 /\ \E p, e : e \notin DOMAIN entries
                                /\ entries' = Put(entries, e, <<NewVersion(p, now)>>)
              \/ now' = now /\ \E e \in DOMAIN entries : \E i \in DOMAIN entries[e] : TrackChanges(e, i)
              \/ now' = now /\ DropTracker
              \/ trackers' = trackers /\ entries' = [e \in DOMAIN entries |-> <<Live(entries, e)>>]
<1>1. now \in Nat /\ now <= now
  BY DEF TypeOK, Times
<1>2. entries' = entries => Stays(entries, entries')
  BY DEF Stays
<1>3. CASE UNCHANGED vars
  BY <1>1, <1>2, <1>3 DEF vars
<1>4. CASE GroupNext
  BY <1>1, <1>2, <1>4, GroupTimes
<1>5. CASE EntryNext
  BY <1>1, <1>5, EntryTimes
<1>6. CASE AttachmentNext \/ OtherNext
  BY <1>6, OtherTimes
<1>7. CASE TrackerNext
  BY <1>1, <1>7, TrackerTimes
<1> QED  BY <1>3, <1>4, <1>5, <1>6, <1>7 DEF Next

Kept(vs, ws) ==
    \/ Len(ws) = 1
    \/ /\ Len(ws) >= Len(vs)
       /\ \A i \in 2 .. Len(vs) : ws[Len(ws) - Len(vs) + i].mtime = vs[i].mtime

\* Old versions are kept, in their order: nothing but the purge, or the removal of
\* the entry, takes one out of a history (History::add_entry and all the calls
\* that rewrite versions in place).
THEOREM OldVersionsStay == Spec => HistoryKept
<1> DEFINE Stay == \A e \in DOMAIN entries \cap DOMAIN entries' :
          LET old == Len(entries[e]) new == Len(entries'[e])
          IN \/ new = 1
             \/ /\ new >= old
                /\ \A i \in 2 .. old :
                      entries'[e][new - old + i].mtime = entries[e][i].mtime
<1>1. ASSUME TypeOK, TypeOK', [Next]_vars
      PROVE  Stay
  <2> SUFFICES ASSUME NEW e \in DOMAIN entries, e \in DOMAIN entries'
               PROVE  Kept(entries[e], entries'[e])
    BY DEF Kept
  <2>t. IsMap(entries, EntryIds, Lives) /\ IsMap(entries', EntryIds, Lives)
    BY <1>1 DEF TypeOK, Lives
  <2>1. /\ entries[e] \in Lives /\ Len(entries[e]) \in Nat \ {0}
        /\ DOMAIN entries[e] = 1 .. Len(entries[e])
        /\ Len(entries'[e]) \in Nat \ {0} /\ DOMAIN entries'[e] = 1 .. Len(entries'[e])
    BY <2>t, LiveLength
  <2>2. ASSUME Len(entries'[e]) = Len(entries[e]),
               \A i \in 2 .. Len(entries[e]) : entries'[e][i].mtime = entries[e][i].mtime
        PROVE  Kept(entries[e], entries'[e])
    <3>1. \A i \in 2 .. Len(entries[e]) : Len(entries'[e]) - Len(entries[e]) + i = i
      BY <2>1, <2>2
    <3> QED  BY <2>1, <2>2, <3>1 DEF Kept
  <2>3. CASE Stays(entries, entries')
    <3>1. DOMAIN entries'[e] = DOMAIN entries[e]
      BY <2>3 DEF Stays
    <3>2. Len(entries'[e]) = Len(entries[e])
      <4>1. 1 .. Len(entries'[e]) = 1 .. Len(entries[e])
        BY <2>1, <3>1
      <4> QED  BY <2>1, <4>1, SameLength
    <3>3. \A i \in 2 .. Len(entries[e]) : i \in DOMAIN entries[e] /\ i # 1
      BY <2>1
    <3>4. \A i \in 2 .. Len(entries[e]) : entries'[e][i].mtime = entries[e][i].mtime
      BY <2>3, <3>3 DEF Stays
    <3> QED  BY <2>2, <3>2, <3>4
  <2>4. CASE entries'[e] = entries[e]
    BY <2>2, <2>4
  <2>5. CASE entries' = [x \in DOMAIN entries |-> <<Live(entries, x)>>]
    <3>1. entries'[e] = <<Live(entries, e)>>
      BY <2>5
    <3>2. Len(entries'[e]) = 1
      BY <3>1
    <3> QED  BY <3>2 DEF Kept
  <2>6. CASE DropTracker
    <3>1. CASE Top.entry \in DOMAIN entries /\ Top.entry = e
      <4>1. Top \in [entry : EntryIds, historical : Versions]
        <5>1. trackers # <<>> /\ trackers \in Seq([entry : EntryIds, historical : Versions])
          BY <1>1, <2>6 DEF DropTracker, TypeOK
        <5> QED  BY <5>1, TopOf DEF Top
      <4> DEFINE h == Top.historical
                 n == Len(entries[e])
      <4>2. h \in Versions
        BY <4>1
      <4>3. entries'[e] = WithHistory(entries[e], h)
        BY <2>6, <3>1 DEF DropTracker
      <4> HIDE DEF h
      <4>4. /\ Len(entries'[e]) = n + 1
            /\ \A j \in 2 .. n : entries'[e][j + 1] = entries[e][j]
        <5>1. /\ Len(WithHistory(entries[e], h)) = Len(entries[e]) + 1
              /\ \A j \in 2 .. Len(entries[e]) : WithHistory(entries[e], h)[j + 1] = entries[e][j]
          BY <2>1, <4>2, WithHistoryAt
        <5> QED  BY <4>3, <5>1
      <4>5. n \in Nat
        BY <2>1
      <4> HIDE DEF n
      <4>6. \A j \in 2 .. n : Len(entries'[e]) - n + j = j + 1
        BY <4>4, <4>5
      <4>7. n + 1 >= n
        BY <4>5
      <4> QED  BY <4>4, <4>6, <4>7 DEF Kept, n
    <3>2. CASE ~ (Top.entry \in DOMAIN entries /\ Top.entry = e)
      BY <2>4, <2>6, <3>2 DEF DropTracker
    <3> QED  BY <3>1, <3>2
  <2>7. ASSUME NEW E, entries' = Without(entries, E)
        PROVE  entries'[e] = entries[e]
    BY <2>7 DEF Without
  <2>8. ASSUME NEW p, NEW x, x \notin DOMAIN entries, entries' = Put(entries, x, <<NewVersion(p, now)>>)
        PROVE  entries'[e] = entries[e]
    BY <2>8 DEF Put
  <2>9. ASSUME NEW x, NEW i, TrackChanges(x, i)
        PROVE  entries'[e] = entries[e]
    BY <2>9 DEF TrackChanges
  <2> QED  BY <1>1, <2>3, <2>4, <2>5, <2>6, <2>7, <2>8, <2>9, StepTimes
<1>2. TypeOK /\ TypeOK' /\ [Next]_vars => [Stay]_vars
  BY <1>1
<1>3. [][Stay]_vars => HistoryKept
  BY DEF HistoryKept
<1>4. Spec => []TypeOK
  BY TypeCorrect
<1> QED  BY <1>2, <1>3, <1>4, PTL DEF Spec

----------------------------------------------------------------------------
(* The order of the versions.                                              *)

\* Newest first, and none newer than t
InOrder(vs, t) ==
    /\ vs[1].mtime <= t
    /\ \A i \in 2 .. Len(vs) : vs[i].mtime <= vs[i - 1].mtime

\* A snapshot has its place between the live version and the history.
Fits(h, vs) ==
    /\ h.mtime <= vs[1].mtime
    /\ Len(vs) >= 2 => vs[2].mtime <= h.mtime

VersionsInOrder == \A e \in DOMAIN entries : InOrder(entries[e], now)

SnapshotsFit ==
    \A k \in DOMAIN trackers :
        /\ trackers[k].historical.mtime <= now
        /\ trackers[k].entry \in DOMAIN entries
              => Fits(trackers[k].historical, entries[trackers[k].entry])

\* No entry has two trackers.
NoNesting ==
    \A j, k \in DOMAIN trackers : trackers[j].entry = trackers[k].entry => j = k

LEMMA OrderStays ==
    ASSUME TypeOK, TypeOK', Stays(entries, entries'), NEW e \in DOMAIN entries,
           InOrder(entries[e], now), now <= now'
    PROVE  /\ InOrder(entries'[e], now')
           /\ \A h \in Versions : Fits(h, entries[e]) /\ h.mtime <= now => Fits(h, entries'[e])
<1> DEFINE vs == entries[e]
           ws == entries'[e]
           n  == Len(vs)
<1>1. now \in Nat /\ now' \in Nat
  BY DEF TypeOK, Times
<1>2. /\ n \in Nat \ {0} /\ DOMAIN vs = 1 .. n
      /\ \A i \in 1 .. n : vs[i].mtime \in Nat
  BY LiveLength DEF TypeOK, Lives
<1>3. e \in DOMAIN entries' /\ DOMAIN ws = DOMAIN vs
  BY DEF Stays
<1>4. /\ Len(ws) \in Nat \ {0} /\ DOMAIN ws = 1 .. Len(ws)
      /\ \A i \in 1 .. Len(ws) : ws[i].mtime \in Nat
  BY <1>3, LiveLength DEF TypeOK, Lives
<1>5. Len(ws) = n
  BY <1>2, <1>3, <1>4, SameLength
<1>6. \A i \in 1 .. n : ws[i].mtime = vs[i].mtime \/ (i = 1 /\ ws[i].mtime = now)
  BY <1>2 DEF Stays
<1>7. vs[1].mtime <= now /\ \A i \in 2 .. n : vs[i].mtime <= vs[i - 1].mtime
  BY DEF InOrder
<1> HIDE DEF vs, ws, n
<1>8. 1 \in 1 .. n /\ \A i \in 2 .. n : i \in 1 .. n /\ i - 1 \in 1 .. n /\ i # 1
  BY <1>2
<1>9. vs[1].mtime <= ws[1].mtime /\ ws[1].mtime <= now
  BY <1>1, <1>2, <1>6, <1>7, <1>8
<1>10. \A i \in 1 .. n : vs[i].mtime <= ws[i].mtime
  BY <1>2, <1>6, <1>9
<1>11. \A i \in 2 .. n : ws[i].mtime = vs[i].mtime
  BY <1>6, <1>8
<1>12. ASSUME NEW i \in 2 .. n
       PROVE  ws[i].mtime <= ws[i - 1].mtime
  <2>1. vs[i].mtime \in Nat /\ vs[i - 1].mtime \in Nat /\ ws[i - 1].mtime \in Nat
    BY <1>2, <1>4, <1>5, <1>8
  <2>2. ws[i].mtime = vs[i].mtime /\ vs[i].mtime <= vs[i - 1].mtime
        /\ vs[i - 1].mtime <= ws[i - 1].mtime
    BY <1>7, <1>8, <1>10, <1>11
  <2> QED  BY <2>1, <2>2
<1>13. ws[1].mtime <= now'
  BY <1>1, <1>4, <1>5, <1>8, <1>9
<1>14. InOrder(ws, now')
  BY <1>5, <1>12, <1>13 DEF InOrder
<1>15. ASSUME NEW h \in Versions, Fits(h, vs)
       PROVE  Fits(h, ws)
  <2>1. h.mtime \in Nat
    BY DEF Versions, Times
  <2>2. h.mtime <= ws[1].mtime
    BY <1>2, <1>4, <1>5, <1>8, <1>9, <1>15, <2>1 DEF Fits
  <2>3. n >= 2 => ws[2].mtime <= h.mtime
    <3>1. SUFFICES ASSUME n >= 2
                   PROVE  ws[2].mtime <= h.mtime
      OBVIOUS
    <3>2. 2 \in 2 .. n /\ Len(vs) >= 2
      BY <1>2, <3>1 DEF n
    <3>3. ws[2].mtime = vs[2].mtime
      BY <1>11, <3>2
    <3> QED  BY <1>15, <3>2, <3>3 DEF Fits
  <2> QED  BY <1>5, <2>2, <2>3 DEF Fits
<1> QED  BY <1>14, <1>15 DEF vs, ws

\* A snapshot that is dropped goes where it fits.
LEMMA OrderGrows ==
    ASSUME NEW vs \in Lives, NEW h \in Versions, NEW t, InOrder(vs, t), Fits(h, vs)
    PROVE  InOrder(WithHistory(vs, h), t)
<1> DEFINE ws == WithHistory(vs, h)
           n  == Len(vs)
<1>1. /\ n \in Nat \ {0} /\ Len(ws) = n + 1
      /\ ws[1] = vs[1] /\ ws[2] = h
      /\ \A j \in 2 .. n : ws[j + 1] = vs[j]
  BY WithHistoryAt
<1>2. /\ vs[1].mtime <= t
      /\ \A i \in 2 .. n : vs[i].mtime <= vs[i - 1].mtime
      /\ h.mtime <= vs[1].mtime /\ (n >= 2 => vs[2].mtime <= h.mtime)
  BY DEF InOrder, Fits
<1> HIDE DEF ws, n
<1>3. ASSUME NEW i \in 2 .. n + 1
      PROVE  ws[i].mtime <= ws[i - 1].mtime
  <2>1. CASE i = 2
    BY <1>1, <1>2, <2>1
  <2>2. CASE i = 3
    <3>1. n >= 2 /\ 2 \in 2 .. n /\ 2 + 1 = 3
      BY <1>1, <2>2
    <3>2. ws[3] = vs[2] /\ i - 1 = 2
      BY <1>1, <2>2, <3>1
    <3> QED  BY <1>1, <1>2, <2>2, <3>1, <3>2
  <2>3. CASE i > 3
    <3> DEFINE j == i - 1
               k == i - 2
    <3>1. /\ j \in 2 .. n /\ j + 1 = i
          /\ k \in 2 .. n /\ k + 1 = i - 1 /\ j - 1 = k
      BY <1>1, <2>3
    <3> HIDE DEF j, k
    <3>2. ws[i] = vs[j] /\ ws[i - 1] = vs[k]
      BY <1>1, <3>1
    <3>3. vs[j].mtime <= vs[k].mtime
      BY <1>2, <3>1
    <3> QED  BY <3>2, <3>3
  <2> QED  BY <1>1, <2>1, <2>2, <2>3
<1>4. ws[1].mtime <= t
  BY <1>1, <1>2
<1>5. InOrder(ws, t)
  BY <1>1, <1>3, <1>4 DEF InOrder
<1> QED  BY <1>5 DEF ws

LEMMA OneVersionInOrder ==
    ASSUME NEW v, NEW t, v.mtime <= t
    PROVE  /\ InOrder(<<v>>, t)
           /\ \A h : h.mtime <= v.mtime => Fits(h, <<v>>)
<1>1. Len(<<v>>) = 1 /\ <<v>>[1] = v
  OBVIOUS
<1>2. 2 .. 1 = {} /\ ~ (1 >= 2)
  OBVIOUS
<1> QED  BY <1>1, <1>2 DEF InOrder, Fits

LEMMA LaterIsInOrder ==
    ASSUME TypeOK, NEW e \in DOMAIN entries, InOrder(entries[e], now), NEW t \in Nat, now <= t
    PROVE  InOrder(entries[e], t)
<1>1. now \in Nat
  BY DEF TypeOK, Times
<1>2. entries[e][1].mtime \in Nat
  <2>1. Len(entries[e]) \in Nat \ {0} /\ \A i \in 1 .. Len(entries[e]) : entries[e][i].mtime \in Nat
    BY LiveLength DEF TypeOK, Lives
  <2>2. 1 \in 1 .. Len(entries[e])
    BY <2>1
  <2> QED  BY <2>1, <2>2
<1> QED  BY <1>1, <1>2 DEF InOrder

LEMMA SnapshotTyped ==
    ASSUME TypeOK, NEW k \in DOMAIN trackers
    PROVE  trackers[k].entry \in EntryIds /\ trackers[k].historical \in Versions
<1> DEFINE T == [entry : EntryIds, historical : Versions]
<1>1. trackers \in Seq(T)
  BY DEF TypeOK
<1>2. trackers[k] \in T
  <2> HIDE DEF T
  <2> QED  BY <1>1
<1> QED  BY <1>2

\* The calls that leave the trackers alone
LEMMA OrderWithTrackers ==
    ASSUME TypeOK, TypeOK', VersionsInOrder, SnapshotsFit, [Next]_vars, trackers' = trackers,
           ~ DropTracker, \A e, i : ~ TrackChanges(e, i)
    PROVE  VersionsInOrder' /\ SnapshotsFit'
<1>t. now \in Nat /\ now' \in Nat /\ now <= now'
  BY StepTimes DEF TypeOK, Times
<1>1. SUFFICES ASSUME NEW x \in DOMAIN entries'
               PROVE  /\ InOrder(entries'[x], now')
                      /\ \A h \in Versions :
                            h.mtime <= now /\ (x \in DOMAIN entries => Fits(h, entries[x]))
                                => Fits(h, entries'[x])
  <2>1. ASSUME NEW k \in DOMAIN trackers
        PROVE  /\ trackers[k].historical \in Versions
               /\ trackers[k].historical.mtime <= now
               /\ trackers[k].historical.mtime <= now'
               /\ trackers[k].entry \in DOMAIN entries
                     => Fits(trackers[k].historical, entries[trackers[k].entry])
    <3>1. trackers[k].historical \in Versions /\ trackers[k].historical.mtime <= now
      BY SnapshotTyped DEF SnapshotsFit
    <3>2. trackers[k].historical.mtime \in Nat
      BY <3>1 DEF Versions, Times
    <3> QED  BY <1>t, <3>1, <3>2 DEF SnapshotsFit
  <2> QED  BY <2>1 DEF VersionsInOrder, SnapshotsFit
<1>2. CASE Stays(entries, entries')
  <2>1. x \in DOMAIN entries
    BY <1>2 DEF Stays
  <2>2. InOrder(entries[x], now)
    BY <2>1 DEF VersionsInOrder
  <2> QED  BY <1>2, <1>t, <2>1, <2>2, OrderStays
<1>3. CASE x \in DOMAIN entries /\ entries'[x] = entries[x]
  <2>1. InOrder(entries[x], now)
    BY <1>3 DEF VersionsInOrder
  <2> QED  BY <1>3, <1>t, <2>1, LaterIsInOrder
<1>4. ASSUME NEW E, entries' = Without(entries, E)
      PROVE  x \in DOMAIN entries /\ entries'[x] = entries[x]
  BY <1>4 DEF Without
<1>5. ASSUME NEW p, NEW e, e \notin DOMAIN entries, entries' = Put(entries, e, <<NewVersion(p, now)>>)
      PROVE  \/ x \in DOMAIN entries /\ entries'[x] = entries[x]
             \/ entries'[x] = <<NewVersion(p, now)>>
  BY <1>5 DEF Put
<1>6. ASSUME NEW p, entries'[x] = <<NewVersion(p, now)>>
      PROVE  /\ InOrder(entries'[x], now')
             /\ \A h \in Versions : h.mtime <= now => Fits(h, entries'[x])
  <2>1. NewVersion(p, now).mtime = now
    BY DEF NewVersion
  <2> QED  BY <1>6, <1>t, <2>1, OneVersionInOrder
<1>7. CASE entries' = [e \in DOMAIN entries |-> <<Live(entries, e)>>]
  <2>1. x \in DOMAIN entries /\ entries'[x] = <<entries[x][1]>>
    BY <1>7 DEF Live
  <2>2. InOrder(entries[x], now')
    <3>1. InOrder(entries[x], now)
      BY <2>1 DEF VersionsInOrder
    <3> QED  BY <1>t, <2>1, <3>1, LaterIsInOrder
  <2>3. entries[x][1].mtime <= now' /\ \A h : Fits(h, entries[x]) => h.mtime <= entries[x][1].mtime
    BY <2>2 DEF InOrder, Fits
  <2> QED  BY <2>1, <2>3, OneVersionInOrder
<1> QED  BY <1>2, <1>3, <1>4, <1>5, <1>6, <1>7, StepTimes

LEMMA LiveFits ==
    ASSUME NEW vs \in Lives, NEW t, InOrder(vs, t)
    PROVE  vs[1].mtime <= t /\ Fits(vs[1], vs)
<1>1. vs \in Seq(Versions) /\ Len(vs) \in Nat \ {0} /\ vs[1] \in Versions
  BY TopOf, FirstOf DEF Lives
<1>2. vs[1].mtime \in Nat
  BY <1>1 DEF Versions, Times
<1>3. vs[1].mtime <= vs[1].mtime
  BY <1>2
<1>4. Len(vs) >= 2 => 2 \in 2 .. Len(vs) /\ 2 - 1 = 1
  BY <1>1
<1> QED  BY <1>3, <1>4 DEF InOrder, Fits

\* A tracker is opened on the live version, which nothing in the entry is newer than.
LEMMA OrderWhenOpened ==
    ASSUME TypeOK, TypeOK', VersionsInOrder, SnapshotsFit, "historical handle" \notin Liberties,
           NEW e \in DOMAIN entries, NEW i \in DOMAIN entries[e], TrackChanges(e, i)
    PROVE  VersionsInOrder' /\ SnapshotsFit'
<1> DEFINE v == entries[e][1]
           t == [entry |-> e, historical |-> v]
<1>1. i = 1 /\ entries' = entries /\ now' = now /\ trackers' = Append(trackers, t)
  BY DEF TrackChanges, CanCallOnMain
<1>2. v \in Versions /\ e \in EntryIds
  BY VersionTyped DEF TypeOK, Lives
<1>3. t \in [entry : EntryIds, historical : Versions] /\ t.entry = e /\ t.historical = v
  BY <1>2
<1> HIDE DEF t
<1>4. /\ trackers'[Len(trackers')] = t
      /\ DOMAIN trackers' = DOMAIN trackers \cup {Len(trackers')}
      /\ \A k \in DOMAIN trackers : trackers'[k] = trackers[k]
  BY <1>1, <1>3, TrackerOpened
<1>5. VersionsInOrder'
  BY <1>1 DEF VersionsInOrder
<1>6. v.mtime <= now /\ Fits(v, entries[e])
  <2>1. InOrder(entries[e], now)
    BY DEF VersionsInOrder
  <2>2. entries[e] \in Lives
    BY LiveLength DEF TypeOK, Lives
  <2> QED  BY <2>1, <2>2, LiveFits
<1>7. ASSUME NEW k \in DOMAIN trackers'
      PROVE  /\ trackers'[k].historical.mtime <= now
             /\ trackers'[k].entry \in DOMAIN entries
                   => Fits(trackers'[k].historical, entries[trackers'[k].entry])
  <2>1. CASE k \in DOMAIN trackers
    BY <1>4, <2>1 DEF SnapshotsFit
  <2>2. CASE k = Len(trackers')
    BY <1>3, <1>4, <1>6, <2>2
  <2> QED  BY <1>4, <2>1, <2>2
<1> QED  BY <1>1, <1>5, <1>7 DEF SnapshotsFit

\* A tracker is closed, and its snapshot dropped.
LEMMA OrderWhenDropped ==
    ASSUME TypeOK, TypeOK', VersionsInOrder, SnapshotsFit, NoNesting, DropTracker
    PROVE  VersionsInOrder' /\ SnapshotsFit'
<1> DEFINE n == Len(trackers)
           e == trackers[n].entry
           h == trackers[n].historical
<1>1. trackers # <<>> /\ trackers \in Seq([entry : EntryIds, historical : Versions])
  BY DEF DropTracker, TypeOK
<1>2. n \in Nat \ {0} /\ n \in DOMAIN trackers
  BY <1>1, TopOf
<1>3. /\ now' = now /\ trackers' = SubSeq(trackers, 1, n - 1)
      /\ entries' = IF e \in DOMAIN entries
                      THEN [entries EXCEPT ![e] = WithHistory(entries[e], h)] ELSE entries
  BY DEF DropTracker, Top
<1>4. h \in Versions /\ (e \in DOMAIN entries => Fits(h, entries[e]))
  BY <1>2, SnapshotTyped DEF SnapshotsFit
<1>5. \A k \in DOMAIN trackers' : k \in DOMAIN trackers /\ trackers'[k] = trackers[k] /\ k # n
  BY <1>1, <1>3, UnderTop
<1>6. DOMAIN entries' = DOMAIN entries
  BY <1>3
<1>7. ASSUME NEW x \in DOMAIN entries, x # e
      PROVE  entries'[x] = entries[x]
  BY <1>3, <1>7
<1>8. ASSUME e \in DOMAIN entries
      PROVE  InOrder(entries'[e], now)
  <2>1. entries[e] \in Lives /\ InOrder(entries[e], now)
    BY <1>8, LiveLength DEF TypeOK, Lives, VersionsInOrder
  <2>2. entries'[e] = WithHistory(entries[e], h)
    BY <1>3, <1>8
  <2> HIDE DEF e, h
  <2> QED  BY <1>4, <1>8, <2>1, <2>2, OrderGrows
<1>9. VersionsInOrder'
  BY <1>3, <1>6, <1>7, <1>8 DEF VersionsInOrder
<1>10. ASSUME NEW k \in DOMAIN trackers'
       PROVE  /\ trackers'[k].historical.mtime <= now
              /\ trackers'[k].entry \in DOMAIN entries'
                    => Fits(trackers'[k].historical, entries'[trackers'[k].entry])
  <2>1. k \in DOMAIN trackers /\ trackers'[k] = trackers[k] /\ trackers[k].entry # e
    BY <1>2, <1>5 DEF NoNesting
  <2> HIDE DEF e, h
  <2> QED  BY <1>6, <1>7, <2>1 DEF SnapshotsFit
<1> QED  BY <1>3, <1>9, <1>10 DEF SnapshotsFit

\* A removal through the tracker on top closes it.
LEMMA OrderWhenRemoved ==
    ASSUME TypeOK, TypeOK', VersionsInOrder, SnapshotsFit, NEW E, entries' = Without(entries, E),
           trackers # <<>>, trackers' = SubSeq(trackers, 1, Len(trackers) - 1),
           now' \in Nat, now <= now'
    PROVE  VersionsInOrder' /\ SnapshotsFit'
<1>1. \A x \in DOMAIN entries' : x \in DOMAIN entries /\ entries'[x] = entries[x]
  BY DEF Without
<1>2. \A k \in DOMAIN trackers' : k \in DOMAIN trackers /\ trackers'[k] = trackers[k]
  BY UnderTop DEF TypeOK
<1>3. VersionsInOrder'
  BY <1>1, LaterIsInOrder DEF VersionsInOrder
<1>4. ASSUME NEW k \in DOMAIN trackers'
      PROVE  /\ trackers'[k].historical.mtime <= now'
             /\ trackers'[k].entry \in DOMAIN entries'
                   => Fits(trackers'[k].historical, entries'[trackers'[k].entry])
  <2>1. trackers'[k] = trackers[k] /\ k \in DOMAIN trackers
    BY <1>2
  <2>2. trackers[k].historical.mtime \in Nat /\ trackers[k].historical.mtime <= now /\ now \in Nat
    BY <2>1, SnapshotTyped DEF SnapshotsFit, TypeOK, Versions, Times
  <2> QED  BY <1>1, <2>1, <2>2 DEF SnapshotsFit
<1> QED  BY <1>3, <1>4 DEF SnapshotsFit

LEMMA StepOrder ==
    ASSUME TypeOK, TypeOK', VersionsInOrder, SnapshotsFit, NoNesting, [Next]_vars,
           "historical handle" \notin Liberties
    PROVE  VersionsInOrder' /\ SnapshotsFit'
<1>1. CASE DropTracker
  BY <1>1, OrderWhenDropped
<1>2. ASSUME NEW e, NEW i, TrackChanges(e, i)
      PROVE  VersionsInOrder' /\ SnapshotsFit'
  <2>1. e \in DOMAIN entries /\ i \in DOMAIN entries[e]
    BY <1>2 DEF TrackChanges, CanCallOnMain, CanEdit, HasHandle
  <2> QED  BY <1>2, <2>1, OrderWhenOpened
<1>3. CASE trackers' = trackers /\ ~ DropTracker /\ \A e, i : ~ TrackChanges(e, i)
  BY <1>3, OrderWithTrackers
<1>4. ASSUME NEW E, entries' = Without(entries, E), trackers # <<>>,
             trackers' = SubSeq(trackers, 1, Len(trackers) - 1)
      PROVE  VersionsInOrder' /\ SnapshotsFit'
  BY <1>4, StepTimes, OrderWhenRemoved
<1> QED  BY <1>1, <1>2, <1>3, <1>4, StepTimes

\* Versions stay in order, the newest first, whatever is called, moved, removed
\* or purged, provided that they were so at the start, that no entry has two
\* trackers at once, and that trackers are opened on live versions
\* (History::add_entry, which puts what it is given in front unseen).
THEOREM HistoryIsInOrder ==
    ASSUME "historical handle" \notin Liberties
    PROVE  Spec /\ VersionsInOrder /\ []NoNesting => []HistoryNewestFirst
<1>1. Init => SnapshotsFit
  <2>1. Init => DOMAIN trackers = {}
    BY TupleDomains DEF Init
  <2> QED  BY <2>1 DEF SnapshotsFit
<1>2. /\ TypeOK /\ TypeOK' /\ VersionsInOrder /\ SnapshotsFit /\ NoNesting /\ [Next]_vars
      => VersionsInOrder' /\ SnapshotsFit'
  BY StepOrder
<1>3. VersionsInOrder => HistoryNewestFirst
  BY DEF VersionsInOrder, InOrder, HistoryNewestFirst
<1>4. Spec => []TypeOK
  BY TypeCorrect
<1> QED  BY <1>1, <1>2, <1>3, <1>4, PTL DEF Spec

----------------------------------------------------------------------------
(* The tree.                                                               *)

LEMMA GroupStepsTree ==
    ASSUME TypeOK, TreeShape, GroupNext, TypeOK', "remove root" \notin Liberties
    PROVE  TreeShape'
<1> SUFFICES Agree(groups') /\ Spans(groups')
  BY TreeHolds DEF TypeOK, TreeShape
<1>0. /\ Agree(groups) /\ Spans(groups)
      /\ \A x \in DOMAIN groups : groups[x] \in Groups
  BY TreeHolds DEF TypeOK, TreeShape
<1>1. ASSUME NEW p \in DOMAIN groups, NEW g \in GroupIds, AddGroup(p, g)
      PROVE  Agree(groups') /\ Spans(groups')
  BY <1>0, <1>1, AddGroupTree, SentinelAssumption DEF AddGroup
<1>2. ASSUME NEW p \in DOMAIN groups, NEW e \in EntryIds, AddEntry(p, e)
      PROVE  Agree(groups') /\ Spans(groups')
  <2>1. /\ DOMAIN groups' = DOMAIN groups
        /\ \A x \in DOMAIN groups : /\ groups'[x].parent = groups[x].parent
                                    /\ groups'[x].groups = groups[x].groups
    BY <1>0, <1>2 DEF AddEntry, Groups
  <2> QED  BY <1>0, <2>1, SameTree
<1>3. ASSUME NEW g \in DOMAIN groups, NEW c \in Contents, NEW tracked \in BOOLEAN,
             EditGroup(g, c, tracked)
      PROVE  Agree(groups') /\ Spans(groups')
  <2>1. /\ DOMAIN groups' = DOMAIN groups
        /\ \A x \in DOMAIN groups : /\ groups'[x].parent = groups[x].parent
                                    /\ groups'[x].groups = groups[x].groups
    BY <1>0, <1>3 DEF EditGroup, Groups
  <2> QED  BY <1>0, <2>1, SameTree
<1>4. ASSUME NEW g \in DOMAIN groups, NEW i, groups' = [groups EXCEPT ![g].icon = i]
      PROVE  Agree(groups') /\ Spans(groups')
  <2>1. /\ DOMAIN groups' = DOMAIN groups
        /\ \A x \in DOMAIN groups : /\ groups'[x].parent = groups[x].parent
                                    /\ groups'[x].groups = groups[x].groups
    BY <1>0, <1>4 DEF Groups
  <2> QED  BY <1>0, <2>1, SameTree
<1>5. ASSUME NEW g \in DOMAIN groups, NEW q \in DOMAIN groups, NEW tracked \in BOOLEAN,
             MoveGroup(g, q, tracked)
      PROVE  Agree(groups') /\ Spans(groups')
  <2> DEFINE moved == MoveGroupTo(groups, g, q)
  <2>1. Agree(moved) /\ Spans(moved)
    BY <1>0, <1>5, MoveGroupTree DEF MoveGroup
  <2>2. \A x \in DOMAIN moved : moved[x] \in Groups
    <3>1. IsMap(moved, GroupIds, Groups)
      BY MoveGroupType DEF TypeOK
    <3> HIDE DEF moved
    <3> QED  BY <3>1 DEF IsMap
  <2>3. PICK t : groups' = [moved EXCEPT ![g].ltime = t]
    BY <1>5 DEF MoveGroup
  <2> HIDE DEF moved
  <2>4. /\ DOMAIN groups' = DOMAIN moved
        /\ \A x \in DOMAIN moved : /\ groups'[x].parent = moved[x].parent
                                   /\ groups'[x].groups = moved[x].groups
    BY <2>2, <2>3 DEF Groups
  <2> QED  BY <2>1, <2>4, SameTree
<1>6. ASSUME NEW g \in DOMAIN groups, RemoveGroup(g) \/ TrackedRemoveGroup(g)
      PROVE  Agree(groups') /\ Spans(groups')
  <2>1. g # Root
    BY <1>6 DEF RemoveGroup, TrackedRemoveGroup
  <2>2. PICK E : groups' = UnlistEntries(DropGroups(groups, g, Subtree(groups, g)), entries, E)
    BY <1>6 DEF RemoveGroup, TrackedRemoveGroup, RemoveSubtree
  <2> QED  BY <1>0, <2>1, <2>2, RemoveGroupTree
<1> QED  BY <1>1, <1>2, <1>3, <1>4, <1>5, <1>6
         DEF GroupNext, SetGroupIcon, SetGroupIconCustom, SetGroupIconCustomNew

\* Only the calls on groups move groups.
LEMMA OtherStepsSameTree ==
    ASSUME TypeOK, EntryNext \/ AttachmentNext \/ TrackerNext \/ OtherNext
    PROVE  /\ DOMAIN groups' = DOMAIN groups
           /\ \A x \in DOMAIN groups : /\ groups'[x].parent = groups[x].parent
                                       /\ groups'[x].groups = groups[x].groups
<1>0. \A x \in DOMAIN groups : groups[x] \in Groups
  BY DEF TypeOK, IsMap
<1> DEFINE Same == /\ DOMAIN groups' = DOMAIN groups
                   /\ \A x \in DOMAIN groups : /\ groups'[x].parent = groups[x].parent
                                               /\ groups'[x].groups = groups[x].groups
<1>1. ASSUME NEW e \in DOMAIN entries, NEW i \in DOMAIN entries[e], NEW tracked \in BOOLEAN,
             NEW q \in DOMAIN groups, MoveEntry(e, i, q, tracked)
      PROVE  Same
  <2>1. groups' = RelistEntry(groups, e, entries[e][i].parent, q)
    BY <1>1 DEF MoveEntry
  <2> QED  BY <1>0, <2>1 DEF RelistEntry, Groups
<1>2. ASSUME NEW e \in DOMAIN entries, NEW i \in DOMAIN entries[e], NEW tracked \in BOOLEAN,
             RemoveEntry(e, i, tracked)
      PROVE  Same
  <2>1. groups' = UnlistEntries(groups, entries, {e})
    BY <1>2 DEF RemoveEntry
  <2> QED  BY <1>0, <2>1 DEF UnlistEntries, Groups
<1>3. ASSUME NEW c \in DOMAIN icons, RemoveIcon(c)
      PROVE  Same
  BY <1>0, <1>3 DEF RemoveIcon, Groups
<1>4. ASSUME UNCHANGED groups
      PROVE  Same
  BY <1>4
<1>5. Same
  <2>1. CASE EntryNext
    <3>1. PICK e \in DOMAIN entries :
            \E i \in DOMAIN entries[e], tracked \in BOOLEAN :
               \/ \E c \in Contents : EditEntry(e, i, c, tracked)
               \/ \E q \in DOMAIN groups : MoveEntry(e, i, q, tracked)
               \/ RemoveEntry(e, i, tracked)
               \/ \E icon \in {None} \cup BuiltIns : SetEntryIcon(e, i, icon, tracked)
               \/ \E c \in IconIds : SetEntryIconCustom(e, i, c, tracked)
               \/ \E c \in IconIds : SetEntryIconCustomNew(e, i, c, tracked)
               \/ \E n \in Names, b \in Binaries : AddAttachment(e, i, n, b, tracked)
      BY <2>1 DEF EntryNext
    <3>2. \A i, x, tracked : EditEntry(e, i, x, tracked) \/ SetEntryIcon(e, i, x, tracked)
                               => UNCHANGED groups
      BY DEF EditEntry, SetEntryIcon
    <3>3. \A i, x, tracked : SetEntryIconCustom(e, i, x, tracked)
                                 \/ SetEntryIconCustomNew(e, i, x, tracked)
                               => UNCHANGED groups
      BY DEF SetEntryIconCustom, SetEntryIconCustomNew
    <3>4. \A i, n, b, tracked : AddAttachment(e, i, n, b, tracked) => UNCHANGED groups
      BY DEF AddAttachment
    <3> HIDE DEF Same
    <3> QED  BY <3>1, <3>2, <3>3, <3>4, <1>1, <1>2, <1>4
  <2>2. CASE AttachmentNext
    BY <2>2, <1>4
       DEF AttachmentNext, RemoveAttachmentByName, RemoveAttachmentById, EditAttachment,
           RemoveAttachment, CompactAttachments
  <2>3. CASE TrackerNext
    BY <2>3, <1>4 DEF TrackerNext, TrackChanges, DropTracker, PurgeHistory
  <2>4. CASE OtherNext
    BY <2>4, <1>3, <1>4 DEF OtherNext, SetMeta, Tick
  <2> QED  BY <2>1, <2>2, <2>3, <2>4
<1> QED  BY <1>5

LEMMA OtherStepsTree ==
    ASSUME TypeOK, TreeShape, TypeOK',
           EntryNext \/ AttachmentNext \/ TrackerNext \/ OtherNext
    PROVE  TreeShape'
<1> SUFFICES Agree(groups') /\ Spans(groups')
  BY TreeHolds DEF TypeOK, TreeShape
<1>1. Agree(groups) /\ Spans(groups)
  BY TreeHolds DEF TypeOK, TreeShape
<1> QED  BY <1>1, OtherStepsSameTree, SameTree

\* As long as nobody removes the root, no sequence of additions, moves and
\* removals leaves a group unreachable, on a cycle or listed twice.
THEOREM TreeCorrect ==
    ASSUME "remove root" \notin Liberties
    PROVE  Spec => []TreeShape
<1> DEFINE Inv == TypeOK /\ TreeShape
<1>1. Init => Inv
  <2> SUFFICES ASSUME Init
               PROVE  TreeShape
    BY InitTypes
  <2> QED  BY NewDatabaseIsOne, OpenedAssumption DEF Init, IsDatabase, TreeShape
<1>2. Inv /\ [Next]_vars => Inv'
  <2> SUFFICES ASSUME Inv, [Next]_vars
               PROVE  TreeShape'
    BY StepTypes
  <2>1. CASE UNCHANGED vars
    BY <2>1 DEF TreeShape, vars
  <2>2. CASE Next
    BY <2>2, StepTypes, GroupStepsTree, OtherStepsTree DEF Next
  <2> QED  BY <2>1, <2>2
<1> QED  BY <1>1, <1>2, PTL DEF Spec

----------------------------------------------------------------------------
(* Entries in their groups.                                                *)

LEMMA SetVersionParents ==
    ASSUME TypeOK, NEW e \in DOMAIN entries, NEW i \in DOMAIN entries[e], NEW v,
           SetVersion(e, i, v), i = 1 => v.parent = Live(entries, e).parent
    PROVE  SameParents(entries, entries')
<1>1. /\ DOMAIN entries' = DOMAIN entries
      /\ \A x \in DOMAIN entries \ {e} : entries'[x] = entries[x]
      /\ entries'[e] = [entries[e] EXCEPT ![i] = v]
  BY DEF SetVersion
<1>2. i = 1 => Live(entries', e) = v
  BY <1>1 DEF Live
<1>3. i # 1 => Live(entries', e) = Live(entries, e)
  <2>1. 1 \in DOMAIN entries[e]
    BY DEF TypeOK, IsMap
  <2> QED  BY <1>1, <2>1 DEF Live
<1> QED  BY <1>1, <1>2, <1>3 DEF SameParents, Live

LEMMA GroupStepsPlacement ==
    ASSUME TypeOK, EntryPlacement, GroupNext
    PROVE  EntryPlacement'
<1> SUFFICES IsPlaced(groups', entries')
  BY DEF EntryPlacement
<1>0. IsPlaced(groups, entries) /\ \A x \in DOMAIN groups : groups[x] \in Groups
  BY DEF EntryPlacement, TypeOK, IsMap
<1>1. ASSUME NEW p \in DOMAIN groups, NEW g \in GroupIds, AddGroup(p, g)
      PROVE  IsPlaced(groups', entries')
  BY <1>0, <1>1, AddGroupPlacement DEF AddGroup
<1>2. ASSUME NEW p \in DOMAIN groups, NEW e \in EntryIds, AddEntry(p, e)
      PROVE  IsPlaced(groups', entries')
  BY <1>0, <1>2, AddEntryPlacement DEF AddEntry
<1>3. ASSUME NEW g \in DOMAIN groups, NEW c \in Contents, NEW tracked \in BOOLEAN,
             EditGroup(g, c, tracked)
      PROVE  SameLists(groups, groups') /\ UNCHANGED entries
  BY <1>0, <1>3 DEF EditGroup, SameLists, Groups
<1>4. ASSUME NEW g \in DOMAIN groups, NEW i, groups' = [groups EXCEPT ![g].icon = i]
      PROVE  SameLists(groups, groups')
  BY <1>0, <1>4 DEF SameLists, Groups
<1>5. ASSUME NEW g \in DOMAIN groups, NEW q \in DOMAIN groups, NEW tracked \in BOOLEAN,
             MoveGroup(g, q, tracked)
      PROVE  SameLists(groups, groups') /\ UNCHANGED entries
  <2> DEFINE moved == MoveGroupTo(groups, g, q)
  <2>1. SameLists(groups, moved)
    BY <1>0 DEF MoveGroupTo, SameLists, Groups
  <2>2. IsMap(moved, GroupIds, Groups)
    BY MoveGroupType DEF TypeOK
  <2>3. PICK t : groups' = [moved EXCEPT ![g].ltime = t]
    BY <1>5 DEF MoveGroup
  <2> HIDE DEF moved
  <2>4. SameLists(moved, groups')
    BY <2>2, <2>3 DEF SameLists, IsMap, Groups
  <2> QED  BY <1>5, <2>1, <2>4 DEF SameLists, MoveGroup
<1>6. ASSUME NEW g \in DOMAIN groups, RemoveGroup(g) \/ TrackedRemoveGroup(g)
      PROVE  IsPlaced(groups', entries')
  <2> DEFINE S == Subtree(groups, g)
             E == EntriesUnder(groups, S) \cap DOMAIN entries
  <2>1. groups' = UnlistEntries(DropGroups(groups, g, S), entries, E)
        /\ entries' = Without(entries, E)
    BY <1>6 DEF RemoveGroup, TrackedRemoveGroup, RemoveSubtree
  <2>2. S \subseteq DOMAIN groups
    BY SubtreeLeast
  <2>3. \A e \in DOMAIN entries : Live(entries, e).parent \in S => e \in E
    BY <1>0, <2>2 DEF IsPlaced, EntriesUnder
  <2> HIDE DEF S
  <2>4. /\ DOMAIN groups' = DOMAIN groups \ S
        /\ \A x \in DOMAIN groups' :
              groups'[x].entries = groups[x].entries \ {e \in E : Live(entries, e).parent = x}
    <3> HIDE DEF E
    <3>1. DOMAIN groups' = DOMAIN groups \ S
      BY <2>1 DEF UnlistEntries, DropGroups
    <3>2. ASSUME NEW x \in DOMAIN groups \ S
          PROVE  groups'[x].entries = groups[x].entries \ {e \in E : Live(entries, e).parent = x}
      <4> DEFINE ds == DropGroups(groups, g, S)
      <4>1. groups[x] \in Groups
        BY <1>0
      <4>2. /\ x \in DOMAIN ds
            /\ ds[x] = [groups[x] EXCEPT !.groups = IF x = groups[g].parent THEN @ \ {g} ELSE @]
        BY DEF DropGroups
      <4>3. groups'[x] = [ds[x] EXCEPT !.entries = @ \ {e \in E : Live(entries, e).parent = x},
                                       !.ltve    = IF @ \in E THEN None ELSE @]
        BY <2>1, <4>2 DEF UnlistEntries
      <4> HIDE DEF ds
      <4> QED  BY <4>1, <4>2, <4>3 DEF Groups
    <3> QED  BY <3>1, <3>2
  <2>5. E \subseteq DOMAIN entries
    OBVIOUS
  <2> HIDE DEF E
  <2>6. IsPlaced(groups', Without(entries, E))
    BY <1>0, <2>3, <2>4, <2>5, RemovalPlacement
  <2> QED  BY <2>1, <2>6
<1>7. ASSUME SameLists(groups, groups'), UNCHANGED entries
      PROVE  IsPlaced(groups', entries')
  BY <1>0, <1>7, SamePlacement DEF SameParents
<1>8. ASSUME NEW g \in DOMAIN groups, NEW i,
             SetGroupIcon(g, i) \/ SetGroupIconCustom(g, i) \/ SetGroupIconCustomNew(g, i)
      PROVE  SameLists(groups, groups') /\ UNCHANGED entries
  BY <1>4, <1>8 DEF SetGroupIcon, SetGroupIconCustom, SetGroupIconCustomNew
<1> QED  BY <1>1, <1>2, <1>3, <1>5, <1>6, <1>7, <1>8 DEF GroupNext

LEMMA VersionAt ==
    ASSUME TypeOK, NEW e \in DOMAIN entries, NEW i \in DOMAIN entries[e], NEW tracked \in BOOLEAN
    PROVE  /\ entries[e][i] \in Versions /\ 1 \in DOMAIN entries[e]
           /\ Stamped(entries[e][i], tracked) \in Versions
           /\ Stamped(entries[e][i], tracked).parent = entries[e][i].parent
<1>1. entries[e] \in Seq(Versions) /\ entries[e] # <<>>
  BY DEF TypeOK, IsMap
<1>2. entries[e][i] \in Versions /\ 1 \in DOMAIN entries[e]
  BY <1>1
<1> QED  BY <1>2 DEF Stamped, Versions, TypeOK

\* What a call on an entry may do besides moving or removing it
EditCalls(e, i, tracked) ==
    \/ \E c \in Contents : EditEntry(e, i, c, tracked)
    \/ \E icon \in {None} \cup BuiltIns : SetEntryIcon(e, i, icon, tracked)
    \/ \E c \in IconIds : SetEntryIconCustom(e, i, c, tracked)
    \/ \E c \in IconIds : SetEntryIconCustomNew(e, i, c, tracked)
    \/ \E n \in Names, b \in Binaries : AddAttachment(e, i, n, b, tracked)

LEMMA EditsSameParents ==
    ASSUME TypeOK, NEW e \in DOMAIN entries, NEW i \in DOMAIN entries[e], NEW tracked \in BOOLEAN,
           EditCalls(e, i, tracked)
    PROVE  SameParents(entries, entries') /\ UNCHANGED groups
<1>v. /\ entries[e][i] \in Versions
      /\ Stamped(entries[e][i], tracked) \in Versions
      /\ Stamped(entries[e][i], tracked).parent = entries[e][i].parent
  BY VersionAt
<1>s. ASSUME NEW v, SetVersion(e, i, v), v.parent = entries[e][i].parent, UNCHANGED groups
      PROVE  SameParents(entries, entries') /\ UNCHANGED groups
  BY <1>s, SetVersionParents DEF Live
<1>1. ASSUME NEW c, EditEntry(e, i, c, tracked)
      PROVE  SameParents(entries, entries') /\ UNCHANGED groups
  BY <1>v, <1>s, <1>1 DEF EditEntry, Versions
<1>2. ASSUME NEW icon, SetEntryIcon(e, i, icon, tracked)
      PROVE  SameParents(entries, entries') /\ UNCHANGED groups
  BY <1>v, <1>s, <1>2 DEF SetEntryIcon, Versions
<1>3. ASSUME NEW c, SetEntryIconCustom(e, i, c, tracked)
      PROVE  SameParents(entries, entries') /\ UNCHANGED groups
  <2> DEFINE v == IF c \in DOMAIN icons
                    THEN [Stamped(entries[e][i], tracked) EXCEPT !.icon = c]
                    ELSE [entries[e][i] EXCEPT !.icon = None]
  <2>1. SetVersion(e, i, v)
    BY <1>3 DEF SetEntryIconCustom
  <2>2. v.parent = entries[e][i].parent
    BY <1>v DEF Versions
  <2> QED  BY <1>s, <1>3, <2>1, <2>2 DEF SetEntryIconCustom
<1>4. ASSUME NEW c, SetEntryIconCustomNew(e, i, c, tracked)
      PROVE  SameParents(entries, entries') /\ UNCHANGED groups
  BY <1>v, <1>s, <1>4 DEF SetEntryIconCustomNew, Versions
<1>5. ASSUME NEW n, NEW b, AddAttachment(e, i, n, b, tracked)
      PROVE  SameParents(entries, entries') /\ UNCHANGED groups
  <2>1. PICK m : SetVersion(e, i, [Stamped(entries[e][i], tracked) EXCEPT !.attachments = m])
    BY <1>5 DEF AddAttachment
  <2>2. [Stamped(entries[e][i], tracked) EXCEPT !.attachments = m].parent = entries[e][i].parent
    BY <1>v DEF Versions
  <2> QED  BY <1>s, <1>5, <2>1, <2>2 DEF AddAttachment
<1> QED  BY <1>1, <1>2, <1>3, <1>4, <1>5 DEF EditCalls

LEMMA EntryStepIsCall ==
    ASSUME EntryNext
    PROVE  \E e \in DOMAIN entries : \E i \in DOMAIN entries[e], tracked \in BOOLEAN :
              \/ EditCalls(e, i, tracked)
              \/ \E q \in DOMAIN groups : MoveEntry(e, i, q, tracked)
              \/ RemoveEntry(e, i, tracked)
BY DEF EntryNext, EditCalls

LEMMA EntryStepsPlacement ==
    ASSUME TypeOK, EntryPlacement, EntryNext, "historical handle" \notin Liberties
    PROVE  EntryPlacement'
<1> SUFFICES IsPlaced(groups', entries')
  BY DEF EntryPlacement
<1>0. IsPlaced(groups, entries) /\ \A x \in DOMAIN groups : groups[x] \in Groups
  BY DEF EntryPlacement, TypeOK, IsMap
<1> SUFFICES ASSUME NEW e \in DOMAIN entries, NEW i \in DOMAIN entries[e],
                    NEW tracked \in BOOLEAN,
                    \/ EditCalls(e, i, tracked)
                    \/ \E q \in DOMAIN groups : MoveEntry(e, i, q, tracked)
                    \/ RemoveEntry(e, i, tracked)
             PROVE  IsPlaced(groups', entries')
  BY EntryStepIsCall
<1>v. entries[e][i] \in Versions /\ 1 \in DOMAIN entries[e]
  BY VersionAt
<1>1. ASSUME EditCalls(e, i, tracked)
      PROVE  IsPlaced(groups', entries')
  BY <1>0, <1>1, EditsSameParents, SamePlacement DEF SameLists
<1>2. ASSUME NEW q \in DOMAIN groups, MoveEntry(e, i, q, tracked)
      PROVE  IsPlaced(groups', entries')
  <2>1. i = 1
    BY <1>2 DEF MoveEntry, CanCallOnMain
  <2> DEFINE v == [entries[e][i] EXCEPT !.parent = q, !.prev = entries[e][i].parent,
                                        !.ltime = IF tracked THEN now ELSE @]
  <2>2. SetVersion(e, i, v) /\ v.parent = q
    BY <1>v, <1>2 DEF MoveEntry, Versions
  <2> HIDE DEF v
  <2>3. /\ DOMAIN entries' = DOMAIN entries
        /\ \A x \in DOMAIN entries :
              Live(entries', x).parent = IF x = e THEN q ELSE Live(entries, x).parent
    BY <1>v, <2>1, <2>2 DEF SetVersion, Live
  <2>4. groups' = RelistEntry(groups, e, Live(entries, e).parent, q)
    BY <1>2, <2>1 DEF MoveEntry, Live
  <2> QED  BY <1>0, <2>3, <2>4, MoveEntryPlacement
<1>3. ASSUME RemoveEntry(e, i, tracked)
      PROVE  IsPlaced(groups', entries')
  <2> DEFINE E == {e}
  <2>1. groups' = UnlistEntries(groups, entries, E) /\ entries' = Without(entries, E)
    BY <1>3 DEF RemoveEntry
  <2>3. E \subseteq DOMAIN entries
    OBVIOUS
  <2> HIDE DEF E
  <2>2. /\ DOMAIN groups' = DOMAIN groups
        /\ \A x \in DOMAIN groups' :
              groups'[x].entries = groups[x].entries \ {y \in E : Live(entries, y).parent = x}
    BY <1>0, <2>1 DEF UnlistEntries, Groups
  <2> DEFINE S == {}
  <2>4. /\ DOMAIN groups' = DOMAIN groups \ S
        /\ \A x \in DOMAIN entries : Live(entries, x).parent \in S => x \in E
    BY <2>2
  <2> HIDE DEF S
  <2>5. IsPlaced(groups', Without(entries, E))
    BY <1>0, <2>2, <2>3, <2>4, RemovalPlacement
  <2> QED  BY <2>1, <2>5
<1> QED  BY <1>1, <1>2, <1>3

\* The calls on binaries, trackers and icons move no entry.
LEMMA OtherStepsSameParents ==
    ASSUME TypeOK, AttachmentNext \/ TrackerNext \/ OtherNext
    PROVE  SameLists(groups, groups') /\ SameParents(entries, entries')
<1>0. /\ \A x \in DOMAIN groups : groups[x] \in Groups
      /\ \A e \in DOMAIN entries : /\ entries[e] \in Seq(Versions) /\ entries[e] # <<>>
                                   /\ 1 \in DOMAIN entries[e] /\ entries[e][1] \in Versions
  <2>1. \A e \in DOMAIN entries : entries[e] \in Seq(Versions) /\ entries[e] # <<>>
    BY DEF TypeOK, IsMap
  <2>2. \A e \in DOMAIN entries : 1 \in DOMAIN entries[e] /\ entries[e][1] \in Versions
    BY <2>1
  <2>3. \A x \in DOMAIN groups : groups[x] \in Groups
    BY DEF TypeOK, IsMap
  <2> QED  BY <2>1, <2>2, <2>3
<1>u. UNCHANGED groups => SameLists(groups, groups')
  BY DEF SameLists
<1>s. UNCHANGED entries => SameParents(entries, entries')
  BY DEF SameParents
<1>1. CASE AttachmentNext
  <2>1. UNCHANGED groups
    BY <1>1 DEF AttachmentNext, RemoveAttachmentByName, RemoveAttachmentById, EditAttachment,
                RemoveAttachment, CompactAttachments
  <2>2. ASSUME NEW e \in DOMAIN entries, NEW i \in DOMAIN entries[e], NEW m,
               SetVersion(e, i, [entries[e][i] EXCEPT !.attachments = m])
        PROVE  SameParents(entries, entries')
    <3>1. entries[e][i] \in Versions
      BY <1>0
    <3>2. [entries[e][i] EXCEPT !.attachments = m].parent = entries[e][i].parent
      BY <3>1 DEF Versions
    <3> QED  BY <2>2, <3>2, SetVersionParents DEF Live
  <2>3. ASSUME NEW id \in DOMAIN attachments, RemoveAttachment(id)
        PROVE  SameParents(entries, entries')
    BY <1>0, <2>3 DEF RemoveAttachment, MapVersions, SameParents, Live, Versions
  <2>4. ASSUME CompactAttachments
        PROVE  SameParents(entries, entries')
    BY <1>0, <2>4 DEF CompactAttachments, CompactedEntries, MapVersions, SameParents, Live, Versions
  <2> QED  BY <1>1, <1>u, <1>s, <2>1, <2>2, <2>3, <2>4
           DEF AttachmentNext, RemoveAttachmentByName, RemoveAttachmentById, EditAttachment
<1>2. CASE TrackerNext
  <2>1. UNCHANGED groups
    BY <1>2 DEF TrackerNext, TrackChanges, DropTracker, PurgeHistory
  <2>2. ASSUME DropTracker
        PROVE  SameParents(entries, entries')
    <3>1. \A e \in DOMAIN entries : \A h : WithHistory(entries[e], h)[1] = entries[e][1]
      BY <1>0 DEF WithHistory
    <3> QED  BY <2>2, <3>1 DEF DropTracker, SameParents, Live
  <2>3. ASSUME PurgeHistory
        PROVE  SameParents(entries, entries')
    BY <2>3 DEF PurgeHistory, SameParents, Live
  <2> QED  BY <1>2, <1>u, <1>s, <2>1, <2>2, <2>3 DEF TrackerNext, TrackChanges
<1>3. CASE OtherNext
  <2>1. ASSUME NEW c \in DOMAIN icons, RemoveIcon(c)
        PROVE  SameLists(groups, groups') /\ SameParents(entries, entries')
    <3>1. SameLists(groups, groups')
      BY <1>0, <2>1 DEF RemoveIcon, SameLists, Groups
    <3>2. SameParents(entries, entries')
      BY <1>0, <2>1 DEF RemoveIcon, MapVersions, SameParents, Live, Versions
    <3> QED  BY <3>1, <3>2
  <2> QED  BY <1>3, <1>u, <1>s, <2>1 DEF OtherNext, SetMeta, Tick
<1> QED  BY <1>1, <1>2, <1>3

LEMMA OtherStepsPlacement ==
    ASSUME TypeOK, EntryPlacement, AttachmentNext \/ TrackerNext \/ OtherNext
    PROVE  EntryPlacement'
BY OtherStepsSameParents, SamePlacement DEF EntryPlacement

\* Whatever is added, moved and removed, every entry is listed by the one group
\* it names as its parent, as long as no historical version is moved.
THEOREM PlacementCorrect ==
    ASSUME "historical handle" \notin Liberties
    PROVE  Spec => []EntryPlacement
<1> DEFINE Inv == TypeOK /\ EntryPlacement
<1>1. Init => Inv
  <2> SUFFICES ASSUME Init
               PROVE  EntryPlacement
    BY InitTypes
  <2> QED  BY NewDatabaseIsOne, OpenedAssumption DEF Init, IsDatabase, EntryPlacement
<1>2. Inv /\ [Next]_vars => Inv'
  <2> SUFFICES ASSUME Inv, [Next]_vars
               PROVE  EntryPlacement'
    BY StepTypes
  <2>1. CASE UNCHANGED vars
    BY <2>1 DEF EntryPlacement, vars
  <2> QED  BY <2>1, GroupStepsPlacement, EntryStepsPlacement, OtherStepsPlacement DEF Next
<1> QED  BY <1>1, <1>2, PTL DEF Spec

----------------------------------------------------------------------------
(* The implementation of Containment: every call is a step of the abstract *)
(* tree of groups and entries, or leaves that tree alone.                  *)

\* What the refinement mapping makes of the two maps
ParentsOf(gs) == [g \in DOMAIN gs |-> gs[g].parent]
HomesOf(es) == [e \in DOMAIN es |-> Live(es, e).parent]

LEMMA ParentsAt ==
    ASSUME NEW gs
    PROVE  /\ DOMAIN ParentsOf(gs) = DOMAIN gs
           /\ \A g \in DOMAIN gs : ParentsOf(gs)[g] = gs[g].parent
BY DEF ParentsOf

LEMMA HomesAt ==
    ASSUME NEW es
    PROVE  /\ DOMAIN HomesOf(es) = DOMAIN es
           /\ \A e \in DOMAIN es : HomesOf(es)[e] = Live(es, e).parent
BY DEF HomesOf

LEMMA SameParentsOf ==
    ASSUME NEW gs, NEW hs, DOMAIN hs = DOMAIN gs,
           \A g \in DOMAIN gs : hs[g].parent = gs[g].parent
    PROVE  ParentsOf(hs) = ParentsOf(gs)
BY DEF ParentsOf

LEMMA SameHomes ==
    ASSUME NEW es, NEW fs, SameParents(es, fs)
    PROVE  HomesOf(fs) = HomesOf(es)
BY DEF HomesOf, SameParents

----------------------------------------------------------------------------
(* The walks of the code and the closures of the abstract tree.            *)

LEMMA ChainIsAncestors ==
    ASSUME NEW gs, NEW g
    PROVE  Tree!Chain(ParentsOf(gs), g) = AncestorsOrSelf(gs, g)
<1>1. \A S \in SUBSET DOMAIN gs :
         (\A y \in S : ParentsOf(gs)[y] \in DOMAIN ParentsOf(gs) => ParentsOf(gs)[y] \in S)
           <=> ParentClosed(gs, S)
  BY ParentsAt DEF ParentClosed
<1>2. DOMAIN ParentsOf(gs) = DOMAIN gs
  BY ParentsAt
<1> QED  BY <1>1, <1>2 DEF Tree!Chain, AncestorsOrSelf

\* Removal walks down the child sets; what it finds is what has the removed
\* group on its way to the root.
LEMMA BelowIsSubtree ==
    ASSUME NEW gs, Agree(gs), NEW g \in DOMAIN gs
    PROVE  Tree!Below(ParentsOf(gs), g) = Subtree(gs, g)
<1> DEFINE T == Subtree(gs, g)
<1>1. /\ g \in T /\ T \subseteq DOMAIN gs /\ ChildClosed(gs, T)
  BY SubtreeLeast
<1> HIDE DEF T
<1>2. ParentClosed(gs, DOMAIN gs \ T)
  <2> SUFFICES ASSUME NEW x \in DOMAIN gs \ T, gs[x].parent \in T
               PROVE  FALSE
    BY DEF ParentClosed
  <2>1. gs[x].parent \in DOMAIN gs /\ x \in gs[gs[x].parent].groups
    BY <1>1 DEF Agree
  <2> QED  BY <1>1, <2>1 DEF ChildClosed
<1>3. ASSUME NEW x \in DOMAIN gs
      PROVE  g \in AncestorsOrSelf(gs, x) <=> x \in T
  <2>1. x \notin T => AncestorsOrSelf(gs, x) \subseteq DOMAIN gs \ T
    BY <1>2, AncestorsLeast
  <2>2. g \notin AncestorsOrSelf(gs, x) => x \notin T
    BY TargetOutside DEF T
  <2> QED  BY <1>1, <2>1, <2>2
<1>4. Tree!Below(ParentsOf(gs), g) = {x \in DOMAIN gs : g \in AncestorsOrSelf(gs, x)}
  BY ParentsAt, ChainIsAncestors DEF Tree!Below
<1> QED  BY <1>1, <1>3, <1>4 DEF T

\* Every way up ends at the root: what a parent-closed set without the root
\* leaves out would be closed under children.
LEMMA RootOnTop ==
    ASSUME NEW gs, Agree(gs), Spans(gs), NEW g \in DOMAIN gs
    PROVE  Root \in AncestorsOrSelf(gs, g)
<1> SUFFICES ASSUME NEW S \in SUBSET DOMAIN gs, g \in S, ParentClosed(gs, S), Root \notin S
             PROVE  FALSE
  BY DEF AncestorsOrSelf, Agree
<1> DEFINE C == DOMAIN gs \ S
<1>1. ChildClosed(gs, C)
  <2> SUFFICES ASSUME NEW x \in C, NEW y \in gs[x].groups \cap DOMAIN gs, y \in S
               PROVE  FALSE
    BY DEF ChildClosed
  <2>1. gs[y].parent = x
    BY DEF Agree
  <2> QED  BY <2>1 DEF ParentClosed
<1>2. Root \in C
  BY DEF Agree
<1>3. C = DOMAIN gs
  BY <1>1, <1>2 DEF Spans
<1> QED  BY <1>3

LEMMA TreeMapsToTree ==
    ASSUME NEW gs, Agree(gs), Spans(gs), DOMAIN gs \subseteq GroupIds
    PROVE  Tree!IsTree(ParentsOf(gs))
<1>1. \A g \in DOMAIN gs : Root \in Tree!Chain(ParentsOf(gs), g)
  BY RootOnTop, ChainIsAncestors
<1>2. /\ DOMAIN ParentsOf(gs) = DOMAIN gs
      /\ \A g \in DOMAIN gs : ParentsOf(gs)[g] = gs[g].parent
  BY ParentsAt
<1> QED  BY <1>1, <1>2 DEF Tree!IsTree, Agree

----------------------------------------------------------------------------
(* Every call is a step of the abstract tree or leaves it alone.           *)

\* What the proofs of the steps start from
Sound ==
    /\ TypeOK
    /\ Agree(groups) /\ Spans(groups)
    /\ IsPlaced(groups, entries)
    /\ \A x \in DOMAIN groups : groups[x] \in Groups

AbstractSame == ParentsOf(groups') = ParentsOf(groups) /\ HomesOf(entries') = HomesOf(entries)

LEMMA AddGroupSteps ==
    ASSUME NEW p \in DOMAIN groups, NEW g \in GroupIds, AddGroup(p, g)
    PROVE  Tree!AddGroup(p, g)
<1> DEFINE hs == AddGroupTo(groups, p, g, now)
<1>1. /\ groups' = hs /\ entries' = entries /\ g \notin DOMAIN groups
  BY DEF AddGroup
<1>2. /\ DOMAIN hs = DOMAIN groups \cup {g}
      /\ \A x \in DOMAIN hs : hs[x].parent = IF x = g THEN p ELSE groups[x].parent
  BY <1>1 DEF AddGroupTo, Put, NewGroup
<1> HIDE DEF hs
<1>3. ParentsOf(groups') = Tree!Extend(ParentsOf(groups), g, p)
  BY <1>1, <1>2 DEF ParentsOf, Tree!Extend
<1> QED  BY <1>1, <1>3 DEF Tree!AddGroup, ParentsOf

LEMMA AddEntrySteps ==
    ASSUME Sound, NEW p \in DOMAIN groups, NEW e \in EntryIds, AddEntry(p, e)
    PROVE  Tree!AddEntry(p, e)
<1>1. /\ e \notin DOMAIN entries
      /\ entries' = Put(entries, e, <<NewVersion(p, now)>>)
      /\ groups' = [groups EXCEPT ![p].entries = @ \cup {e}]
  BY DEF AddEntry
<1>2. ParentsOf(groups') = ParentsOf(groups)
  BY <1>1, SameParentsOf DEF Sound, Groups
<1>3. /\ DOMAIN entries' = DOMAIN entries \cup {e}
      /\ \A x \in DOMAIN entries' : Live(entries', x).parent
                                      = IF x = e THEN p ELSE Live(entries, x).parent
  BY <1>1 DEF Put, Live, NewVersion
<1>4. HomesOf(entries') = Tree!Extend(HomesOf(entries), e, p)
  BY <1>1, <1>3 DEF HomesOf, Tree!Extend
<1> QED  BY <1>1, <1>2, <1>4 DEF Tree!AddEntry, ParentsOf, HomesOf

LEMMA MoveGroupSteps ==
    ASSUME Sound, NEW g \in DOMAIN groups, NEW q \in DOMAIN groups, NEW tracked \in BOOLEAN,
           MoveGroup(g, q, tracked)
    PROVE  Tree!MoveGroup(g, q)
<1> DEFINE moved == MoveGroupTo(groups, g, q)
<1>1. /\ entries' = entries /\ g # Root /\ g \notin AncestorsOrSelf(groups, q)
  BY DEF MoveGroup, CanMoveGroup, Sound, Agree
<1>2. /\ DOMAIN moved = DOMAIN groups
      /\ \A x \in DOMAIN groups : moved[x].parent = IF x = g THEN q ELSE groups[x].parent
  <2>1. ASSUME NEW x \in DOMAIN groups
        PROVE  moved[x].parent = IF x = g THEN q ELSE groups[x].parent
    <3>1. groups[x] \in Groups
      BY DEF Sound
    <3> QED  BY <3>1 DEF MoveGroupTo, Groups
  <2> QED  BY <2>1 DEF MoveGroupTo
<1>3. \A x \in DOMAIN moved : moved[x] \in Groups
  <2>1. IsMap(moved, GroupIds, Groups)
    BY MoveGroupType DEF Sound, TypeOK
  <2> HIDE DEF moved
  <2> QED  BY <2>1 DEF IsMap
<1>4. PICK t : groups' = [moved EXCEPT ![g].ltime = t]
  BY DEF MoveGroup
<1> HIDE DEF moved
<1>5. /\ DOMAIN groups' = DOMAIN groups
      /\ \A x \in DOMAIN groups : groups'[x].parent = IF x = g THEN q ELSE groups[x].parent
  BY <1>2, <1>3, <1>4 DEF Groups
<1>6. ParentsOf(groups') = [ParentsOf(groups) EXCEPT ![g] = q]
  BY <1>5 DEF ParentsOf
<1>7. g \notin Tree!Chain(ParentsOf(groups), q)
  BY <1>1, ChainIsAncestors
<1> QED  BY <1>1, <1>6, <1>7 DEF Tree!MoveGroup, ParentsOf

LEMMA RemoveGroupSteps ==
    ASSUME Sound, NEW g \in DOMAIN groups \ {Root}, RemoveGroup(g) \/ TrackedRemoveGroup(g)
    PROVE  Tree!RemoveGroup(g)
<1> DEFINE S == Subtree(groups, g)
           E == EntriesUnder(groups, S) \cap DOMAIN entries
<1>1. groups' = UnlistEntries(DropGroups(groups, g, S), entries, E)
      /\ entries' = Without(entries, E)
  BY DEF RemoveGroup, TrackedRemoveGroup, RemoveSubtree
<1>2. S = Tree!Below(ParentsOf(groups), g) /\ S \subseteq DOMAIN groups
  BY BelowIsSubtree, SubtreeLeast DEF Sound
<1> HIDE DEF S
<1>3. E = {e \in DOMAIN entries : Live(entries, e).parent \in S}
  BY <1>2 DEF EntriesUnder, Sound, IsPlaced
<1> HIDE DEF E
<1>4. TakenOut(groups, groups', g, S)
  BY <1>1, RemovedGroups DEF Sound
<1>5. ParentsOf(groups') = [x \in DOMAIN ParentsOf(groups) \ S |-> ParentsOf(groups)[x]]
  BY <1>4 DEF TakenOut, ParentsOf
<1>6. /\ DOMAIN entries' = {e \in DOMAIN entries : Live(entries, e).parent \notin S}
      /\ \A e \in DOMAIN entries' : Live(entries', e) = Live(entries, e)
  BY <1>1, <1>3 DEF Without, Live
<1>7. HomesOf(entries')
        = [e \in {x \in DOMAIN HomesOf(entries) : HomesOf(entries)[x] \notin S} |-> HomesOf(entries)[e]]
  BY <1>6 DEF HomesOf
<1> QED  BY <1>2, <1>5, <1>7 DEF Tree!RemoveGroup, ParentsOf, HomesOf

LEMMA MoveEntrySteps ==
    ASSUME Sound, NEW e \in DOMAIN entries, NEW i \in DOMAIN entries[e],
           NEW q \in DOMAIN groups, NEW tracked \in BOOLEAN,
           MoveEntry(e, i, q, tracked), "historical handle" \notin Liberties,
           ParentsOf(groups') = ParentsOf(groups)
    PROVE  Tree!MoveEntry(e, q)
<1>1. i = 1
  BY DEF MoveEntry, CanCallOnMain
<1> DEFINE v == [entries[e][i] EXCEPT !.parent = q, !.prev = entries[e][i].parent,
                                      !.ltime = IF tracked THEN now ELSE @]
<1>2. entries[e][i] \in Versions /\ 1 \in DOMAIN entries[e]
  BY VersionAt DEF Sound
<1>3. SetVersion(e, i, v) /\ v.parent = q
  BY <1>2 DEF MoveEntry, Versions
<1> HIDE DEF v
<1>4. /\ DOMAIN entries' = DOMAIN entries
      /\ \A x \in DOMAIN entries :
            Live(entries', x).parent = IF x = e THEN q ELSE Live(entries, x).parent
  BY <1>1, <1>2, <1>3 DEF SetVersion, Live
<1>5. HomesOf(entries') = [HomesOf(entries) EXCEPT ![e] = q]
  BY <1>4 DEF HomesOf
<1> QED  BY <1>5 DEF Tree!MoveEntry, ParentsOf, HomesOf

LEMMA RemoveEntrySteps ==
    ASSUME NEW e \in DOMAIN entries, NEW i \in DOMAIN entries[e], NEW tracked \in BOOLEAN,
           RemoveEntry(e, i, tracked), ParentsOf(groups') = ParentsOf(groups)
    PROVE  Tree!RemoveEntry(e)
<1>1. entries' = Without(entries, {e})
  BY DEF RemoveEntry
<1>2. HomesOf(entries') = [x \in DOMAIN HomesOf(entries) \ {e} |-> HomesOf(entries)[x]]
  BY <1>1 DEF HomesOf, Without, Live
<1> QED  BY <1>2 DEF Tree!RemoveEntry, ParentsOf, HomesOf

\* Edits of a group, and its icon, leave the tree alone.
LEMMA GroupEditSteps ==
    ASSUME Sound, NEW g \in DOMAIN groups,
           \/ \E c \in Contents, tracked \in BOOLEAN : EditGroup(g, c, tracked)
           \/ \E icon \in {None} \cup BuiltIns : SetGroupIcon(g, icon)
           \/ \E c \in IconIds : SetGroupIconCustom(g, c)
           \/ \E c \in IconIds : SetGroupIconCustomNew(g, c)
    PROVE  AbstractSame
<1>1. ASSUME NEW c, NEW t, groups' = [groups EXCEPT ![g].content = c, ![g].mtime = t]
      PROVE  ParentsOf(groups') = ParentsOf(groups)
  BY <1>1, SameParentsOf DEF Sound, Groups
<1>2. ASSUME NEW i, groups' = [groups EXCEPT ![g].icon = i]
      PROVE  ParentsOf(groups') = ParentsOf(groups)
  BY <1>2, SameParentsOf DEF Sound, Groups
<1>3. ParentsOf(groups') = ParentsOf(groups)
  <2>1. ASSUME NEW c, NEW tracked, EditGroup(g, c, tracked)
        PROVE  ParentsOf(groups') = ParentsOf(groups)
    <3>1. groups' = [groups EXCEPT ![g].content = c,
                                   ![g].mtime = IF tracked THEN now ELSE groups[g].mtime]
      BY <2>1 DEF EditGroup, Sound, Groups
    <3> QED  BY <3>1, <1>1
  <2>2. ASSUME NEW i, SetGroupIcon(g, i) \/ SetGroupIconCustom(g, i) \/ SetGroupIconCustomNew(g, i)
        PROVE  ParentsOf(groups') = ParentsOf(groups)
    BY <1>2, <2>2 DEF SetGroupIcon, SetGroupIconCustom, SetGroupIconCustomNew
  <2> QED  BY <2>1, <2>2
<1>4. entries' = entries
  BY DEF EditGroup, SetGroupIcon, SetGroupIconCustom, SetGroupIconCustomNew
<1> QED  BY <1>3, <1>4 DEF AbstractSame

LEMMA TreeStep ==
    ASSUME Sound, Next, "remove root" \notin Liberties, "historical handle" \notin Liberties
    PROVE  Tree!Next \/ AbstractSame
<1>d. DOMAIN ParentsOf(groups) = DOMAIN groups /\ DOMAIN HomesOf(entries) = DOMAIN entries
  BY ParentsAt, HomesAt
<1>1. CASE GroupNext
  <2>1. ASSUME NEW p \in DOMAIN groups, NEW g \in GroupIds, AddGroup(p, g)
        PROVE  Tree!Next
    BY <1>d, <2>1, AddGroupSteps DEF Tree!Next, ParentsOf
  <2>2. ASSUME NEW p \in DOMAIN groups, NEW e \in EntryIds, AddEntry(p, e)
        PROVE  Tree!Next
    BY <1>d, <2>2, AddEntrySteps DEF Tree!Next, ParentsOf
  <2>3. ASSUME NEW g \in DOMAIN groups, NEW q \in DOMAIN groups, NEW tracked \in BOOLEAN,
               MoveGroup(g, q, tracked)
        PROVE  Tree!Next
    BY <1>d, <2>3, MoveGroupSteps DEF Tree!Next, ParentsOf
  <2>4. ASSUME NEW g \in DOMAIN groups, RemoveGroup(g) \/ TrackedRemoveGroup(g)
        PROVE  Tree!Next
    <3>1. g # Root
      BY <2>4 DEF RemoveGroup, TrackedRemoveGroup
    <3>2. Tree!RemoveGroup(g)
      BY <2>4, <3>1, RemoveGroupSteps
    <3> QED  BY <1>d, <3>2 DEF Tree!Next, ParentsOf
  <2> QED  BY <1>1, <2>1, <2>2, <2>3, <2>4, GroupEditSteps DEF GroupNext
<1>2. CASE EntryNext
  <2>1. ParentsOf(groups') = ParentsOf(groups)
    BY <1>2, OtherStepsSameTree, SameParentsOf DEF Sound
  <2>2. PICK e \in DOMAIN entries : \E i \in DOMAIN entries[e], tracked \in BOOLEAN :
              \/ EditCalls(e, i, tracked)
              \/ \E q \in DOMAIN groups : MoveEntry(e, i, q, tracked)
              \/ RemoveEntry(e, i, tracked)
    BY <1>2, EntryStepIsCall
  <2>3. PICK i \in DOMAIN entries[e], tracked \in BOOLEAN :
              \/ EditCalls(e, i, tracked)
              \/ \E q \in DOMAIN groups : MoveEntry(e, i, q, tracked)
              \/ RemoveEntry(e, i, tracked)
    BY <2>2
  <2>4. CASE EditCalls(e, i, tracked)
    BY <2>1, <2>4, EditsSameParents, SameHomes DEF Sound, AbstractSame
  <2>5. ASSUME NEW q \in DOMAIN groups, MoveEntry(e, i, q, tracked)
        PROVE  Tree!Next
    <3>1. Tree!MoveEntry(e, q)
      BY <2>1, <2>5, MoveEntrySteps
    <3> QED  BY <1>d, <3>1 DEF Tree!Next, ParentsOf, HomesOf
  <2>6. ASSUME RemoveEntry(e, i, tracked)
        PROVE  Tree!Next
    <3>1. Tree!RemoveEntry(e)
      BY <2>1, <2>6, RemoveEntrySteps
    <3> QED  BY <1>d, <3>1 DEF Tree!Next, HomesOf
  <2> QED  BY <2>3, <2>4, <2>5, <2>6
<1>3. CASE AttachmentNext \/ TrackerNext \/ OtherNext
  BY <1>3, OtherStepsSameTree, OtherStepsSameParents, SameParentsOf, SameHomes
     DEF Sound, AbstractSame
<1> QED  BY <1>1, <1>2, <1>3 DEF Next

\* The groups and entries of a database behave as one tree with entries at its
\* nodes: a removal takes exactly what lies below it, a move never makes a
\* cycle, and no other call adds, loses or moves a group or an entry, whatever
\* the walks over child sets and parent pointers do (GroupMut and EntryMut).
THEOREM DatabaseIsATree ==
    ASSUME "remove root" \notin Liberties, "historical handle" \notin Liberties
    PROVE  Spec => ContainmentSpec
<1> DEFINE Inv == TypeOK /\ TreeShape /\ EntryPlacement
<1>1. Spec => []Inv
  BY TypeCorrect, TreeCorrect, PlacementCorrect, PTL
<1>2. Inv => Sound
  BY TreeHolds DEF TypeOK, TreeShape, EntryPlacement, Sound
<1>3. Init /\ Inv => Tree!Init
  <2> SUFFICES ASSUME Sound
               PROVE  Tree!Init
    BY <1>2
  <2>1. Tree!IsTree(ParentsOf(groups))
    BY TreeMapsToTree DEF Sound, TypeOK, IsMap
  <2>2. /\ DOMAIN HomesOf(entries) \subseteq EntryIds
        /\ \A e \in DOMAIN HomesOf(entries) : HomesOf(entries)[e] \in DOMAIN ParentsOf(groups)
    BY ParentsAt, HomesAt DEF Sound, TypeOK, IsMap, IsPlaced
  <2> QED  BY <2>1, <2>2 DEF Tree!Init, ParentsOf, HomesOf
<1>4. Inv /\ [Next]_vars => [Tree!Next]_(Tree!vars)
  <2> SUFFICES ASSUME Sound, [Next]_vars
               PROVE  Tree!Next \/ AbstractSame
    BY <1>2 DEF AbstractSame, Tree!vars, ParentsOf, HomesOf
  <2>1. CASE UNCHANGED vars
    BY <2>1 DEF vars, AbstractSame
  <2> QED  BY <2>1, TreeStep
<1> QED  BY <1>1, <1>3, <1>4, PTL DEF Spec, ContainmentSpec, Tree!Spec

----------------------------------------------------------------------------
(* References: attachments, custom icons and hints.                        *)

\* What a version refers to is there.
Resolves(v, pool, ics) ==
    /\ RefIds(v) \subseteq DOMAIN pool
    /\ v.icon \in DOMAIN ics \cup BuiltIns \cup {None}

EntriesResolve(es, pool, ics) ==
    \A e \in DOMAIN es : \A i \in DOMAIN es[e] : Resolves(es[e][i], pool, ics)

\* The icon a group shows is there and, if it is a custom one, lists the group:
\* its removal finds the group only that way.
GroupsResolve(gs, ics) ==
    /\ \A g \in DOMAIN gs : gs[g].icon \in DOMAIN ics \cup BuiltIns \cup {None}
    /\ Backreferenced(gs, ics)

\* The same of one group g that shows `icon`
Shows(icon, g, ics) ==
    /\ icon \in DOMAIN ics \cup BuiltIns \cup {None}
    /\ icon \in DOMAIN ics => g \in ics[icon].groups

SnapshotsResolve ==
    \A k \in DOMAIN trackers :
        trackers[k].entry \in DOMAIN entries
            => Resolves(trackers[k].historical, attachments, icons)

\* Open trackers are all of one entry: a removal that goes through the one on
\* top concerns the snapshots of every other.
OneTracked == \A k \in DOMAIN trackers : trackers[k].entry = Top.entry

Inv ==
    /\ TypeOK
    /\ EntriesResolve(entries, attachments, icons)
    /\ GroupsResolve(groups, icons)
    /\ SnapshotsResolve
    /\ OneTracked

----------------------------------------------------------------------------
(* What a change of one version, of the pool or of the icons does.         *)

LEMMA NewOnesDoNotMatter ==
    ASSUME NEW v, NEW pool, NEW ics, Resolves(v, pool, ics), NEW pool2, NEW ics2,
           DOMAIN pool \subseteq DOMAIN pool2, DOMAIN ics \subseteq DOMAIN ics2
    PROVE  Resolves(v, pool2, ics2)
BY DEF Resolves

LEMMA VersionReplaced ==
    ASSUME NEW es, IsMap(es, EntryIds, Lives), NEW pool, NEW ics,
           NEW e \in DOMAIN es, NEW i \in DOMAIN es[e], NEW v, NEW pool2, NEW ics2,
           EntriesResolve(es, pool, ics), Resolves(v, pool2, ics2),
           DOMAIN pool \subseteq DOMAIN pool2, DOMAIN ics \subseteq DOMAIN ics2
    PROVE  EntriesResolve([es EXCEPT ![e][i] = v], pool2, ics2)
<1>1. ASSUME NEW x \in DOMAIN es, NEW j \in DOMAIN es[x]
      PROVE  Resolves([es EXCEPT ![e][i] = v][x][j], pool2, ics2)
  BY NewOnesDoNotMatter DEF EntriesResolve
<1>2. \A x \in DOMAIN es : DOMAIN [es EXCEPT ![e][i] = v][x] = DOMAIN es[x]
  OBVIOUS
<1> QED  BY <1>1, <1>2 DEF EntriesResolve

\* Without "reach around", what needs the whole database finds no tracker open.
LEMMA NobodyTracks ==
    ASSUME "reach around" \notin Liberties, Unborrowed, trackers' = trackers
    PROVE  trackers = <<>> /\ SnapshotsResolve' /\ OneTracked'
<1>1. trackers = <<>> /\ trackers' = <<>>
  BY DEF Unborrowed
<1>2. DOMAIN trackers' = {}
  BY <1>1, TupleDomains
<1> QED  BY <1>1, <1>2 DEF SnapshotsResolve, OneTracked

\* An id or an icon that is new to a group's or version's field is no None.
LEMMA CustomIcons ==
    ASSUME TypeOK
    PROVE  /\ DOMAIN icons \subseteq IconIds
           /\ None \notin IconIds
           /\ \A b \in BuiltIns : b \notin IconIds
BY SentinelAssumption DEF TypeOK, IsMap

----------------------------------------------------------------------------
(* Groups.                                                                 *)

LEMMA SubtreeResolves ==
    ASSUME Inv, NEW g \in DOMAIN groups, NEW S, NEW E, RemoveSubtree(g, S, E)
    PROVE  /\ EntriesResolve(entries', attachments', icons)
           /\ DOMAIN groups' = DOMAIN groups \ S
           /\ \A x \in DOMAIN groups' : groups'[x].icon = groups[x].icon
<1>1. DOMAIN groups' = DOMAIN groups \ S
  BY DEF RemoveSubtree, UnlistEntries, DropGroups
<1>2. \A x \in DOMAIN groups' : groups'[x].icon = groups[x].icon
  <2> DEFINE gs == DropGroups(groups, g, S)
  <2>1. DOMAIN gs = DOMAIN groups \ S
    BY DEF DropGroups
  <2>2. ASSUME NEW x \in DOMAIN gs
        PROVE  gs[x].icon = groups[x].icon
    <3>1. groups[x] \in Groups
      BY <2>1 DEF Inv, TypeOK, IsMap
    <3> QED  BY <2>1, <3>1 DEF DropGroups, Groups
  <2>3. IsMap(gs, GroupIds, Groups)
    BY DropGroupsType DEF Inv, TypeOK
  <2> HIDE DEF gs
  <2>4. ASSUME NEW x \in DOMAIN gs
        PROVE  UnlistEntries(gs, entries, E)[x].icon = gs[x].icon
    <3>1. gs[x] \in Groups
      BY <2>3 DEF IsMap
    <3> QED  BY <3>1 DEF UnlistEntries, Groups
  <2>5. groups' = UnlistEntries(gs, entries, E)
    BY DEF RemoveSubtree, gs
  <2> QED  BY <1>1, <2>1, <2>2, <2>4, <2>5
<1>3. EntriesResolve(entries', attachments', icons)
  <2>1. ASSUME NEW e \in DOMAIN entries', NEW i \in DOMAIN entries'[e]
        PROVE  Resolves(entries'[e][i], attachments', icons)
    <3>1. e \in DOMAIN entries \ E /\ entries'[e] = entries[e]
      BY DEF RemoveSubtree, Without
    <3>2. Resolves(entries[e][i], attachments, icons)
      BY <3>1 DEF Inv, EntriesResolve
    <3>3. RefIds(entries[e][i]) \subseteq RefIdsOf(entries, e)
      BY <3>1 DEF RefIdsOf, VersionsOf
    <3>4. RefIds(entries[e][i])
             \cap FreedBy(entries, UNION {RefIdsOf(entries, x) : x \in E}, E) = {}
      BY <3>1, <3>3 DEF FreedBy
    <3>5. DOMAIN attachments' =
             DOMAIN attachments \ FreedBy(entries, UNION {RefIdsOf(entries, x) : x \in E}, E)
      BY DEF RemoveSubtree, Without
    <3> QED  BY <3>1, <3>2, <3>4, <3>5 DEF Resolves
  <2> QED  BY <2>1 DEF EntriesResolve
<1> QED  BY <1>1, <1>2, <1>3

LEMMA GroupCalls ==
    ASSUME "reach around" \notin Liberties, Inv, GroupNext
    PROVE  Inv'
<1>t. TypeOK' /\ TypeOK
  BY GroupTypes DEF Inv
<1>i. /\ DOMAIN icons \subseteq IconIds /\ None \notin IconIds
      /\ \A b \in BuiltIns : b \notin IconIds
  BY <1>t, CustomIcons
<1>s. SnapshotsResolve' /\ OneTracked'
  <2>1. Unborrowed /\ trackers' = trackers
    BY DEF GroupNext, AddGroup, AddEntry, EditGroup, SetGroupIcon, SetGroupIconCustom,
           SetGroupIconCustomNew, MoveGroup, RemoveGroup, TrackedRemoveGroup
  <2> QED  BY <2>1, NobodyTracks
<1>g. ASSUME NEW g \in DOMAIN groups
      PROVE  /\ groups[g] \in Groups
             /\ groups[g].icon \in DOMAIN icons \cup BuiltIns \cup {None}
             /\ groups[g].icon \in DOMAIN icons => g \in icons[groups[g].icon].groups
  BY <1>t DEF Inv, TypeOK, IsMap, GroupsResolve, Backreferenced
<1>d. ASSUME NEW S
      PROVE  DOMAIN Unreference(S) = DOMAIN icons
  BY DEF Unreference
<1>u. ASSUME NEW S, NEW c \in DOMAIN icons, NEW h \in icons[c].groups,
             h \notin S \/ groups[h].icon # c
      PROVE  h \in Unreference(S)[c].groups
  <2>1. icons[c] \in Icons
    BY <1>t DEF TypeOK, IsMap
  <2>2. Unreference(S)[c].groups = icons[c].groups \ {g \in S : groups[g].icon = c}
    BY <2>1 DEF Unreference, Icons
  <2> QED  BY <1>u, <2>2
<1>e. EntriesResolve(entries, attachments, icons)
  BY DEF Inv
<1>r. ASSUME \A x \in DOMAIN groups' : Shows(groups'[x].icon, x, icons')
      PROVE  GroupsResolve(groups, icons)'
  BY <1>r DEF Shows, GroupsResolve, Backreferenced
<1>k. ASSUME UNCHANGED <<entries, attachments>>, DOMAIN icons \subseteq DOMAIN icons'
      PROVE  EntriesResolve(entries, attachments, icons)'
  BY <1>e, <1>k, NewOnesDoNotMatter DEF EntriesResolve
<1>1. ASSUME NEW p \in DOMAIN groups, NEW g \in GroupIds, AddGroup(p, g)
      PROVE  Inv'
  <2>1. ASSUME NEW x \in DOMAIN groups'
        PROVE  \/ x \in DOMAIN groups /\ groups'[x].icon = groups[x].icon
               \/ x = g /\ groups'[x].icon = None
    BY <1>1, <1>g DEF AddGroup, AddGroupTo, Put, NewGroup, Groups
  <2>2. GroupsResolve(groups, icons)'
    BY <1>1, <1>g, <1>i, <2>1 DEF GroupsResolve, Backreferenced, AddGroup
  <2> QED  BY <1>1, <1>t, <1>s, <1>k, <2>2 DEF Inv, AddGroup
<1>2. ASSUME NEW p \in DOMAIN groups, NEW e \in EntryIds, AddEntry(p, e)
      PROVE  Inv'
  <2>1. \A x \in DOMAIN groups' : x \in DOMAIN groups /\ groups'[x].icon = groups[x].icon
    BY <1>2, <1>g DEF AddEntry, Groups
  <2>2. GroupsResolve(groups, icons)'
    BY <1>2, <1>g, <2>1 DEF GroupsResolve, Backreferenced, AddEntry
  <2>3. Resolves(NewVersion(p, now), attachments, icons)
    BY DEF Resolves, RefIds, NewVersion, EmptyMap
  <2>4. entries' = Put(entries, e, <<NewVersion(p, now)>>)
    BY <1>2 DEF AddEntry
  <2>5. ASSUME NEW x \in DOMAIN entries', NEW i \in DOMAIN entries'[x]
        PROVE  Resolves(entries'[x][i], attachments, icons)
    <3>1. CASE x = e
      <4>1. entries'[x] = <<NewVersion(p, now)>>
        BY <2>4, <3>1 DEF Put
      <4>2. i = 1 /\ entries'[x][i] = NewVersion(p, now)
        <5> DEFINE new == NewVersion(p, now)
        <5> HIDE DEF new
        <5> QED  BY <2>5, <4>1, TupleDomains DEF new
      <4> QED  BY <2>3, <4>2
    <3>2. CASE x # e
      BY <1>e, <2>4, <2>5, <3>2 DEF Put, EntriesResolve
    <3> QED  BY <3>1, <3>2
  <2>6. EntriesResolve(entries, attachments, icons)'
    BY <1>2, <2>5 DEF EntriesResolve, AddEntry
  <2> QED  BY <1>2, <1>t, <1>s, <2>2, <2>6 DEF Inv
<1>3. ASSUME NEW g \in DOMAIN groups, NEW c \in Contents, NEW tracked \in BOOLEAN,
             EditGroup(g, c, tracked)
      PROVE  Inv'
  <2>1. \A x \in DOMAIN groups' : x \in DOMAIN groups /\ groups'[x].icon = groups[x].icon
    BY <1>3, <1>g DEF EditGroup, Groups
  <2>2. GroupsResolve(groups, icons)'
    BY <1>3, <1>g, <2>1 DEF GroupsResolve, Backreferenced, EditGroup
  <2> QED  BY <1>3, <1>t, <1>s, <1>k, <2>2 DEF Inv, EditGroup
<1>4. ASSUME NEW g \in DOMAIN groups, NEW v, groups' = [groups EXCEPT ![g].icon = v]
      PROVE  /\ DOMAIN groups' = DOMAIN groups
             /\ groups'[g].icon = v
             /\ \A x \in DOMAIN groups : x # g => groups'[x].icon = groups[x].icon
  BY <1>4, <1>g DEF Groups
<1>5. ASSUME NEW g \in DOMAIN groups, NEW icon \in {None} \cup BuiltIns,
             SetGroupIcon(g, icon)
      PROVE  Inv'
  <2>1. /\ groups' = [groups EXCEPT ![g].icon = icon]
        /\ icons' = Unreference({g})
    BY <1>5 DEF SetGroupIcon
  <2>2. GroupsResolve(groups, icons)'
    <3>1. ASSUME NEW x \in DOMAIN groups, x # g
          PROVE  Shows(groups'[x].icon, x, icons')
      <4>1. groups'[x].icon = groups[x].icon
        BY <1>4, <2>1, <3>1
      <4> QED  BY <1>d, <1>g, <1>u, <2>1, <3>1, <4>1 DEF Shows
    <3>2. Shows(groups'[g].icon, g, icons')
      <4>1. groups'[g].icon = icon /\ icon \notin DOMAIN icons'
        BY <1>d, <1>i, <1>4, <2>1
      <4> QED  BY <4>1 DEF Shows
    <3> QED  BY <1>4, <1>r, <2>1, <3>1, <3>2
  <2>3. DOMAIN icons' = DOMAIN icons
    BY <2>1 DEF Unreference
  <2> QED  BY <1>5, <1>t, <1>s, <1>k, <2>2, <2>3 DEF Inv, SetGroupIcon
<1>6. ASSUME NEW g \in DOMAIN groups, NEW c \in IconIds, SetGroupIconCustom(g, c)
      PROVE  Inv'
  <2>1. groups' = [groups EXCEPT ![g].icon = IF c \in DOMAIN icons THEN c ELSE None]
    BY <1>6 DEF SetGroupIconCustom
  <2>2. DOMAIN icons' = DOMAIN icons
    BY <1>6 DEF SetGroupIconCustom
  <2>3. ASSUME NEW x \in DOMAIN icons
        PROVE  icons'[x].groups = (icons[x].groups \ {h \in {g} : groups[h].icon = x})
                                     \cup (IF x = c THEN {g} ELSE {})
    <3> DEFINE cleared == Unreference({g})
    <3>1. /\ cleared[x].groups = icons[x].groups \ {h \in {g} : groups[h].icon = x}
          /\ cleared[x] \in Icons
      <4>1. icons[x] \in Icons
        BY <1>t DEF TypeOK, IsMap
      <4> QED  BY <4>1 DEF Icons, Unreference
    <3>2. icons'[x] = [cleared[x] EXCEPT !.groups = @ \cup (IF x = c THEN {g} ELSE {})]
      BY <1>6 DEF SetGroupIconCustom
    <3> HIDE DEF cleared
    <3> QED  BY <3>1, <3>2 DEF Icons
  <2>4. GroupsResolve(groups, icons)'
    <3>1. ASSUME NEW x \in DOMAIN groups, x # g
          PROVE  Shows(groups'[x].icon, x, icons')
      <4>1. groups'[x].icon = groups[x].icon
        BY <1>4, <2>1, <3>1
      <4> QED  BY <1>g, <2>2, <2>3, <3>1, <4>1 DEF Shows
    <3>2. Shows(groups'[g].icon, g, icons')
      <4>1. groups'[g].icon = IF c \in DOMAIN icons THEN c ELSE None
        BY <1>4, <2>1
      <4> QED  BY <1>i, <2>2, <2>3, <4>1 DEF Shows
    <3> QED  BY <1>4, <1>r, <2>1, <3>1, <3>2
  <2> QED  BY <1>6, <1>t, <1>s, <1>k, <2>2, <2>4 DEF Inv, SetGroupIconCustom
<1>7. ASSUME NEW g \in DOMAIN groups, NEW c \in IconIds, SetGroupIconCustomNew(g, c)
      PROVE  Inv'
  <2>1. /\ groups' = [groups EXCEPT ![g].icon = c]
        /\ icons' = Put(Unreference({g}), c, [groups |-> {g}, mtime |-> now])
        /\ c \notin DOMAIN icons
    BY <1>7 DEF SetGroupIconCustomNew, IsFreshIcon
  <2>2. /\ DOMAIN icons' = DOMAIN icons \cup {c}
        /\ icons'[c].groups = {g}
        /\ \A x \in DOMAIN icons : icons'[x] = Unreference({g})[x]
    BY <2>1 DEF Put, Unreference
  <2>3. GroupsResolve(groups, icons)'
    <3>1. ASSUME NEW x \in DOMAIN groups, x # g
          PROVE  Shows(groups'[x].icon, x, icons')
      <4>1. groups'[x].icon = groups[x].icon /\ groups[x].icon # c
        <5>1. groups'[x].icon = groups[x].icon
          BY <1>4, <2>1, <3>1
        <5>2. groups[x].icon \in DOMAIN icons \cup BuiltIns \cup {None}
          BY <1>g
        <5>3. c \notin DOMAIN icons \cup BuiltIns \cup {None}
          BY <1>i, <2>1
        <5> QED  BY <5>1, <5>2, <5>3
      <4>2. ASSUME groups[x].icon \in DOMAIN icons
            PROVE  x \in icons'[groups[x].icon].groups
        <5>1. x \in Unreference({g})[groups[x].icon].groups
          BY <1>g, <1>u, <3>1, <4>2
        <5> QED  BY <2>2, <4>2, <5>1
      <4> QED  BY <1>g, <2>2, <4>1, <4>2 DEF Shows
    <3>2. Shows(groups'[g].icon, g, icons')
      BY <1>4, <2>1, <2>2 DEF Shows
    <3> QED  BY <1>4, <1>r, <2>1, <3>1, <3>2
  <2> QED  BY <1>7, <1>t, <1>s, <1>k, <2>2, <2>3 DEF Inv, SetGroupIconCustomNew
<1>8. ASSUME NEW g \in DOMAIN groups, NEW q \in DOMAIN groups, NEW tracked \in BOOLEAN,
             MoveGroup(g, q, tracked)
      PROVE  Inv'
  <2> DEFINE moved == MoveGroupTo(groups, g, q)
  <2>1. ASSUME NEW x \in DOMAIN groups
        PROVE  moved[x].icon = groups[x].icon
    <3>1. \E kids, up, prev :
             moved[x] = [groups[x] EXCEPT !.groups = kids, !.parent = up, !.prev = prev]
      BY DEF MoveGroupTo
    <3> QED  BY <1>g, <3>1 DEF Groups
  <2>2. IsMap(moved, GroupIds, Groups) /\ DOMAIN moved = DOMAIN groups
    <3>1. IsMap(moved, GroupIds, Groups)
      BY <1>t, MoveGroupType DEF TypeOK
    <3>2. DOMAIN moved = DOMAIN groups
      BY DEF MoveGroupTo
    <3> QED  BY <3>1, <3>2
  <2>3. groups' = [moved EXCEPT ![g].ltime = IF tracked THEN now ELSE @]
    BY <1>8 DEF MoveGroup
  <2> HIDE DEF moved
  <2>4. \A x \in DOMAIN groups' : x \in DOMAIN groups /\ groups'[x].icon = groups[x].icon
    BY <2>1, <2>2, <2>3 DEF IsMap, Groups
  <2>5. GroupsResolve(groups, icons)'
    BY <1>8, <1>g, <2>4 DEF GroupsResolve, Backreferenced, MoveGroup
  <2> QED  BY <1>8, <1>t, <1>s, <1>k, <2>5 DEF Inv, MoveGroup
<1>9. ASSUME NEW g \in DOMAIN groups, RemoveGroup(g)
      PROVE  Inv'
  <2> DEFINE S == Subtree(groups, g)
             E == EntriesUnder(groups, S) \cap DOMAIN entries
  <2>1. RemoveSubtree(g, S, E) /\ icons' = Unreference(S)
    BY <1>9 DEF RemoveGroup
  <2> HIDE DEF S, E
  <2>2. /\ EntriesResolve(entries', attachments', icons)
        /\ DOMAIN groups' = DOMAIN groups \ S
        /\ \A x \in DOMAIN groups' : groups'[x].icon = groups[x].icon
    BY <2>1, SubtreeResolves
  <2>3. DOMAIN icons' = DOMAIN icons
    BY <2>1 DEF Unreference
  <2>4. EntriesResolve(entries, attachments, icons)'
    BY <2>2, <2>3 DEF EntriesResolve, Resolves
  <2>5. GroupsResolve(groups, icons)'
    <3>1. ASSUME NEW x \in DOMAIN groups, x \notin S
          PROVE  Shows(groups[x].icon, x, icons')
      <4>1. ASSUME groups[x].icon \in DOMAIN icons
            PROVE  x \in Unreference(S)[groups[x].icon].groups
        BY <1>g, <1>u, <3>1, <4>1
      <4> QED  BY <1>g, <2>1, <2>3, <4>1 DEF Shows
    <3> QED  BY <1>r, <2>2, <3>1
  <2> QED  BY <1>t, <1>s, <2>4, <2>5 DEF Inv
<1>10. ASSUME NEW g \in DOMAIN groups, TrackedRemoveGroup(g)
       PROVE  Inv'
  <2> DEFINE S == Subtree(groups, g)
             E == EntriesUnder(groups, S) \cap DOMAIN entries
  <2>1. RemoveSubtree(g, S, E) /\ icons' = icons
    BY <1>10 DEF TrackedRemoveGroup
  <2> HIDE DEF S, E
  <2>2. /\ EntriesResolve(entries', attachments', icons)
        /\ DOMAIN groups' = DOMAIN groups \ S
        /\ \A x \in DOMAIN groups' : groups'[x].icon = groups[x].icon
    BY <2>1, SubtreeResolves
  <2>3. GroupsResolve(groups, icons)'
    BY <1>g, <2>1, <2>2 DEF GroupsResolve, Backreferenced
  <2> QED  BY <1>t, <1>s, <2>1, <2>2, <2>3 DEF Inv
<1> QED
  BY <1>1, <1>2, <1>3, <1>5, <1>6, <1>7, <1>8, <1>9, <1>10 DEF GroupNext

----------------------------------------------------------------------------
(* Entries.                                                                *)

LEMMA GroupsUntouched ==
    ASSUME Inv, UNCHANGED <<groups, icons>>
    PROVE  GroupsResolve(groups, icons)'
BY DEF Inv, GroupsResolve, Backreferenced

\* One version is overwritten; the pool and the icons lose nothing.
LEMMA OneVersionChanged ==
    ASSUME Inv, TypeOK', NEW e \in DOMAIN entries, NEW i \in DOMAIN entries[e], NEW w,
           SetVersion(e, i, w), trackers' = trackers,
           Resolves(w, attachments', icons'), GroupsResolve(groups, icons)',
           DOMAIN attachments \subseteq DOMAIN attachments', DOMAIN icons \subseteq DOMAIN icons'
    PROVE  Inv'
<1>1. entries' = [entries EXCEPT ![e][i] = w] /\ DOMAIN entries' = DOMAIN entries
  BY DEF SetVersion
<1>2. EntriesResolve(entries, attachments, icons)'
  BY <1>1, VersionReplaced DEF Inv, TypeOK, Lives
<1>3. SnapshotsResolve'
  <2>1. ASSUME NEW k \in DOMAIN trackers, trackers[k].entry \in DOMAIN entries
        PROVE  Resolves(trackers[k].historical, attachments', icons')
    BY <2>1, NewOnesDoNotMatter DEF Inv, SnapshotsResolve
  <2> QED  BY <1>1, <2>1 DEF SnapshotsResolve
<1>4. OneTracked'
  BY DEF Inv, OneTracked, Top
<1> QED  BY <1>2, <1>3, <1>4 DEF Inv

LEMMA EntryCalls ==
    ASSUME "reach around" \notin Liberties, Inv, EntryNext
    PROVE  Inv'
<1>t. TypeOK' /\ TypeOK /\ IsMap(entries, EntryIds, Lives)
  BY EntryTypes DEF Inv, TypeOK, Lives
<1>i. /\ DOMAIN icons \subseteq IconIds /\ None \notin IconIds
      /\ \A b \in BuiltIns : b \notin IconIds
  BY <1>t, CustomIcons
<1>1. PICK e \in DOMAIN entries : \E i \in DOMAIN entries[e], tracked \in BOOLEAN :
        \/ \E c \in Contents : EditEntry(e, i, c, tracked)
        \/ \E q \in DOMAIN groups : MoveEntry(e, i, q, tracked)
        \/ RemoveEntry(e, i, tracked)
        \/ \E icon \in {None} \cup BuiltIns : SetEntryIcon(e, i, icon, tracked)
        \/ \E c \in IconIds : SetEntryIconCustom(e, i, c, tracked)
        \/ \E c \in IconIds : SetEntryIconCustomNew(e, i, c, tracked)
        \/ \E n \in Names, b \in Binaries : AddAttachment(e, i, n, b, tracked)
  BY DEF EntryNext
<1>2. PICK i \in DOMAIN entries[e], tracked \in BOOLEAN :
        \/ \E c \in Contents : EditEntry(e, i, c, tracked)
        \/ \E q \in DOMAIN groups : MoveEntry(e, i, q, tracked)
        \/ RemoveEntry(e, i, tracked)
        \/ \E icon \in {None} \cup BuiltIns : SetEntryIcon(e, i, icon, tracked)
        \/ \E c \in IconIds : SetEntryIconCustom(e, i, c, tracked)
        \/ \E c \in IconIds : SetEntryIconCustomNew(e, i, c, tracked)
        \/ \E n \in Names, b \in Binaries : AddAttachment(e, i, n, b, tracked)
  BY <1>1
<1> DEFINE v == entries[e][i]
           u == Stamped(v, tracked)
<1>v. /\ v \in Versions /\ Resolves(v, attachments, icons)
      /\ v.icon \in DOMAIN icons \cup BuiltIns \cup {None}
  BY <1>t, VersionTyped DEF Inv, EntriesResolve, Resolves
<1>u. /\ u \in Versions /\ u.attachments = v.attachments /\ u.icon = v.icon
  BY <1>t, <1>v DEF TypeOK, Stamped, Versions, Times
<1> HIDE DEF u, v
<1>3. ASSUME NEW c \in Contents, EditEntry(e, i, c, tracked)
      PROVE  Inv'
  <2>1. Resolves([u EXCEPT !.content = c], attachments, icons)
    BY <1>u, <1>v DEF Resolves, RefIds, Versions
  <2> QED  BY <1>t, <1>3, GroupsUntouched, OneVersionChanged, <2>1 DEF EditEntry, u, v
<1>4. ASSUME NEW q \in DOMAIN groups, MoveEntry(e, i, q, tracked)
      PROVE  Inv'
  <2> DEFINE t == IF tracked THEN now ELSE v.ltime
             w == [v EXCEPT !.parent = q, !.prev = v.parent, !.ltime = t]
  <2>1. SetVersion(e, i, w)
    BY <1>4 DEF MoveEntry, v
  <2>2. Resolves(w, attachments, icons)
    <3> HIDE DEF t
    <3> QED  BY <1>v DEF Resolves, RefIds, Versions
  <2>3. ASSUME NEW x \in DOMAIN groups
        PROVE  RelistEntry(groups, e, v.parent, q)[x].icon = groups[x].icon
    <3>1. groups[x] \in Groups
      BY <1>t DEF TypeOK, IsMap
    <3> QED  BY <3>1 DEF RelistEntry, Groups
  <2>4. groups' = RelistEntry(groups, e, v.parent, q)
    BY <1>4 DEF MoveEntry, v
  <2>5. DOMAIN groups' = DOMAIN groups
    BY <2>4 DEF RelistEntry
  <2>6. GroupsResolve(groups, icons)'
    BY <1>4, <2>3, <2>4, <2>5 DEF Inv, GroupsResolve, Backreferenced, MoveEntry
  <2> HIDE DEF w
  <2> QED  BY <1>t, <1>4, OneVersionChanged, <2>1, <2>2, <2>6 DEF MoveEntry
<1>5. ASSUME RemoveEntry(e, i, tracked)
      PROVE  Inv'
  <2>1. \A x \in DOMAIN entries' :
           x \in DOMAIN entries /\ x # e /\ entries'[x] = entries[x]
    BY <1>5 DEF RemoveEntry, Without
  <2>2. ASSUME NEW x \in DOMAIN entries', NEW j \in DOMAIN entries'[x]
        PROVE  Resolves(entries'[x][j], attachments', icons')
    <3>1. RefIds(entries[x][j]) \subseteq RefIdsOf(entries, x)
      BY <2>1, <2>2 DEF RefIdsOf, VersionsOf
    <3>2. RefIds(entries[x][j]) \cap FreedBy(entries, IdsToDrop(e, i), {e}) = {}
      BY <2>1, <3>1 DEF FreedBy
    <3>3. DOMAIN attachments' = DOMAIN attachments \ FreedBy(entries, IdsToDrop(e, i), {e})
      BY <1>5 DEF RemoveEntry, Without
    <3>4. Resolves(entries[x][j], attachments, icons) /\ icons' = icons
      BY <1>5, <2>1 DEF Inv, EntriesResolve, RemoveEntry
    <3> QED  BY <2>1, <3>2, <3>3, <3>4 DEF Resolves
  <2>3. GroupsResolve(groups, icons)'
    <3>1. ASSUME NEW x \in DOMAIN groups
          PROVE  UnlistEntries(groups, entries, {e})[x].icon = groups[x].icon
      <4>1. groups[x] \in Groups
        BY <1>t DEF TypeOK, IsMap
      <4> QED  BY <4>1 DEF UnlistEntries, Groups
    <3>2. /\ groups' = UnlistEntries(groups, entries, {e}) /\ icons' = icons
          /\ DOMAIN groups' = DOMAIN groups
      BY <1>5 DEF RemoveEntry, UnlistEntries
    <3> QED  BY <3>1, <3>2 DEF Inv, GroupsResolve, Backreferenced
  <2>4. \A k \in DOMAIN trackers' : k \in DOMAIN trackers /\ trackers'[k] = trackers[k]
    <3>1. CASE tracked
      <4>1. trackers # <<>> /\ trackers' = SubSeq(trackers, 1, Len(trackers) - 1)
        BY <1>5, <3>1 DEF RemoveEntry, CanCallOnMain, CanEdit, IsTracked
      <4> QED  BY <1>t, <4>1, TrackersAreSeq, UnderTop
    <3>2. CASE ~tracked
      BY <1>5, <3>2 DEF RemoveEntry
    <3> QED  BY <3>1, <3>2
  <2>5. \A k \in DOMAIN trackers : trackers[k].entry = e
    <3>1. trackers # <<>> => Top.entry = e
      BY <1>5 DEF RemoveEntry, CanCallOnMain, CanEdit, HasHandle, Unborrowed, IsTracked
    <3>2. trackers = <<>> => DOMAIN trackers = {}
      BY TupleDomains
    <3> QED  BY <3>1, <3>2 DEF Inv, OneTracked
  <2>6. SnapshotsResolve'
    BY <2>1, <2>4, <2>5 DEF SnapshotsResolve
  <2>7. OneTracked'
    <3>1. ASSUME NEW k \in DOMAIN trackers'
          PROVE  trackers' # <<>>
      BY <3>1, TupleDomains
    <3>2. trackers' # <<>> => Len(trackers') \in DOMAIN trackers'
      <4>1. trackers' \in Seq([entry : EntryIds, historical : Versions])
        BY <1>t DEF TypeOK
      <4> QED  BY <4>1, TopOf
    <3>3. ASSUME NEW k \in DOMAIN trackers'
          PROVE  trackers'[k].entry = trackers'[Len(trackers')].entry
      BY <2>4, <2>5, <3>1, <3>2
    <3> QED  BY <3>3 DEF OneTracked, Top
  <2>8. EntriesResolve(entries, attachments, icons)'
    BY <2>2 DEF EntriesResolve
  <2> QED  BY <1>t, <2>3, <2>6, <2>7, <2>8 DEF Inv
<1>6. ASSUME NEW icon \in {None} \cup BuiltIns, SetEntryIcon(e, i, icon, tracked)
      PROVE  Inv'
  <2>1. Resolves([u EXCEPT !.icon = icon], attachments, icons)
    BY <1>u, <1>v DEF Resolves, RefIds, Versions
  <2> QED  BY <1>t, <1>6, GroupsUntouched, OneVersionChanged, <2>1 DEF SetEntryIcon, u, v
<1>7. ASSUME NEW c \in IconIds, SetEntryIconCustom(e, i, c, tracked)
      PROVE  Inv'
  <2> DEFINE w == IF c \in DOMAIN icons THEN [u EXCEPT !.icon = c] ELSE [v EXCEPT !.icon = None]
  <2>1. Resolves(w, attachments, icons)
    BY <1>u, <1>v DEF Resolves, RefIds, Versions
  <2>2. SetVersion(e, i, w)
    BY <1>7 DEF SetEntryIconCustom, u, v
  <2> HIDE DEF w
  <2> QED  BY <1>t, <1>7, GroupsUntouched, OneVersionChanged, <2>1, <2>2 DEF SetEntryIconCustom
<1>8. ASSUME NEW c \in IconIds, SetEntryIconCustomNew(e, i, c, tracked)
      PROVE  Inv'
  <2>1. /\ SetVersion(e, i, [u EXCEPT !.icon = c])
        /\ icons' = Put(icons, c, [groups |-> {}, mtime |-> now])
        /\ c \notin DOMAIN icons
    BY <1>8 DEF SetEntryIconCustomNew, IsFreshIcon, u, v
  <2>2. /\ DOMAIN icons' = DOMAIN icons \cup {c}
        /\ \A x \in DOMAIN icons : icons'[x] = icons[x]
    BY <2>1 DEF Put
  <2>3. Resolves([u EXCEPT !.icon = c], attachments, icons')
    BY <1>u, <1>v, <2>2 DEF Resolves, RefIds, Versions
  <2>4. GroupsResolve(groups, icons)'
    <3>1. \A g \in DOMAIN groups : groups[g].icon # c
      BY <1>i, <2>1 DEF Inv, GroupsResolve
    <3>2. groups' = groups
      BY <1>8 DEF SetEntryIconCustomNew
    <3> QED  BY <2>2, <3>1, <3>2 DEF Inv, GroupsResolve, Backreferenced
  <2> QED  BY <1>t, <1>8, OneVersionChanged, <2>1, <2>2, <2>3, <2>4 DEF SetEntryIconCustomNew
<1>9. ASSUME NEW n \in Names, NEW b \in Binaries, AddAttachment(e, i, n, b, tracked)
      PROVE  Inv'
  <2>1. PICK id \in AttachmentIds :
          /\ attachments' = Put(attachments, id, b)
          /\ LET m == Put(u.attachments, n, id)
             IN SetVersion(e, i, [u EXCEPT !.attachments =
                    IF n \in DOMAIN u.attachments THEN ForgetId(m, u.attachments[n]) ELSE m])
    BY <1>9 DEF AddAttachment, u, v
  <2> DEFINE m == Put(u.attachments, n, id)
             m2 == IF n \in DOMAIN u.attachments THEN ForgetId(m, u.attachments[n]) ELSE m
             w == [u EXCEPT !.attachments = m2]
  <2>2. DOMAIN attachments' = DOMAIN attachments \cup {id}
    BY <2>1 DEF Put
  <2>3. \A x \in DOMAIN m : m[x] \in DOMAIN attachments'
    BY <1>u, <1>v, <2>2 DEF Put, Resolves, RefIds
  <2> HIDE DEF m
  <2>4. \A x \in DOMAIN m2 : m2[x] \in DOMAIN attachments'
    BY <2>3 DEF ForgetId, Without
  <2> HIDE DEF m2
  <2>5. w.attachments = m2 /\ w.icon = u.icon
    BY <1>u DEF Versions
  <2>6. Resolves(w, attachments', icons)
    BY <1>u, <1>v, <2>4, <2>5 DEF Resolves, RefIds
  <2>7. SetVersion(e, i, w)
    BY <2>1 DEF m, m2
  <2> HIDE DEF w
  <2> QED  BY <1>t, <1>9, GroupsUntouched, OneVersionChanged, <2>2, <2>6, <2>7 DEF AddAttachment
<1> QED  BY <1>2, <1>3, <1>4, <1>5, <1>6, <1>7, <1>8, <1>9

----------------------------------------------------------------------------
(* Binaries.                                                               *)

LEMMA CompactionResolves ==
    ASSUME NEW es, IsMap(es, EntryIds, Lives), NEW pool, NEW ics, NEW kept,
           EntriesResolve(es, pool, ics)
    PROVE  EntriesResolve(CompactedEntries(es, kept), CompactedPool(pool, kept), ics)
<1>1. ASSUME NEW e \in DOMAIN es, NEW i \in DOMAIN es[e]
      PROVE  Resolves([es[e][i] EXCEPT !.attachments = RemapRefs(@, kept)],
                      CompactedPool(pool, kept), ics)
  <2> DEFINE v == es[e][i]
             w == [v EXCEPT !.attachments = RemapRefs(@, kept)]
  <2>1. v \in Versions /\ v.icon \in DOMAIN ics \cup BuiltIns \cup {None}
    BY VersionTyped DEF EntriesResolve, Resolves
  <2> HIDE DEF v
  <2>2. w.attachments = RemapRefs(v.attachments, kept) /\ w.icon = v.icon
    BY <2>1 DEF Versions
  <2>3. DOMAIN CompactedPool(pool, kept) = {Rank(kept, id) : id \in kept}
    BY DEF CompactedPool
  <2>4. \A r \in RefIds(w) : \E id \in kept : r = Rank(kept, id)
    BY <2>2 DEF RefIds, RemapRefs
  <2> HIDE DEF w
  <2>5. Resolves(w, CompactedPool(pool, kept), ics)
    BY <2>1, <2>2, <2>3, <2>4 DEF Resolves
  <2> QED  BY <2>5 DEF v, w
<1> QED  BY <1>1 DEF EntriesResolve, CompactedEntries, MapVersions

LEMMA AttachmentCalls ==
    ASSUME "reach around" \notin Liberties, Inv, AttachmentNext
    PROVE  Inv'
<1>t. TypeOK' /\ TypeOK /\ IsMap(entries, EntryIds, Lives)
  BY AttachmentTypes DEF Inv, TypeOK, Lives
<1>v. ASSUME NEW e \in DOMAIN entries, NEW i \in DOMAIN entries[e]
      PROVE  /\ entries[e][i] \in Versions
             /\ Resolves(entries[e][i], attachments, icons)
  BY <1>t, VersionTyped DEF Inv, EntriesResolve
\* A version forgets some of its names.
<1>f. ASSUME NEW v \in Versions, Resolves(v, attachments, icons), NEW S, NEW w,
             w = [v EXCEPT !.attachments = Without(@, S)]
      PROVE  Resolves(w, attachments, icons)
  <2>1. w.attachments = Without(v.attachments, S) /\ w.icon = v.icon
    BY <1>f DEF Versions
  <2>2. RefIds(w) \subseteq RefIds(v)
    BY <2>1 DEF RefIds, Without
  <2> QED  BY <1>f, <2>1, <2>2 DEF Resolves
<1>1. ASSUME NEW e \in DOMAIN entries, NEW i \in DOMAIN entries[e], NEW S,
             SetVersion(e, i, [entries[e][i] EXCEPT !.attachments = Without(@, S)]),
             UNCHANGED <<groups, attachments, icons, meta, deleted, trackers, now>>
      PROVE  Inv'
  <2> DEFINE w == [entries[e][i] EXCEPT !.attachments = Without(@, S)]
  <2>1. Resolves(w, attachments, icons) /\ SetVersion(e, i, w)
    BY <1>1, <1>f, <1>v
  <2> HIDE DEF w
  <2> QED  BY <1>t, <1>1, <2>1, OneVersionChanged, GroupsUntouched
<1>2. ASSUME NEW e \in DOMAIN entries, NEW i \in DOMAIN entries[e], NEW n \in Names,
             RemoveAttachmentByName(e, i, n)
      PROVE  Inv'
  BY <1>1, <1>2 DEF RemoveAttachmentByName
<1>3. ASSUME NEW e \in DOMAIN entries, NEW i \in DOMAIN entries[e], NEW id \in AttachmentIds,
             RemoveAttachmentById(e, i, id)
      PROVE  Inv'
  BY <1>1, <1>3 DEF RemoveAttachmentById, ForgetId
<1>4. ASSUME NEW id \in DOMAIN attachments, NEW b \in Binaries, EditAttachment(id, b)
      PROVE  Inv'
  <2>1. DOMAIN attachments' = DOMAIN attachments
    BY <1>4 DEF EditAttachment
  <2>2. EntriesResolve(entries, attachments, icons)'
    BY <1>4, <2>1 DEF Inv, EntriesResolve, Resolves, EditAttachment
  <2> QED  BY <1>t, <1>4, <2>2, NobodyTracks, GroupsUntouched DEF Inv, EditAttachment
<1>5. ASSUME NEW id \in DOMAIN attachments, RemoveAttachment(id)
      PROVE  Inv'
  <2>1. ASSUME NEW e \in DOMAIN entries, NEW i \in DOMAIN entries[e]
        PROVE  Resolves([entries[e][i] EXCEPT !.attachments = ForgetId(@, id)],
                        attachments', icons)
    <3> DEFINE v == entries[e][i]
               w == [v EXCEPT !.attachments = ForgetId(@, id)]
    <3>1. v \in Versions /\ Resolves(v, attachments, icons)
      BY <1>v
    <3> HIDE DEF v
    <3>2. w.attachments = ForgetId(v.attachments, id) /\ w.icon = v.icon
      BY <3>1 DEF Versions
    <3>3. RefIds(w) \subseteq RefIds(v) \ {id}
      BY <3>2 DEF RefIds, ForgetId, Without
    <3>4. DOMAIN attachments' = DOMAIN attachments \ {id}
      BY <1>5 DEF RemoveAttachment, Without
    <3> HIDE DEF w
    <3>5. Resolves(w, attachments', icons)
      BY <3>1, <3>2, <3>3, <3>4 DEF Resolves
    <3> QED  BY <3>5 DEF v, w
  <2>2. EntriesResolve(entries, attachments, icons)'
    BY <1>5, <2>1 DEF EntriesResolve, RemoveAttachment, MapVersions
  <2> QED  BY <1>t, <1>5, <2>2, NobodyTracks, GroupsUntouched DEF Inv, RemoveAttachment
<1>6. ASSUME CompactAttachments
      PROVE  Inv'
  <2> DEFINE kept == KeptIds(entries, attachments)
  <2>1. /\ entries' = CompactedEntries(entries, kept)
        /\ attachments' = CompactedPool(attachments, kept)
    BY <1>6 DEF CompactAttachments
  <2> HIDE DEF kept
  <2>2. EntriesResolve(CompactedEntries(entries, kept), CompactedPool(attachments, kept), icons)
    BY <1>t, CompactionResolves DEF Inv
  <2>3. EntriesResolve(entries, attachments, icons)'
    BY <1>6, <2>1, <2>2 DEF CompactAttachments
  <2> QED  BY <1>t, <1>6, <2>3, NobodyTracks, GroupsUntouched DEF Inv, CompactAttachments
<1> QED  BY <1>2, <1>3, <1>4, <1>5, <1>6 DEF AttachmentNext

----------------------------------------------------------------------------
(* Trackers, custom icons and the rest.                                    *)

LEMMA HistoryGrows ==
    ASSUME NEW vs \in Lives, NEW h \in Versions, NEW j \in DOMAIN WithHistory(vs, h)
    PROVE  WithHistory(vs, h)[j] = h \/ \E i \in DOMAIN vs : WithHistory(vs, h)[j] = vs[i]
<1> DEFINE n == Len(vs)
<1>1. n \in Nat \ {0} /\ DOMAIN vs = 1 .. n /\ j \in 1 .. n + 1
  BY WithHistoryAt
<1>2. CASE j = 1
  BY <1>1, <1>2, WithHistoryAt
<1>3. CASE j = 2
  BY <1>3, WithHistoryAt
<1>4. CASE j > 2
  <2> DEFINE i == j - 1
  <2>1. i \in 2 .. n /\ i + 1 = j /\ i \in DOMAIN vs
    BY <1>1, <1>4
  <2> HIDE DEF i, n
  <2>2. WithHistory(vs, h)[i + 1] = vs[i]
    BY <2>1, WithHistoryAt DEF n
  <2> QED  BY <2>1, <2>2
<1> QED  BY <1>1, <1>2, <1>3, <1>4

LEMMA TrackerCalls ==
    ASSUME "reach around" \notin Liberties, Inv, TrackerNext
    PROVE  Inv'
<1>t. TypeOK' /\ TypeOK /\ IsMap(entries, EntryIds, Lives)
  BY TrackerTypes DEF Inv, TypeOK, Lives
<1> DEFINE T == [entry : EntryIds, historical : Versions]
<1>s. trackers \in Seq(T) /\ trackers' \in Seq(T)
  BY <1>t DEF TypeOK
<1> HIDE DEF T
<1>1. ASSUME NEW e \in DOMAIN entries, NEW i \in DOMAIN entries[e], TrackChanges(e, i)
      PROVE  Inv'
  <2> DEFINE opened == [entry |-> e, historical |-> entries[e][i]]
  <2>1. trackers' = Append(trackers, opened)
    BY <1>1 DEF TrackChanges
  <2>2. opened \in T
    BY <1>t, VersionTyped DEF T
  <2>3. Resolves(opened.historical, attachments, icons) /\ opened.entry = e
    BY DEF Inv, EntriesResolve
  <2>4. \A k \in DOMAIN trackers : trackers[k].entry = e
    <3>1. trackers # <<>> => Top.entry = e
      BY <1>1 DEF TrackChanges, CanCallOnMain, CanEdit, HasHandle, Unborrowed, IsTracked
    <3>2. trackers = <<>> => DOMAIN trackers = {}
      BY TupleDomains
    <3> QED  BY <3>1, <3>2 DEF Inv, OneTracked
  <2> HIDE DEF opened
  <2>5. /\ trackers'[Len(trackers')] = opened
        /\ DOMAIN trackers' = DOMAIN trackers \cup {Len(trackers')}
        /\ \A k \in DOMAIN trackers : trackers'[k] = trackers[k]
    BY <1>t, <2>1, <2>2, TrackerOpened DEF T
  <2>6. OneTracked'
    BY <2>3, <2>4, <2>5 DEF OneTracked, Top
  <2>7. SnapshotsResolve'
    BY <1>1, <2>3, <2>5 DEF Inv, SnapshotsResolve, TrackChanges
  <2>8. EntriesResolve(entries, attachments, icons)'
    BY <1>1 DEF Inv, TrackChanges
  <2> QED  BY <1>t, <1>1, <2>6, <2>7, <2>8, GroupsUntouched DEF Inv, TrackChanges
<1>2. ASSUME DropTracker
      PROVE  Inv'
  <2>1. /\ trackers # <<>> /\ trackers' = SubSeq(trackers, 1, Len(trackers) - 1)
        /\ UNCHANGED <<groups, attachments, icons>>
    BY <1>2 DEF DropTracker
  <2>2. Len(trackers) \in DOMAIN trackers /\ Top \in T
    BY <1>s, <2>1, TopOf DEF Top
  <2>3. \A k \in DOMAIN trackers' : k \in DOMAIN trackers /\ trackers'[k] = trackers[k]
    BY <1>s, <2>1, UnderTop
  <2>4. Top.entry \in DOMAIN entries => Resolves(Top.historical, attachments, icons)
    BY <2>2 DEF Inv, SnapshotsResolve, Top
  <2>5. DOMAIN entries' = DOMAIN entries
    BY <1>2 DEF DropTracker
  <2>6. ASSUME NEW x \in DOMAIN entries, NEW j \in DOMAIN entries'[x]
        PROVE  Resolves(entries'[x][j], attachments, icons)
    <3>1. CASE x = Top.entry
      <4>1. entries'[x] = WithHistory(entries[x], Top.historical)
        BY <1>2, <3>1 DEF DropTracker
      <4>2. entries[x] \in Lives /\ Top.historical \in Versions
        BY <1>t, <2>2 DEF IsMap, T
      <4>3. \/ entries'[x][j] = Top.historical
            \/ \E i \in DOMAIN entries[x] : entries'[x][j] = entries[x][i]
        <5> DEFINE vs == entries[x]
                   h  == Top.historical
        <5>1. vs \in Lives /\ h \in Versions /\ j \in DOMAIN WithHistory(vs, h)
          BY <2>6, <4>1, <4>2
        <5>2. entries'[x][j] = WithHistory(vs, h)[j]
          BY <4>1
        <5> HIDE DEF vs, h
        <5>3. WithHistory(vs, h)[j] = h \/ \E i \in DOMAIN vs : WithHistory(vs, h)[j] = vs[i]
          BY <5>1, HistoryGrows
        <5> QED  BY <5>2, <5>3 DEF vs, h
      <4> QED  BY <2>4, <3>1, <4>3 DEF Inv, EntriesResolve
    <3>2. CASE x # Top.entry
      <4>1. entries'[x] = entries[x]
        BY <1>2, <3>2 DEF DropTracker
      <4> QED  BY <2>6, <4>1 DEF Inv, EntriesResolve
    <3> QED  BY <3>1, <3>2
  <2>7. EntriesResolve(entries, attachments, icons)'
    BY <2>1, <2>5, <2>6 DEF EntriesResolve
  <2>8. SnapshotsResolve'
    BY <2>1, <2>3, <2>5 DEF Inv, SnapshotsResolve
  <2>9. OneTracked'
    <3>1. trackers' # <<>> => Len(trackers') \in DOMAIN trackers'
      BY <1>s, TopOf
    <3>2. trackers' = <<>> => DOMAIN trackers' = {}
      BY TupleDomains
    <3>3. \A k \in DOMAIN trackers' : trackers'[k].entry = Top.entry
      BY <2>3 DEF Inv, OneTracked
    <3>4. \A k \in DOMAIN trackers' : trackers'[k].entry = trackers'[Len(trackers')].entry
      BY <3>1, <3>2, <3>3
    <3> QED  BY <3>4 DEF OneTracked, Top
  <2> QED  BY <1>t, <2>1, <2>7, <2>8, <2>9, GroupsUntouched DEF Inv
<1>3. ASSUME PurgeHistory
      PROVE  Inv'
  <2>1. ASSUME NEW e \in DOMAIN entries
        PROVE  Resolves(Live(entries, e), attachments, icons)
    <3>1. 1 \in DOMAIN entries[e]
      BY <1>t, FirstOf DEF IsMap, Lives
    <3> QED  BY <3>1 DEF Inv, EntriesResolve, Live
  <2>2. entries' = [e \in DOMAIN entries |-> <<Live(entries, e)>>]
    BY <1>3 DEF PurgeHistory
  <2>3. ASSUME NEW e \in DOMAIN entries, NEW j \in DOMAIN entries'[e]
        PROVE  Resolves(entries'[e][j], attachments, icons)
    <3> DEFINE v == Live(entries, e)
    <3>1. entries'[e] = <<v>>
      BY <2>2
    <3>2. Resolves(v, attachments, icons)
      BY <2>1
    <3> HIDE DEF v
    <3>3. j = 1 /\ entries'[e][j] = v
      BY <2>3, <3>1, TupleDomains
    <3> QED  BY <3>2, <3>3
  <2>4. EntriesResolve(entries, attachments, icons)'
    BY <1>3, <2>2, <2>3 DEF EntriesResolve, PurgeHistory
  <2> QED  BY <1>t, <1>3, <2>4, NobodyTracks, GroupsUntouched DEF Inv, PurgeHistory
<1> QED  BY <1>1, <1>2, <1>3 DEF TrackerNext

LEMMA OtherCalls ==
    ASSUME "reach around" \notin Liberties, Inv, OtherNext
    PROVE  Inv'
<1>t. TypeOK' /\ TypeOK /\ IsMap(entries, EntryIds, Lives)
  BY OtherTypes DEF Inv, TypeOK, Lives
<1>1. ASSUME NEW c \in DOMAIN icons, RemoveIcon(c)
      PROVE  Inv'
  <2>1. DOMAIN icons' = DOMAIN icons \ {c} /\ \A x \in DOMAIN icons' : icons'[x] = icons[x]
    BY <1>1 DEF RemoveIcon, Without
  <2>2. ASSUME NEW e \in DOMAIN entries, NEW i \in DOMAIN entries[e]
        PROVE  Resolves([entries[e][i] EXCEPT !.icon = IF @ = c THEN None ELSE @],
                        attachments, icons')
    <3> DEFINE v == entries[e][i]
               icon == IF v.icon = c THEN None ELSE v.icon
               w == [v EXCEPT !.icon = icon]
    <3>1. v \in Versions /\ Resolves(v, attachments, icons)
      BY <1>t, VersionTyped DEF Inv, EntriesResolve
    <3> HIDE DEF v
    <3>2. icon \in DOMAIN icons' \cup BuiltIns \cup {None}
      BY <2>1, <3>1 DEF Resolves
    <3> HIDE DEF icon
    <3>3. w.attachments = v.attachments /\ w.icon = icon
      BY <3>1 DEF Versions
    <3> HIDE DEF w
    <3>4. Resolves(w, attachments, icons')
      BY <3>1, <3>2, <3>3 DEF Resolves, RefIds
    <3> QED  BY <3>4 DEF v, icon, w
  <2>3. EntriesResolve(entries, attachments, icons)'
    BY <1>1, <2>2 DEF EntriesResolve, RemoveIcon, MapVersions
  <2>4. ASSUME NEW g \in DOMAIN groups
        PROVE  Shows(groups'[g].icon, g, icons')
    <3> DEFINE icon == IF g \in icons[c].groups /\ groups[g].icon = c
                         THEN None ELSE groups[g].icon
    <3>1. groups[g] \in Groups
      BY <1>t DEF TypeOK, IsMap
    <3>2. groups'[g] = [groups[g] EXCEPT !.icon = icon]
      BY <1>1 DEF RemoveIcon
    <3>3. groups'[g].icon = icon
      <4> HIDE DEF icon
      <4> QED  BY <3>1, <3>2 DEF Groups
    <3>4. groups[g].icon \in DOMAIN icons => g \in icons[groups[g].icon].groups
      BY DEF Inv, GroupsResolve, Backreferenced
    <3>5. groups[g].icon \in DOMAIN icons \cup BuiltIns \cup {None}
      BY DEF Inv, GroupsResolve
    <3>6. None \notin DOMAIN icons
      BY <1>t, CustomIcons
    <3> QED  BY <2>1, <3>3, <3>4, <3>5, <3>6 DEF Shows
  <2>5. GroupsResolve(groups, icons)'
    <3>1. DOMAIN groups' = DOMAIN groups
      BY <1>1 DEF RemoveIcon
    <3> QED  BY <2>4, <3>1 DEF Shows, GroupsResolve, Backreferenced
  <2> QED  BY <1>t, <1>1, <2>3, <2>5, NobodyTracks DEF Inv, RemoveIcon
<1>2. ASSUME UNCHANGED <<groups, entries, attachments, icons, trackers>>
      PROVE  Inv'
  BY <1>t, <1>2 DEF Inv, EntriesResolve, GroupsResolve, Backreferenced, SnapshotsResolve,
                    OneTracked, Top
<1>3. ASSUME NEW f \in MetaFields, NEW g \in DOMAIN groups \cup {None}, SetMeta(f, g)
      PROVE  Inv'
  BY <1>2, <1>3 DEF SetMeta
<1>4. ASSUME Tick
      PROVE  Inv'
  BY <1>2, <1>4 DEF Tick
<1> QED  BY <1>1, <1>3, <1>4 DEF OtherNext

----------------------------------------------------------------------------
(* Saving and opening again.                                               *)

LEMMA ReopenedMaps ==
    ASSUME Reopen
    PROVE  LET kept == KeptIds(entries, attachments) IN
           /\ groups' = [g \in DOMAIN groups |->
                           [groups[g] EXCEPT !.icon = StoredIcon(@, icons)]]
           /\ entries' = [e \in DOMAIN entries |->
                            StoredVersions(CompactedEntries(entries, kept)[e], icons)]
           /\ attachments' = CompactedPool(attachments, kept)
           /\ icons' = [c \in DOMAIN icons |->
                          [icons[c] EXCEPT !.groups = ListedGroups(groups, icons, c)]]
BY DEF Reopen, Reopened

LEMMA ReopenedResolves ==
    ASSUME Inv, Reopen
    PROVE  Inv'
<1>t. TypeOK /\ IsMap(entries, EntryIds, Lives)
  BY DEF Inv, TypeOK, Lives
<1> DEFINE kept == KeptIds(entries, attachments)
           compacted == CompactedEntries(entries, kept)
           pool == CompactedPool(attachments, kept)
<1>1. /\ groups' = [g \in DOMAIN groups |->
                      [groups[g] EXCEPT !.icon = StoredIcon(@, icons)]]
      /\ entries' = [e \in DOMAIN entries |-> StoredVersions(compacted[e], icons)]
      /\ attachments' = pool
      /\ icons' = [c \in DOMAIN icons |->
                     [icons[c] EXCEPT !.groups = ListedGroups(groups, icons, c)]]
  BY ReopenedMaps
<1>2. trackers = <<>> /\ UNCHANGED <<meta, deleted, trackers, now>>
  BY DEF Reopen
<1>3. kept \in SUBSET DOMAIN attachments
  BY DEF KeptIds
<1>4. DOMAIN compacted = DOMAIN entries
  BY DEF CompactedEntries, MapVersions
<1> HIDE DEF kept
<1>5. /\ IsMap(compacted, EntryIds, Lives)
      /\ IsMap(pool, AttachmentIds, Binaries)
      /\ EntriesResolve(compacted, pool, icons)
  <2>1. IsMap(attachments, AttachmentIds, Binaries)
    BY <1>t DEF TypeOK
  <2> QED  BY <1>t, <1>3, <2>1, CompactedType, CompactionResolves DEF Inv
<1> HIDE DEF compacted, pool
<1>6. DOMAIN icons' = DOMAIN icons
  BY <1>1
<1>7. ASSUME NEW icon \in IconValues
      PROVE  /\ StoredIcon(icon, icons) \in IconValues
             /\ StoredIcon(icon, icons) \in DOMAIN icons \cup BuiltIns \cup {None}
  BY DEF StoredIcon, IconValues
<1>8. ASSUME NEW e \in DOMAIN entries, NEW i \in DOMAIN compacted[e]
      PROVE  /\ StoredVersions(compacted[e], icons)[i] \in Versions
             /\ Resolves(StoredVersions(compacted[e], icons)[i], pool, icons)
  <2> DEFINE v == compacted[e][i]
             p == compacted[e][1].parent
             icon == StoredIcon(v.icon, icons)
             w == [v EXCEPT !.parent = p, !.icon = icon]
  <2>1. v \in Versions /\ p \in GroupIds /\ Resolves(v, pool, icons)
    BY <1>4, <1>5, VersionTyped DEF EntriesResolve, Versions
  <2>2. w = StoredVersions(compacted[e], icons)[i]
    BY DEF StoredVersions
  <2> HIDE DEF v, p
  <2>3. icon \in IconValues /\ icon \in DOMAIN icons \cup BuiltIns \cup {None}
    BY <1>7, <2>1 DEF Versions
  <2> HIDE DEF icon
  <2>4. w \in Versions /\ w.attachments = v.attachments /\ w.icon = icon
    BY <2>1, <2>3 DEF Versions
  <2> HIDE DEF w
  <2>5. Resolves(w, pool, icons)
    BY <2>1, <2>3, <2>4 DEF Resolves, RefIds
  <2> QED  BY <2>2, <2>4, <2>5
<1>9. \A e \in DOMAIN entries :
         /\ entries'[e] = StoredVersions(compacted[e], icons)
         /\ DOMAIN entries'[e] = DOMAIN compacted[e]
  BY <1>1 DEF StoredVersions
<1>10. DOMAIN entries' = DOMAIN entries
  BY <1>1
<1>11. EntriesResolve(entries, attachments, icons)'
  <2>1. ASSUME NEW e \in DOMAIN entries, NEW i \in DOMAIN entries'[e]
        PROVE  Resolves(entries'[e][i], pool, icons)
    <3>1. i \in DOMAIN compacted[e] /\ entries'[e] = StoredVersions(compacted[e], icons)
      BY <1>9, <2>1
    <3>2. Resolves(StoredVersions(compacted[e], icons)[i], pool, icons)
      BY <1>8, <3>1
    <3> QED  BY <3>1, <3>2
  <2>2. \A e \in DOMAIN entries' : \A i \in DOMAIN entries'[e] :
           Resolves(entries'[e][i], pool, icons)
    BY <1>10, <2>1
  <2>3. attachments' = pool
    BY <1>1
  <2> QED  BY <1>6, <2>2, <2>3 DEF EntriesResolve, Resolves
<1>12. ASSUME NEW g \in DOMAIN groups
       PROVE  groups'[g] \in Groups /\ groups'[g].icon \in DOMAIN icons \cup BuiltIns \cup {None}
  <2> DEFINE icon == StoredIcon(groups[g].icon, icons)
  <2>1. groups[g] \in Groups
    BY <1>t DEF TypeOK, IsMap
  <2>2. icon \in IconValues /\ icon \in DOMAIN icons \cup BuiltIns \cup {None}
    BY <1>7, <2>1 DEF Groups
  <2>3. groups'[g] = [groups[g] EXCEPT !.icon = icon]
    BY <1>1
  <2> HIDE DEF icon
  <2> QED  BY <2>1, <2>2, <2>3 DEF Groups
<1>13. ASSUME NEW c \in DOMAIN icons
       PROVE  icons'[c] \in Icons /\ icons'[c].groups = {g \in DOMAIN groups : groups[g].icon = c}
  <2> DEFINE listed == {g \in DOMAIN groups : groups[g].icon = c}
  <2>1. icons[c] \in Icons /\ listed \in SUBSET GroupIds
    BY <1>t DEF TypeOK, IsMap
  <2>2. icons'[c] = [icons[c] EXCEPT !.groups = listed]
    BY <1>1 DEF ListedGroups
  <2> HIDE DEF listed
  <2>3. icons'[c] \in Icons /\ icons'[c].groups = listed
    BY <2>1, <2>2 DEF Icons
  <2> QED  BY <2>3 DEF listed
<1>14. GroupsResolve(groups, icons)'
  <2>1. DOMAIN groups' = DOMAIN groups
    BY <1>1
  <2>2. ASSUME NEW g \in DOMAIN groups, groups'[g].icon \in DOMAIN icons
        PROVE  groups[g].icon = groups'[g].icon
    <3> DEFINE icon == StoredIcon(groups[g].icon, icons)
    <3>1. groups[g] \in Groups /\ groups'[g] = [groups[g] EXCEPT !.icon = icon]
      BY <1>1, <1>t DEF TypeOK, IsMap
    <3>2. groups'[g].icon = icon
      <4> HIDE DEF icon
      <4> QED  BY <3>1 DEF Groups
    <3>3. None \notin DOMAIN icons
      BY <1>t, CustomIcons
    <3> QED  BY <2>2, <3>2, <3>3 DEF StoredIcon
  <2> QED  BY <1>6, <1>12, <1>13, <2>1, <2>2 DEF GroupsResolve, Backreferenced
<1>15. TypeOK'
  <2>1. IsMap(groups', GroupIds, Groups)
    BY <1>1, <1>12, <1>t DEF TypeOK, IsMap
  <2>2. IsMap(icons', IconIds, Icons)
    BY <1>1, <1>13, <1>t DEF TypeOK, IsMap
  <2>3. IsMap(entries', EntryIds, Lives)
    <3>1. entries' = [e \in DOMAIN compacted |-> entries'[e]]
      BY <1>1, <1>4
    <3>2. \A e \in DOMAIN compacted : entries'[e] \in [DOMAIN compacted[e] -> Versions]
      BY <1>4, <1>8, <1>9 DEF StoredVersions
    <3> QED  BY <1>5, <3>1, <3>2, VersionsRewritten
  <2> QED  BY <1>1, <1>2, <1>5, <1>t, <2>1, <2>2, <2>3 DEF TypeOK, Lives
<1>16. SnapshotsResolve' /\ OneTracked'
  <2>1. DOMAIN trackers' = {}
    BY <1>2, TupleDomains
  <2> QED  BY <2>1 DEF SnapshotsResolve, OneTracked
<1> QED  BY <1>11, <1>14, <1>15, <1>16 DEF Inv

----------------------------------------------------------------------------
(* The theorems.                                                           *)

LEMMA InitInv ==
    ASSUME Init
    PROVE  Inv
<1>1. PICK d \in OpenedDatabases \cup {NewDatabase} :
        /\ groups = d.groups /\ entries = d.entries
        /\ attachments = d.attachments /\ icons = d.icons
  BY DEF Init
<1>2. /\ ReferencedIds(entries) \subseteq DOMAIN attachments
      /\ IconMentions(groups, entries) \subseteq DOMAIN icons \cup BuiltIns \cup {None}
      /\ Backreferenced(groups, icons)
  BY <1>1, NewDatabaseIsOne, OpenedAssumption DEF IsDatabase
<1>3. EntriesResolve(entries, attachments, icons)
  BY <1>2 DEF EntriesResolve, Resolves, ReferencedIds, RefIdsOf, VersionsOf, IconMentions
<1>4. GroupsResolve(groups, icons)
  BY <1>2 DEF GroupsResolve, IconMentions
<1>5. SnapshotsResolve /\ OneTracked
  <2>1. DOMAIN trackers = {}
    BY TupleDomains DEF Init
  <2> QED  BY <2>1 DEF SnapshotsResolve, OneTracked
<1> QED  BY <1>3, <1>4, <1>5, InitTypes DEF Inv

LEMMA StepInv ==
    ASSUME "reach around" \notin Liberties, Inv, [StoredNext]_vars
    PROVE  Inv'
<1>1. CASE UNCHANGED vars
  BY <1>1 DEF vars, Inv, TypeOK, EntriesResolve, GroupsResolve, Backreferenced,
              SnapshotsResolve, OneTracked, Top
<1> QED
  BY <1>1, GroupCalls, EntryCalls, AttachmentCalls, TrackerCalls, OtherCalls, ReopenedResolves
     DEF StoredNext, Next

LEMMA InvGivesRefs ==
    ASSUME Inv
    PROVE  RefsResolve
<1>1. ReferencedIds(entries) \subseteq DOMAIN attachments
  BY DEF Inv, EntriesResolve, Resolves, ReferencedIds, RefIdsOf, VersionsOf
<1>2. \A k \in Pending : RefIds(trackers[k].historical) \subseteq DOMAIN attachments
  BY DEF Inv, SnapshotsResolve, Resolves, Pending
<1> QED  BY <1>1, <1>2 DEF RefsResolve

LEMMA InvGivesIcons ==
    ASSUME Inv
    PROVE  IconsResolve
<1>1. IconMentions(groups, entries) \subseteq DOMAIN icons \cup BuiltIns \cup {None}
  BY DEF Inv, EntriesResolve, GroupsResolve, Resolves, IconMentions, VersionsOf
<1>2. \A k \in Pending :
         trackers[k].historical.icon \in DOMAIN icons \cup BuiltIns \cup {None}
  BY DEF Inv, SnapshotsResolve, Resolves, Pending
<1> QED  BY <1>1, <1>2 DEF IconsResolve

\* Whatever is called, saved and opened again, every attachment name has its
\* binary in the pool, unless the database is used behind an open tracker.
THEOREM NoDanglingAttachment ==
    ASSUME "reach around" \notin Liberties
    PROVE  StoredSpec => []RefsResolve
<1>1. Init => Inv
  BY InitInv
<1>2. Inv /\ [StoredNext]_vars => Inv'
  BY StepInv
<1>3. Inv => RefsResolve
  BY InvGivesRefs
<1> QED  BY <1>1, <1>2, <1>3, PTL DEF StoredSpec

\* So a new binary gets an id that no version points at (entry.rs).
THEOREM NoIdReused ==
    ASSUME "reach around" \notin Liberties
    PROVE  StoredSpec => FreshIdUnreferenced
<1> DEFINE Fresh ==
      DOMAIN attachments \subseteq DOMAIN attachments' =>
          \A id \in DOMAIN attachments' \ DOMAIN attachments :
              /\ id \notin ReferencedIds(entries)
              /\ \A k \in Pending : id \notin RefIds(trackers[k].historical)
<1>1. StoredSpec => []RefsResolve
  BY NoDanglingAttachment
<1>2. RefsResolve => [Fresh]_vars
  BY DEF RefsResolve
<1>3. [][Fresh]_vars => FreshIdUnreferenced
  BY DEF FreshIdUnreferenced
<1> QED  BY <1>1, <1>2, <1>3, PTL

\* Likewise, every icon shown exists: the list of groups that CustomIconMut::remove
\* goes by misses none.
THEOREM NoDanglingIcon ==
    ASSUME "reach around" \notin Liberties
    PROVE  StoredSpec => []IconsResolve
<1>1. Init => Inv
  BY InitInv
<1>2. Inv /\ [StoredNext]_vars => Inv'
  BY StepInv
<1>3. Inv => IconsResolve
  BY InvGivesIcons
<1> QED  BY <1>1, <1>2, <1>3, PTL DEF StoredSpec

----------------------------------------------------------------------------
(* Types across saves.                                                     *)

LEMMA ReopenedTypes ==
    ASSUME TypeOK, Reopen
    PROVE  TypeOK'
<1>t. IsMap(entries, EntryIds, Lives)
  BY DEF TypeOK, Lives
<1> DEFINE kept == KeptIds(entries, attachments)
           compacted == CompactedEntries(entries, kept)
           pool == CompactedPool(attachments, kept)
<1>1. /\ groups' = [g \in DOMAIN groups |->
                      [groups[g] EXCEPT !.icon = StoredIcon(@, icons)]]
      /\ entries' = [e \in DOMAIN entries |-> StoredVersions(compacted[e], icons)]
      /\ attachments' = pool
      /\ icons' = [c \in DOMAIN icons |->
                     [icons[c] EXCEPT !.groups = ListedGroups(groups, icons, c)]]
  BY ReopenedMaps
<1>2. UNCHANGED <<meta, deleted, trackers, now>>
  BY DEF Reopen
<1>3. kept \in SUBSET DOMAIN attachments
  BY DEF KeptIds
<1>4. DOMAIN compacted = DOMAIN entries
  BY DEF CompactedEntries, MapVersions
<1> HIDE DEF kept
<1>5. /\ IsMap(compacted, EntryIds, Lives)
      /\ IsMap(pool, AttachmentIds, Binaries)
  BY <1>t, <1>3, CompactedType DEF TypeOK
<1> HIDE DEF compacted, pool
<1>6. ASSUME NEW icon \in IconValues
      PROVE  StoredIcon(icon, icons) \in IconValues
  BY DEF StoredIcon, IconValues
<1>7. ASSUME NEW e \in DOMAIN entries, NEW i \in DOMAIN compacted[e]
      PROVE  StoredVersions(compacted[e], icons)[i] \in Versions
  <2> DEFINE v == compacted[e][i]
             p == compacted[e][1].parent
             icon == StoredIcon(v.icon, icons)
             w == [v EXCEPT !.parent = p, !.icon = icon]
  <2>1. v \in Versions /\ p \in GroupIds
    BY <1>4, <1>5, VersionTyped DEF Versions
  <2>2. w = StoredVersions(compacted[e], icons)[i]
    BY DEF StoredVersions
  <2> HIDE DEF v, p
  <2>3. icon \in IconValues
    BY <1>6, <2>1 DEF Versions
  <2> HIDE DEF icon
  <2>4. w \in Versions
    BY <2>1, <2>3 DEF Versions
  <2> QED  BY <2>2, <2>4
<1>8. IsMap(entries', EntryIds, Lives)
  <2>1. entries' = [e \in DOMAIN compacted |-> entries'[e]]
    BY <1>1, <1>4
  <2>2. \A e \in DOMAIN compacted : entries'[e] \in [DOMAIN compacted[e] -> Versions]
    BY <1>1, <1>4, <1>7 DEF StoredVersions
  <2> QED  BY <1>5, <2>1, <2>2, VersionsRewritten
<1>9. IsMap(groups', GroupIds, Groups)
  <2>1. ASSUME NEW g \in DOMAIN groups
        PROVE  groups'[g] \in Groups
    <3> DEFINE icon == StoredIcon(groups[g].icon, icons)
    <3>1. groups[g] \in Groups
      BY DEF TypeOK, IsMap
    <3>2. icon \in IconValues
      BY <1>6, <3>1 DEF Groups
    <3>3. groups'[g] = [groups[g] EXCEPT !.icon = icon]
      BY <1>1
    <3> HIDE DEF icon
    <3> QED  BY <3>1, <3>2, <3>3 DEF Groups
  <2> QED  BY <1>1, <2>1 DEF TypeOK, IsMap
<1>10. IsMap(icons', IconIds, Icons)
  <2>1. ASSUME NEW c \in DOMAIN icons
        PROVE  icons'[c] \in Icons
    <3> DEFINE listed == ListedGroups(groups, icons, c)
    <3>1. icons[c] \in Icons /\ listed \in SUBSET GroupIds
      BY DEF TypeOK, IsMap, ListedGroups
    <3>2. icons'[c] = [icons[c] EXCEPT !.groups = listed]
      BY <1>1
    <3> HIDE DEF listed
    <3> QED  BY <3>1, <3>2 DEF Icons
  <2> QED  BY <1>1, <2>1 DEF TypeOK, IsMap
<1> QED  BY <1>1, <1>2, <1>5, <1>8, <1>9, <1>10 DEF TypeOK, Lives

LEMMA StoredTypes == StoredSpec => []TypeOK
<1>1. Init => TypeOK
  BY InitTypes
<1>2. ASSUME TypeOK, [StoredNext]_vars
      PROVE  TypeOK'
  BY <1>2, StepTypes, ReopenedTypes DEF StoredNext
<1>3. TypeOK /\ [StoredNext]_vars => TypeOK'
  BY <1>2
<1> QED  BY <1>1, <1>3, PTL DEF StoredSpec

----------------------------------------------------------------------------
(* The hints at entries.                                                   *)

\* No group has a hint that it did not have before.
SameHints(gs, hs) ==
    \A g \in DOMAIN hs : hs[g].ltve = None \/ (g \in DOMAIN gs /\ hs[g].ltve = gs[g].ltve)

HintsAt(gs, es) == \A g \in DOMAIN gs : gs[g].ltve \in DOMAIN es \cup {None}

LEMMA HintsStay ==
    ASSUME NEW gs, NEW hs, NEW es, NEW fs, HintsAt(gs, es), SameHints(gs, hs),
           DOMAIN es \subseteq DOMAIN fs
    PROVE  HintsAt(hs, fs)
BY DEF HintsAt, SameHints

LEMMA HintsCleared ==
    ASSUME NEW gs, NEW hs, NEW es, NEW E, HintsAt(gs, es), SameHints(gs, hs),
           \A x \in DOMAIN hs : hs[x] \in Groups
    PROVE  HintsAt(UnlistEntries(hs, es, E), Without(es, E))
<1> DEFINE ks == UnlistEntries(hs, es, E)
<1>1. DOMAIN ks = DOMAIN hs /\ DOMAIN Without(es, E) = DOMAIN es \ E
  BY DEF UnlistEntries, Without
<1>2. ASSUME NEW x \in DOMAIN hs
      PROVE  ks[x].ltve = IF hs[x].ltve \in E THEN None ELSE hs[x].ltve
  <2> DEFINE listed == hs[x].entries \ {e \in E : Live(es, e).parent = x}
             hint   == IF hs[x].ltve \in E THEN None ELSE hs[x].ltve
  <2>1. ks[x] = [hs[x] EXCEPT !.entries = listed, !.ltve = hint]
    BY DEF UnlistEntries
  <2> HIDE DEF ks, listed, hint
  <2>2. ks[x].ltve = hint
    BY <2>1 DEF Groups
  <2> QED  BY <2>2 DEF hint
<1> HIDE DEF ks
<1>3. HintsAt(ks, Without(es, E))
  BY <1>1, <1>2 DEF HintsAt, SameHints
<1> QED  BY <1>3 DEF ks

LEMMA GroupHints ==
    ASSUME TypeOK, HintsAt(groups, entries), GroupNext
    PROVE  HintsAt(groups', entries')
<1>t. \A x \in DOMAIN groups : groups[x] \in Groups
  BY DEF TypeOK, IsMap
<1>1. ASSUME NEW p \in DOMAIN groups, NEW g, AddGroup(p, g)
      PROVE  HintsAt(groups', entries')
  <2>1. SameHints(groups, groups')
    <3>1. NewGroup(p, now).ltve = None
      BY DEF NewGroup
    <3>2. [groups[p] EXCEPT !.groups = @ \cup {g}].ltve = groups[p].ltve
      BY <1>t DEF Groups
    <3>3. \A x \in DOMAIN groups' :
             groups'[x] = IF x = g THEN NewGroup(p, now)
                          ELSE IF x = p THEN [groups[p] EXCEPT !.groups = @ \cup {g}]
                          ELSE groups[x]
      BY <1>1 DEF AddGroup, AddGroupTo, Put
    <3>4. DOMAIN groups' = DOMAIN groups \cup {g}
      BY <1>1 DEF AddGroup, AddGroupTo, Put
    <3> QED  BY <3>1, <3>2, <3>3, <3>4 DEF SameHints
  <2> QED  BY <1>1, <2>1, HintsStay DEF AddGroup
<1>2. ASSUME NEW p \in DOMAIN groups, NEW e, AddEntry(p, e)
      PROVE  HintsAt(groups', entries')
  <2>1. SameHints(groups, groups')
    <3>1. [groups[p] EXCEPT !.entries = @ \cup {e}].ltve = groups[p].ltve
      BY <1>t DEF Groups
    <3> QED  BY <1>2, <3>1 DEF AddEntry, SameHints
  <2>2. DOMAIN entries' = DOMAIN entries \cup {e}
    BY <1>2 DEF AddEntry, Put
  <2> QED  BY <2>1, <2>2, HintsStay
<1>3. ASSUME NEW g \in DOMAIN groups, NEW c, NEW tracked, EditGroup(g, c, tracked)
      PROVE  HintsAt(groups', entries')
  <2> DEFINE t == IF tracked THEN now ELSE groups[g].mtime
  <2>1. groups' = [groups EXCEPT ![g] = [groups[g] EXCEPT !.content = c, !.mtime = t]]
    BY <1>3, <1>t DEF EditGroup, Groups
  <2> HIDE DEF t
  <2>2. [groups[g] EXCEPT !.content = c, !.mtime = t].ltve = groups[g].ltve
    BY <1>t DEF Groups
  <2>3. SameHints(groups, groups')
    BY <2>1, <2>2 DEF SameHints
  <2> QED  BY <1>3, <2>3, HintsStay DEF EditGroup
<1>4. ASSUME NEW g \in DOMAIN groups, NEW icon, groups' = [groups EXCEPT ![g].icon = icon],
             entries' = entries
      PROVE  HintsAt(groups', entries')
  <2>1. [groups[g] EXCEPT !.icon = icon].ltve = groups[g].ltve
    BY <1>t DEF Groups
  <2>2. SameHints(groups, groups')
    BY <1>4, <2>1 DEF SameHints
  <2> QED  BY <1>4, <2>2, HintsStay
<1>5. ASSUME NEW g \in DOMAIN groups, NEW q \in DOMAIN groups, NEW tracked, MoveGroup(g, q, tracked)
      PROVE  HintsAt(groups', entries')
  <2> DEFINE moved == MoveGroupTo(groups, g, q)
  <2>1. DOMAIN moved = DOMAIN groups /\ \A x \in DOMAIN moved : moved[x] \in Groups
    <3>1. IsMap(moved, GroupIds, Groups)
      BY MoveGroupType DEF TypeOK
    <3>2. DOMAIN moved = DOMAIN groups
      BY DEF MoveGroupTo
    <3> QED  BY <3>1, <3>2 DEF IsMap
  <2>2. ASSUME NEW x \in DOMAIN groups
        PROVE  moved[x].ltve = groups[x].ltve
    <3> DEFINE listed == (IF x = groups[g].parent THEN groups[x].groups \ {g} ELSE groups[x].groups)
                            \cup (IF x = q THEN {g} ELSE {})
               parent == IF x = g THEN q ELSE groups[x].parent
               prev   == IF x = g THEN groups[g].parent ELSE groups[x].prev
    <3>1. moved[x] = [groups[x] EXCEPT !.groups = listed, !.parent = parent, !.prev = prev]
      BY DEF MoveGroupTo
    <3> HIDE DEF moved, listed, parent, prev
    <3> QED  BY <1>t, <3>1 DEF Groups
  <2>3. groups' = [moved EXCEPT ![g].ltime = IF tracked THEN now ELSE @]
    BY <1>5 DEF MoveGroup
  <2> HIDE DEF moved
  <2>4. DOMAIN groups' = DOMAIN groups
    BY <2>1, <2>3
  <2>5. ASSUME NEW x \in DOMAIN groups
        PROVE  groups'[x].ltve = moved[x].ltve
    <3> DEFINE t == IF tracked THEN now ELSE moved[g].ltime
    <3>1. groups'[x] = IF x = g THEN [moved[g] EXCEPT !.ltime = t] ELSE moved[x]
      BY <2>1, <2>3
    <3> HIDE DEF t
    <3>2. [moved[g] EXCEPT !.ltime = t].ltve = moved[g].ltve
      BY <2>1 DEF Groups
    <3> QED  BY <3>1, <3>2
  <2>6. SameHints(groups, groups')
    BY <2>2, <2>4, <2>5 DEF SameHints
  <2> QED  BY <1>5, <2>6, HintsStay DEF MoveGroup
<1>6. ASSUME NEW g \in DOMAIN groups, NEW S, NEW E, RemoveSubtree(g, S, E)
      PROVE  HintsAt(groups', entries')
  <2> DEFINE dropped == DropGroups(groups, g, S)
  <2>1. DOMAIN dropped = DOMAIN groups \ S /\ \A x \in DOMAIN dropped : dropped[x] \in Groups
    <3>1. IsMap(dropped, GroupIds, Groups)
      BY DropGroupsType DEF TypeOK
    <3>2. DOMAIN dropped = DOMAIN groups \ S
      BY DEF DropGroups
    <3> QED  BY <3>1, <3>2 DEF IsMap
  <2>2. ASSUME NEW x \in DOMAIN dropped
        PROVE  dropped[x].ltve = groups[x].ltve
    <3> DEFINE listed == IF x = groups[g].parent THEN groups[x].groups \ {g} ELSE groups[x].groups
    <3>1. dropped[x] = [groups[x] EXCEPT !.groups = listed] /\ x \in DOMAIN groups
      BY <2>1 DEF DropGroups
    <3> HIDE DEF dropped, listed
    <3> QED  BY <1>t, <3>1 DEF Groups
  <2>3. groups' = UnlistEntries(dropped, entries, E) /\ entries' = Without(entries, E)
    BY <1>6 DEF RemoveSubtree
  <2> HIDE DEF dropped
  <2>4. SameHints(groups, dropped)
    BY <2>1, <2>2 DEF SameHints
  <2> QED  BY <2>1, <2>3, <2>4, HintsCleared
<1>7. ASSUME NEW g \in DOMAIN groups, RemoveGroup(g) \/ TrackedRemoveGroup(g)
      PROVE  HintsAt(groups', entries')
  <2>1. \E S, E : RemoveSubtree(g, S, E)
    BY <1>7 DEF RemoveGroup, TrackedRemoveGroup
  <2> QED  BY <1>6, <2>1
<1>8. ASSUME NEW g \in DOMAIN groups, NEW c,
             SetGroupIcon(g, c) \/ SetGroupIconCustom(g, c) \/ SetGroupIconCustomNew(g, c)
      PROVE  HintsAt(groups', entries')
  <2>1. /\ entries' = entries
        /\ \E icon : groups' = [groups EXCEPT ![g].icon = icon]
    BY <1>8 DEF SetGroupIcon, SetGroupIconCustom, SetGroupIconCustomNew
  <2> QED  BY <1>4, <2>1
<1> QED  BY <1>1, <1>2, <1>3, <1>5, <1>7, <1>8 DEF GroupNext

LEMMA EntryHints ==
    ASSUME TypeOK, HintsAt(groups, entries), EntryNext
    PROVE  HintsAt(groups', entries')
<1>t. \A x \in DOMAIN groups : groups[x] \in Groups
  BY DEF TypeOK, IsMap
<1>s. SameHints(groups, groups)
  BY DEF SameHints
<1>1. ASSUME groups' = groups, Stays(entries, entries')
      PROVE  HintsAt(groups', entries')
  BY <1>1, <1>s, HintsStay DEF Stays
<1>2. PICK e \in DOMAIN entries : \E i \in DOMAIN entries[e], tracked \in BOOLEAN :
        \/ \E c \in Contents : EditEntry(e, i, c, tracked)
        \/ \E q \in DOMAIN groups : MoveEntry(e, i, q, tracked)
        \/ RemoveEntry(e, i, tracked)
        \/ \E icon \in {None} \cup BuiltIns : SetEntryIcon(e, i, icon, tracked)
        \/ \E c \in IconIds : SetEntryIconCustom(e, i, c, tracked)
        \/ \E c \in IconIds : SetEntryIconCustomNew(e, i, c, tracked)
        \/ \E n \in Names, b \in Binaries : AddAttachment(e, i, n, b, tracked)
  BY DEF EntryNext
<1>3. PICK i \in DOMAIN entries[e], tracked \in BOOLEAN :
        \/ \E c \in Contents : EditEntry(e, i, c, tracked)
        \/ \E q \in DOMAIN groups : MoveEntry(e, i, q, tracked)
        \/ RemoveEntry(e, i, tracked)
        \/ \E icon \in {None} \cup BuiltIns : SetEntryIcon(e, i, icon, tracked)
        \/ \E c \in IconIds : SetEntryIconCustom(e, i, c, tracked)
        \/ \E c \in IconIds : SetEntryIconCustomNew(e, i, c, tracked)
        \/ \E n \in Names, b \in Binaries : AddAttachment(e, i, n, b, tracked)
  BY <1>2
<1>4. ASSUME RemoveEntry(e, i, tracked)
      PROVE  HintsAt(groups', entries')
  BY <1>4, <1>s, <1>t, HintsCleared DEF RemoveEntry
<1>5. ASSUME NEW w, SetVersion(e, i, w)
      PROVE  DOMAIN entries' = DOMAIN entries
  BY <1>5 DEF SetVersion
<1>6. ASSUME NEW q, MoveEntry(e, i, q, tracked)
      PROVE  HintsAt(groups', entries')
  <2> DEFINE p == entries[e][i].parent
  <2>1. groups' = RelistEntry(groups, e, p, q)
    BY <1>6 DEF MoveEntry
  <2>2. ASSUME NEW x \in DOMAIN groups
        PROVE  groups'[x].ltve = groups[x].ltve
    <3> DEFINE listed == (IF x = p THEN groups[x].entries \ {e} ELSE groups[x].entries)
                            \cup (IF x = q THEN {e} ELSE {})
    <3>1. groups'[x] = [groups[x] EXCEPT !.entries = listed]
      BY <2>1 DEF RelistEntry
    <3> HIDE DEF listed
    <3> QED  BY <1>t, <3>1 DEF Groups
  <2>3. SameHints(groups, groups')
    BY <2>1, <2>2 DEF SameHints, RelistEntry
  <2>4. DOMAIN entries' = DOMAIN entries
    BY <1>6, <1>5 DEF MoveEntry
  <2> QED  BY <2>3, <2>4, HintsStay
<1>7. ASSUME NEW c, \/ EditEntry(e, i, c, tracked) \/ SetEntryIcon(e, i, c, tracked)
                    \/ SetEntryIconCustom(e, i, c, tracked) \/ SetEntryIconCustomNew(e, i, c, tracked)
      PROVE  HintsAt(groups', entries')
  <2>1. groups' = groups /\ DOMAIN entries' = DOMAIN entries
    BY <1>7, <1>5 DEF EditEntry, SetEntryIcon, SetEntryIconCustom, SetEntryIconCustomNew
  <2> QED  BY <1>s, <2>1, HintsStay
<1>8. ASSUME NEW n, NEW b, AddAttachment(e, i, n, b, tracked)
      PROVE  HintsAt(groups', entries')
  <2>1. groups' = groups /\ DOMAIN entries' = DOMAIN entries
    BY <1>8, <1>5 DEF AddAttachment
  <2> QED  BY <1>s, <2>1, HintsStay
<1> QED  BY <1>3, <1>4, <1>6, <1>7, <1>8

LEMMA OtherHints ==
    ASSUME TypeOK, HintsAt(groups, entries),
           AttachmentNext \/ TrackerNext \/ OtherNext \/ Reopen \/ UNCHANGED vars
    PROVE  HintsAt(groups', entries')
<1>t. \A x \in DOMAIN groups : groups[x] \in Groups
  BY DEF TypeOK, IsMap
<1>1. DOMAIN entries' = DOMAIN entries
  <2>1. CASE AttachmentNext \/ OtherNext
    BY <2>1, OtherTimes DEF Stays
  <2>2. CASE TrackerNext
    BY <2>2 DEF TrackerNext, TrackChanges, DropTracker, PurgeHistory
  <2>3. CASE Reopen
    BY <2>3, ReopenedMaps
  <2> QED  BY <2>1, <2>2, <2>3 DEF vars
<1>2. \A x \in DOMAIN groups : \A icon : [groups[x] EXCEPT !.icon = icon].ltve = groups[x].ltve
  BY <1>t DEF Groups
<1>3. ASSUME NEW c \in DOMAIN icons, RemoveIcon(c)
      PROVE  SameHints(groups, groups')
  <2>1. DOMAIN groups' = DOMAIN groups
    BY <1>3 DEF RemoveIcon
  <2>2. \A x \in DOMAIN groups : \E icon : groups'[x] = [groups[x] EXCEPT !.icon = icon]
    BY <1>3 DEF RemoveIcon
  <2> QED  BY <1>2, <2>1, <2>2 DEF SameHints
<1>4. ASSUME Reopen
      PROVE  SameHints(groups, groups')
  <2>1. groups' = [g \in DOMAIN groups |-> [groups[g] EXCEPT !.icon = StoredIcon(@, icons)]]
    BY <1>4, ReopenedMaps
  <2>2. \A x \in DOMAIN groups : \E icon : groups'[x] = [groups[x] EXCEPT !.icon = icon]
    BY <2>1
  <2> QED  BY <1>2, <2>1, <2>2 DEF SameHints
<1>5. groups' = groups => SameHints(groups, groups')
  BY DEF SameHints
<1>6. SameHints(groups, groups')
  <2>1. CASE AttachmentNext
    BY <1>5, <2>1 DEF AttachmentNext, RemoveAttachmentByName, RemoveAttachmentById,
                      EditAttachment, RemoveAttachment, CompactAttachments
  <2>2. CASE TrackerNext
    BY <1>5, <2>2 DEF TrackerNext, TrackChanges, DropTracker, PurgeHistory
  <2>3. CASE OtherNext
    BY <1>3, <1>5, <2>3 DEF OtherNext, SetMeta, Tick
  <2> QED  BY <1>4, <1>5, <2>1, <2>2, <2>3 DEF vars
<1> QED  BY <1>1, <1>6, HintsStay

\* If no group of the file hinted at an entry that is not there, none ever does:
\* a removal clears the hints of all groups, not only of the entry's own
\* (EntryMut::remove, and GroupMut::remove for the entries below).
THEOREM NoStaleHint == StoredSpec /\ HintsResolve => []HintsResolve
<1>1. HintsResolve <=> HintsAt(groups, entries)
  BY DEF HintsResolve, HintsAt
<1>2. HintsResolve' <=> HintsAt(groups', entries')
  BY DEF HintsResolve, HintsAt
<1>3. ASSUME TypeOK, HintsResolve, [StoredNext]_vars
      PROVE  HintsResolve'
  BY <1>1, <1>2, <1>3, GroupHints, EntryHints, OtherHints DEF StoredNext, Next
<1>4. TypeOK /\ HintsResolve /\ [StoredNext]_vars => HintsResolve'
  BY <1>3
<1>5. StoredSpec => []TypeOK
  BY StoredTypes
<1> QED  BY <1>4, <1>5, PTL DEF StoredSpec

----------------------------------------------------------------------------
(* What a removal takes out of the pool.                                   *)

\* The entries E go, with the binaries that only they refer to.
TakesAlong(E) ==
    /\ entries' = Without(entries, E)
    /\ attachments' =
          Without(attachments, FreedBy(entries, UNION {RefIdsOf(entries, e) : e \in E}, E))

LEMMA WhoTakesEntries ==
    ASSUME TypeOK, [StoredNext]_vars, "historical handle" \notin Liberties,
           ~ (DOMAIN entries \subseteq DOMAIN entries')
    PROVE  \E E : TakesAlong(E)
<1>1. ~ (AttachmentNext \/ OtherNext \/ UNCHANGED vars)
  BY OtherTimes DEF Stays, vars
<1>2. ~ TrackerNext
  BY DEF TrackerNext, TrackChanges, DropTracker, PurgeHistory
<1>3. ~ Reopen
  BY ReopenedMaps
<1>4. CASE GroupNext
  <2>1. PICK g \in DOMAIN groups : RemoveGroup(g) \/ TrackedRemoveGroup(g)
    <3>1. ASSUME NEW p, NEW e, AddEntry(p, e)
          PROVE  FALSE
      BY <3>1 DEF AddEntry, Put
    <3> QED  BY <1>4, <3>1 DEF GroupNext, AddGroup, EditGroup, SetGroupIcon, SetGroupIconCustom,
                          SetGroupIconCustomNew, MoveGroup
  <2>2. \E S, E : RemoveSubtree(g, S, E)
    BY <2>1 DEF RemoveGroup, TrackedRemoveGroup
  <2> QED  BY <2>2 DEF RemoveSubtree, TakesAlong
<1>5. CASE EntryNext
  <2>1. PICK e \in DOMAIN entries : \E i \in DOMAIN entries[e], tracked \in BOOLEAN :
          RemoveEntry(e, i, tracked)
    <3>1. ASSUME NEW e, NEW i, NEW w, SetVersion(e, i, w)
          PROVE  FALSE
      BY <3>1 DEF SetVersion
    <3>2. PICK e \in DOMAIN entries : \E i \in DOMAIN entries[e], tracked \in BOOLEAN :
        \/ \E c \in Contents : EditEntry(e, i, c, tracked)
        \/ \E q \in DOMAIN groups : MoveEntry(e, i, q, tracked)
        \/ RemoveEntry(e, i, tracked)
        \/ \E icon \in {None} \cup BuiltIns : SetEntryIcon(e, i, icon, tracked)
        \/ \E c \in IconIds : SetEntryIconCustom(e, i, c, tracked)
        \/ \E c \in IconIds : SetEntryIconCustomNew(e, i, c, tracked)
        \/ \E n \in Names, b \in Binaries : AddAttachment(e, i, n, b, tracked)
      BY <1>5 DEF EntryNext
    <3>3. ASSUME NEW i, NEW tracked, NEW c, EditEntry(e, i, c, tracked) \/ MoveEntry(e, i, c, tracked)
          PROVE  FALSE
      BY <3>1, <3>3 DEF EditEntry, MoveEntry
    <3>4. ASSUME NEW i, NEW tracked, NEW c,
                 \/ SetEntryIcon(e, i, c, tracked) \/ SetEntryIconCustom(e, i, c, tracked)
                 \/ SetEntryIconCustomNew(e, i, c, tracked)
          PROVE  FALSE
      BY <3>1, <3>4 DEF SetEntryIcon, SetEntryIconCustom, SetEntryIconCustomNew
    <3>5. ASSUME NEW i, NEW tracked, NEW n, NEW b, AddAttachment(e, i, n, b, tracked)
          PROVE  FALSE
      BY <3>1, <3>5 DEF AddAttachment
    <3> QED  BY <3>2, <3>3, <3>4, <3>5
  <2>2. PICK i \in DOMAIN entries[e], tracked \in BOOLEAN : RemoveEntry(e, i, tracked)
    BY <2>1
  <2>3. i = 1
    BY <2>2 DEF RemoveEntry, CanCallOnMain
  <2>4. IdsToDrop(e, i) = UNION {RefIdsOf(entries, x) : x \in {e}}
    BY <2>3 DEF IdsToDrop
  <2>5. TakesAlong({e})
    BY <2>2, <2>4 DEF RemoveEntry, TakesAlong
  <2> QED  BY <2>5
<1> QED  BY <1>1, <1>2, <1>3, <1>4, <1>5 DEF StoredNext, Next

\* An entry that is removed, by itself or with its group, takes every binary
\* along that no other entry has a name for, in its history or now, and leaves
\* no orphan in the pool, unless it is removed through an old version.
THEOREM RemovalLeavesNoOrphan ==
    ASSUME "historical handle" \notin Liberties
    PROVE  StoredSpec => RemovalReclaims
<1> DEFINE Reclaims == (DOMAIN entries \ DOMAIN entries') # {} => Orphans' \subseteq Orphans
<1>1. ASSUME TypeOK, [StoredNext]_vars
      PROVE  Reclaims
  <2> SUFFICES ASSUME (DOMAIN entries \ DOMAIN entries') # {}, NEW id \in Orphans'
               PROVE  id \in Orphans
    OBVIOUS
  <2>1. PICK E : TakesAlong(E)
    BY <1>1, WhoTakesEntries
  <2> DEFINE ids == UNION {RefIdsOf(entries, e) : e \in E}
  <2>2. /\ DOMAIN entries' = DOMAIN entries \ E
        /\ \A e \in DOMAIN entries \ E : entries'[e] = entries[e]
    BY <2>1 DEF TakesAlong, Without
  <2>3. \A e \in DOMAIN entries \ E : RefIdsOf(entries', e) = RefIdsOf(entries, e)
    BY <2>2 DEF RefIdsOf, VersionsOf
  <2>4. ReferencedIds(entries') = UNION {RefIdsOf(entries, e) : e \in DOMAIN entries \ E}
    BY <2>2, <2>3 DEF ReferencedIds
  <2>5. DOMAIN attachments' = DOMAIN attachments \ FreedBy(entries, ids, E)
    BY <2>1 DEF TakesAlong, Without
  <2>6. id \in DOMAIN attachments /\ id \notin ids /\ id \notin ReferencedIds(entries')
    BY <2>4, <2>5 DEF Orphans, FreedBy
  <2>7. id \notin ReferencedIds(entries)
    BY <2>4, <2>6 DEF ReferencedIds
  <2> QED  BY <2>6, <2>7 DEF Orphans
<1>2. TypeOK /\ [StoredNext]_vars => [Reclaims]_vars
  BY <1>1
<1>3. [][Reclaims]_vars => RemovalReclaims
  BY DEF RemovalReclaims
<1>4. StoredSpec => []TypeOK
  BY StoredTypes
<1> QED  BY <1>2, <1>3, <1>4, PTL DEF StoredSpec

----------------------------------------------------------------------------
(* Compaction.                                                             *)

\* Ranks number the ids from 0, in their order.
LEMMA RanksNumber ==
    ASSUME NEW S \in SUBSET AttachmentIds
    PROVE  /\ IsFiniteSet(S)
           /\ \A i, j \in S : Rank(S, i) = Rank(S, j) => i = j
           /\ {Rank(S, i) : i \in S} = 0 .. Cardinality(S) - 1
           /\ Cardinality({Rank(S, i) : i \in S}) = Cardinality(S)
<1>1. IsFiniteSet(S) /\ Cardinality(S) \in Nat
  <2>1. IsFiniteSet(AttachmentIds)
    <3>1. 0 \in Int /\ MaxAttachments - 1 \in Int
      BY MaxAttachmentsAssumption
    <3> QED  BY <3>1, FS_Interval DEF AttachmentIds
  <2> QED  BY <2>1, FS_Subset, FS_CardinalityType
<1>2. \A i \in S : i \in Nat
  BY MaxAttachmentsAssumption DEF AttachmentIds
<1> DEFINE Below(i) == {j \in S : j < i}
<1>3. ASSUME NEW i \in S
      PROVE  /\ Rank(S, i) = Cardinality(Below(i)) /\ Rank(S, i) \in Nat
             /\ IsFiniteSet(Below(i)) /\ Below(i) \subseteq S /\ i \notin Below(i)
  <2>1. Below(i) \in SUBSET S /\ i \notin Below(i)
    BY <1>2
  <2>2. IsFiniteSet(Below(i)) /\ Cardinality(Below(i)) \in Nat
    <3> HIDE DEF Below
    <3> QED  BY <1>1, <2>1, FS_Subset, FS_CardinalityType
  <2> QED  BY <2>1, <2>2 DEF Rank
<1>4. ASSUME NEW i \in S, NEW j \in S, i < j
      PROVE  Rank(S, i) < Rank(S, j)
  <2>1. Below(i) \in SUBSET Below(j) /\ i \in Below(j) /\ i \notin Below(i)
    BY <1>2, <1>4
  <2> HIDE DEF Below
  <2>2. /\ Cardinality(Below(i)) <= Cardinality(Below(j))
        /\ Cardinality(Below(j)) # Cardinality(Below(i))
    BY <1>3, <2>1, FS_Subset
  <2>3. Rank(S, i) \in Nat /\ Rank(S, j) \in Nat
    BY <1>3
  <2> QED  BY <1>3, <2>2, <2>3
<1>5. \A i, j \in S : Rank(S, i) = Rank(S, j) => i = j
  <2>1. ASSUME NEW i \in S, NEW j \in S, Rank(S, i) = Rank(S, j), i # j
        PROVE  FALSE
    <3>1. i < j \/ j < i
      BY <1>2, <2>1
    <3>2. Rank(S, i) \in Nat /\ Rank(S, j) \in Nat
      BY <1>3
    <3>3. Rank(S, i) < Rank(S, j) \/ Rank(S, j) < Rank(S, i)
      BY <1>4, <3>1
    <3> QED  BY <2>1, <3>2, <3>3
  <2> QED  BY <2>1
<1> DEFINE n == Cardinality(S)
           R == {Rank(S, i) : i \in S}
<1>6. ASSUME NEW i \in S
      PROVE  Rank(S, i) \in 0 .. n - 1
  <2>1. Below(i) \in SUBSET S /\ Below(i) # S
    BY <1>3
  <2> HIDE DEF Below
  <2>2. Cardinality(Below(i)) <= n /\ Cardinality(Below(i)) # n
    BY <1>1, <2>1, FS_Subset
  <2>3. Rank(S, i) \in Nat /\ Rank(S, i) = Cardinality(Below(i))
    BY <1>3
  <2> QED  BY <1>1, <2>2, <2>3
<1>7. IsFiniteSet(0 .. n - 1) /\ Cardinality(0 .. n - 1) = n
  <2>1. n \in Nat /\ 0 \in Int /\ n - 1 \in Int
    BY <1>1
  <2> HIDE DEF n
  <2>2. /\ IsFiniteSet(0 .. n - 1)
        /\ Cardinality(0 .. n - 1) = IF 0 > n - 1 THEN 0 ELSE n - 1 - 0 + 1
    BY <2>1, FS_Interval
  <2> QED  BY <2>1, <2>2
<1>8. R \in SUBSET (0 .. n - 1)
  BY <1>6
<1>9. Cardinality(R) = n
  <2> DEFINE f == [i \in S |-> Rank(S, i)]
  <2>1. f \in Bijection(S, R)
    <3>1. f \in [S -> R] /\ \A i, j \in S : f[i] = f[j] => i = j
      BY <1>5
    <3>2. \A r \in R : \E i \in S : f[i] = r
      OBVIOUS
    <3> HIDE DEF f, R
    <3> QED  BY <3>1, <3>2 DEF Bijection, Injection, Surjection, IsInjective
  <2>2. ExistsBijection(S, R)
    <3> HIDE DEF f, R
    <3> QED  BY <2>1 DEF ExistsBijection
  <2> HIDE DEF R
  <2> QED  BY <1>1, <2>2, FS_Bijection
<1> HIDE DEF R, n
<1>10. R = 0 .. n - 1
  BY <1>7, <1>8, <1>9, FS_Subset
<1> QED  BY <1>1, <1>5, <1>9, <1>10 DEF R, n

\* What the names of one version stand for
ShownBy(v, pool) ==
    [n \in DOMAIN v.attachments |->
        LET id == v.attachments[n] IN IF id \in DOMAIN pool THEN pool[id] ELSE None]

LEMMA ShownVersions ==
    ASSUME NEW es, NEW fs, NEW pool, NEW pool2, DOMAIN fs = DOMAIN es,
           \A e \in DOMAIN es : /\ DOMAIN fs[e] = DOMAIN es[e]
                                /\ \A i \in DOMAIN es[e] :
                                      ShownBy(fs[e][i], pool2) = ShownBy(es[e][i], pool)
    PROVE  Shown(fs, pool2) = Shown(es, pool)
<1>1. Shown(es, pool) = [e \in DOMAIN es |-> [i \in DOMAIN es[e] |-> ShownBy(es[e][i], pool)]]
  BY DEF Shown, ShownBy
<1>2. Shown(fs, pool2) = [e \in DOMAIN fs |-> [i \in DOMAIN fs[e] |-> ShownBy(fs[e][i], pool2)]]
  BY DEF Shown, ShownBy
<1> QED  BY <1>1, <1>2

\* A compacted map of names shows what it did, provided it has binaries to show.
LEMMA CompactedVersion ==
    ASSUME NEW m, NEW pool, NEW kept \in SUBSET DOMAIN pool, DOMAIN pool \subseteq AttachmentIds,
           \A n \in DOMAIN m : m[n] \in kept
    PROVE  /\ DOMAIN RemapRefs(m, kept) = DOMAIN m
           /\ \A n \in DOMAIN m : /\ RemapRefs(m, kept)[n] = Rank(kept, m[n])
                                  /\ RemapRefs(m, kept)[n] \in DOMAIN CompactedPool(pool, kept)
                                  /\ CompactedPool(pool, kept)[Rank(kept, m[n])] = pool[m[n]]
<1>1. kept \in SUBSET AttachmentIds
  OBVIOUS
<1>2. \A i, j \in kept : Rank(kept, i) = Rank(kept, j) => i = j
  BY <1>1, RanksNumber
<1>3. ASSUME NEW id \in kept
      PROVE  (CHOOSE j \in kept : Rank(kept, j) = Rank(kept, id)) = id
  BY <1>2
<1>4. ASSUME NEW id \in kept
      PROVE  /\ Rank(kept, id) \in DOMAIN CompactedPool(pool, kept)
             /\ CompactedPool(pool, kept)[Rank(kept, id)] = pool[id]
  BY <1>3 DEF CompactedPool
<1>5. DOMAIN RemapRefs(m, kept) = DOMAIN m
  BY DEF RemapRefs
<1>6. \A n \in DOMAIN m : RemapRefs(m, kept)[n] = Rank(kept, m[n])
  BY DEF RemapRefs
<1> QED  BY <1>4, <1>5, <1>6

\* The versions of fs are those of entries with the names compacted.
IsRemapped(fs, kept) ==
    /\ DOMAIN fs = DOMAIN entries
    /\ \A e \in DOMAIN entries :
          /\ DOMAIN fs[e] = DOMAIN entries[e]
          /\ \A i \in DOMAIN entries[e] :
                fs[e][i].attachments = RemapRefs(entries[e][i].attachments, kept)

LEMMA RemappedShows ==
    ASSUME Inv, NEW fs, IsRemapped(fs, KeptIds(entries, attachments)),
           NEW pool, pool = CompactedPool(attachments, KeptIds(entries, attachments))
    PROVE  /\ Shown(fs, pool) = Shown(entries, attachments)
           /\ DOMAIN pool = ReferencedIds(fs)
           /\ DOMAIN pool = 0 .. Cardinality(DOMAIN pool) - 1
<1> DEFINE kept == KeptIds(entries, attachments)
<1>1. /\ kept \in SUBSET DOMAIN attachments /\ DOMAIN attachments \subseteq AttachmentIds
      /\ kept = ReferencedIds(entries)
  <2>1. RefsResolve
    BY InvGivesRefs
  <2> QED  BY <2>1 DEF KeptIds, RefsResolve, Inv, TypeOK, IsMap
<1>2. \A e \in DOMAIN entries : \A i \in DOMAIN entries[e] : RefIds(entries[e][i]) \subseteq kept
  BY <1>1 DEF ReferencedIds, RefIdsOf, VersionsOf
<1>3. /\ DOMAIN fs = DOMAIN entries
      /\ \A e \in DOMAIN entries :
            /\ DOMAIN fs[e] = DOMAIN entries[e]
            /\ \A i \in DOMAIN entries[e] :
                  fs[e][i].attachments = RemapRefs(entries[e][i].attachments, kept)
  BY DEF IsRemapped
<1>4. pool = CompactedPool(attachments, kept)
  OBVIOUS
<1> HIDE DEF kept
<1>5. DOMAIN pool = {Rank(kept, id) : id \in kept}
  BY <1>4 DEF CompactedPool
<1>6. ASSUME NEW e \in DOMAIN entries, NEW i \in DOMAIN entries[e]
      PROVE  /\ ShownBy(fs[e][i], pool) = ShownBy(entries[e][i], attachments)
             /\ RefIds(fs[e][i]) = {Rank(kept, id) : id \in RefIds(entries[e][i])}
  <2> DEFINE m == entries[e][i].attachments
             w == fs[e][i].attachments
  <2>1. \A n \in DOMAIN m : m[n] \in kept
    BY <1>2 DEF RefIds
  <2>2. w = RemapRefs(m, kept)
    BY <1>3
  <2> HIDE DEF w, m
  <2>3. /\ DOMAIN w = DOMAIN m
        /\ \A n \in DOMAIN m : /\ w[n] = Rank(kept, m[n]) /\ w[n] \in DOMAIN pool
                               /\ pool[w[n]] = attachments[m[n]]
    BY <1>1, <1>4, <2>1, <2>2, CompactedVersion
  <2>4. \A n \in DOMAIN m : m[n] \in DOMAIN attachments
    BY <1>1, <2>1
  <2>5. ShownBy(fs[e][i], pool) = [n \in DOMAIN w |-> IF w[n] \in DOMAIN pool THEN pool[w[n]] ELSE None]
    BY DEF ShownBy, w
  <2>6. ShownBy(entries[e][i], attachments)
            = [n \in DOMAIN m |-> IF m[n] \in DOMAIN attachments THEN attachments[m[n]] ELSE None]
    BY DEF ShownBy, m
  <2>7. ShownBy(fs[e][i], pool) = ShownBy(entries[e][i], attachments)
    BY <2>3, <2>4, <2>5, <2>6
  <2>8. RefIds(fs[e][i]) = {w[n] : n \in DOMAIN w} /\ RefIds(entries[e][i]) = {m[n] : n \in DOMAIN m}
    BY DEF RefIds, w, m
  <2>9. {w[n] : n \in DOMAIN w} = {Rank(kept, id) : id \in {m[n] : n \in DOMAIN m}}
    BY <2>3
  <2> QED  BY <2>7, <2>8, <2>9
<1>7. Shown(fs, pool) = Shown(entries, attachments)
  BY <1>3, <1>6, ShownVersions
<1>8. ReferencedIds(fs) = {Rank(kept, id) : id \in kept}
  <2>1. ASSUME NEW r \in ReferencedIds(fs)
        PROVE  \E id \in kept : r = Rank(kept, id)
    <3>1. PICK e \in DOMAIN fs : r \in RefIdsOf(fs, e)
      BY <2>1 DEF ReferencedIds
    <3>2. PICK i \in DOMAIN fs[e] : r \in RefIds(fs[e][i])
      BY <3>1 DEF RefIdsOf, VersionsOf
    <3> QED  BY <1>2, <1>3, <1>6, <3>2
  <2>2. ASSUME NEW id \in kept
        PROVE  Rank(kept, id) \in ReferencedIds(fs)
    <3>1. PICK e \in DOMAIN entries : id \in RefIdsOf(entries, e)
      BY <1>1, <2>2 DEF ReferencedIds
    <3>2. PICK i \in DOMAIN entries[e] : id \in RefIds(entries[e][i])
      BY <3>1 DEF RefIdsOf, VersionsOf
    <3>3. Rank(kept, id) \in RefIds(fs[e][i]) /\ i \in DOMAIN fs[e] /\ e \in DOMAIN fs
      BY <1>3, <1>6, <3>2
    <3> QED  BY <3>3 DEF ReferencedIds, RefIdsOf, VersionsOf
  <2> QED  BY <2>1, <2>2
<1>9. DOMAIN pool = 0 .. Cardinality(DOMAIN pool) - 1
  <2>1. kept \in SUBSET AttachmentIds
    BY <1>1
  <2> QED  BY <1>5, <2>1, RanksNumber
<1> QED  BY <1>5, <1>7, <1>8, <1>9

\* compact_attachments changes ids and nothing that a name stands for, leaves no
\* orphan, and numbers the binaries from 0, whatever has become of the database
\* before: no name dangles for it to drop.
THEOREM CompactionChangesIdsOnly ==
    ASSUME "reach around" \notin Liberties
    PROVE  StoredSpec => CompactionExact
<1> DEFINE Exact == CompactAttachments =>
          /\ Shown(entries', attachments') = Shown(entries, attachments)
          /\ Orphans' = {}
          /\ DOMAIN attachments' = 0 .. Cardinality(DOMAIN attachments') - 1
<1>1. ASSUME Inv
      PROVE  Exact
  <2> SUFFICES ASSUME CompactAttachments
               PROVE  /\ Shown(entries', attachments') = Shown(entries, attachments)
                      /\ Orphans' = {}
                      /\ DOMAIN attachments' = 0 .. Cardinality(DOMAIN attachments') - 1
    OBVIOUS
  <2> DEFINE kept == KeptIds(entries, attachments)
  <2>1. entries' = CompactedEntries(entries, kept) /\ attachments' = CompactedPool(attachments, kept)
    BY DEF CompactAttachments
  <2>2. IsRemapped(entries', kept)
    <3>1. \A e \in DOMAIN entries : \A i \in DOMAIN entries[e] :
             [entries[e][i] EXCEPT !.attachments = RemapRefs(@, kept)].attachments
                 = RemapRefs(entries[e][i].attachments, kept)
      <4> HIDE DEF kept
      <4>1. \A e \in DOMAIN entries : \A i \in DOMAIN entries[e] : entries[e][i] \in Versions
        BY <1>1, VersionTyped DEF Inv, TypeOK, Lives
      <4> QED  BY <4>1 DEF Versions
    <3> HIDE DEF kept
    <3> QED  BY <2>1, <3>1 DEF IsRemapped, CompactedEntries, MapVersions
  <2> QED  BY <1>1, <2>1, <2>2, RemappedShows DEF Orphans
<1>2. Init => Inv
  BY InitInv
<1>3. Inv /\ [StoredNext]_vars => Inv'
  BY StepInv
<1>4. Inv => [Exact]_vars
  BY <1>1
<1>5. [][Exact]_vars => CompactionExact
  BY DEF CompactionExact
<1> QED  BY <1>2, <1>3, <1>4, <1>5, PTL DEF StoredSpec

\* Saving and opening changes no name's binary either, and writes no orphan
\* (to_xml, xml_to_db).
THEOREM SavingShowsTheSame ==
    ASSUME "reach around" \notin Liberties
    PROVE  StoredSpec => ReopenExact
<1> DEFINE Exact == Reopen =>
          /\ Shown(entries', attachments') = Shown(entries, attachments)
          /\ Orphans' = {}
<1>1. ASSUME Inv
      PROVE  Exact
  <2> SUFFICES ASSUME Reopen
               PROVE  /\ Shown(entries', attachments') = Shown(entries, attachments)
                      /\ Orphans' = {}
    OBVIOUS
  <2> DEFINE kept == KeptIds(entries, attachments)
             compacted == CompactedEntries(entries, kept)
  <2>1. /\ entries' = [e \in DOMAIN entries |-> StoredVersions(compacted[e], icons)]
        /\ attachments' = CompactedPool(attachments, kept)
    BY ReopenedMaps
  <2>2. IsRemapped(entries', kept)
    <3>1. ASSUME NEW e \in DOMAIN entries
          PROVE  /\ DOMAIN compacted[e] = DOMAIN entries[e]
                 /\ \A i \in DOMAIN entries[e] :
                       compacted[e][i] = [entries[e][i] EXCEPT !.attachments = RemapRefs(@, kept)]
      BY DEF CompactedEntries, MapVersions
    <3> HIDE DEF kept, compacted
    <3>2. ASSUME NEW e \in DOMAIN entries, NEW i \in DOMAIN entries[e]
          PROVE  entries'[e][i].attachments = RemapRefs(entries[e][i].attachments, kept)
      <4> DEFINE v == entries[e][i]
                 p == compacted[e][1].parent
                 m == RemapRefs(v.attachments, kept)
                 icon == StoredIcon(compacted[e][i].icon, icons)
      <4>1. v \in Versions
        BY <1>1, VersionTyped DEF Inv, TypeOK, Lives
      <4>2. compacted[e][i] = [v EXCEPT !.attachments = m]
        BY <3>1
      <4>3. entries'[e][i] = [compacted[e][i] EXCEPT !.parent = p, !.icon = icon]
        BY <2>1, <3>1 DEF StoredVersions
      <4> HIDE DEF v, p, m, icon
      <4>4. entries'[e][i].attachments = m
        BY <4>1, <4>2, <4>3 DEF Versions
      <4> QED  BY <4>4 DEF m, v
    <3>3. \A e \in DOMAIN entries : DOMAIN entries'[e] = DOMAIN entries[e]
      BY <2>1, <3>1 DEF StoredVersions
    <3> QED  BY <2>1, <3>2, <3>3 DEF IsRemapped
  <2> QED  BY <1>1, <2>1, <2>2, RemappedShows DEF Orphans
<1>2. Init => Inv
  BY InitInv
<1>3. Inv /\ [StoredNext]_vars => Inv'
  BY StepInv
<1>4. Inv => [Exact]_vars
  BY <1>1
<1>5. [][Exact]_vars => ReopenExact
  BY DEF ReopenExact
<1> QED  BY <1>2, <1>3, <1>4, <1>5, PTL DEF StoredSpec

=============================================================================
