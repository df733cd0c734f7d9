---------------------------- MODULE BookmarksProofs ----------------------------
(***************************************************************************)
(* Proofs about Bookmarks: rows keep the table's constraints, requests     *)
(* stay with their owner and merge, and a cursor walk shows every bookmark *)
(* that stays exactly once, for any users, handlers, readings of the       *)
(* clock, page size and number of writes.                                  *)
(***************************************************************************)
EXTENDS Bookmarks, MaxFacts, FiniteSetTheorems, TLAPS

USE ValueAssumption, TimeAssumption, PageSizeAssumption, BoundAssumption

--------------------------------------------------------------------------------
(***************************************************************************)
(* The inductive invariant.                                                *)
(***************************************************************************)

RowTypes ==
    /\ DOMAIN rows \subseteq Nat
    /\ \A i \in DOMAIN rows : rows[i] \in Bookmark /\ rows[i].updated >= rows[i].created

\* Identifiers are not larger than the number of writes, creation times have a
\* bound, and every row was born at a write of its own.
Births ==
    /\ \A i \in DOMAIN rows : i <= writes /\ rows[i].born <= writes
    /\ \A i, j \in DOMAIN rows : rows[i].born = rows[j].born => i = j
    /\ \E n \in Nat : \A i \in DOMAIN rows : rows[i].created <= n

HeldTypes == DOMAIN held \subseteq Request /\ \A r \in DOMAIN held : held[r] \in Held

\* What a request remembers of its bookmark is so as long as that exists: only its
\* content and the time of its last update change.
Remembered(h) ==
    /\ h.born <= writes
    /\ \A i \in DOMAIN rows : rows[i].born = h.born =>
          i = h.id /\ rows[i].owner = h.owner /\ rows[i].created = h.created

Shown == walk.seen \cup walk.items

WalkTypes ==
    /\ walk \in [owner : User, tag : Value \cup {Anything}, boundary : {Start} \cup (Nat \X Nat),
                 items : SUBSET Nat, more : BOOLEAN, seen : SUBSET Nat, stay : SUBSET Nat]
    /\ \A x \in Shown \cup walk.stay : x <= writes
    /\ walk.more => walk.boundary \in Nat \X Nat

\* Nothing that was shown lies beyond the cursor,
Behind ==
    walk.more => \A i \in DOMAIN rows :
        rows[i].born \in Shown => ~Below(Key(i), walk.boundary)

\* and whatever stays and was not shown does.
Ahead(x) ==
    /\ walk.more
    /\ \E i \in DOMAIN rows : /\ rows[i].born = x
                              /\ Matches(rows[i], walk.owner, walk.tag)
                              /\ Below(Key(i), walk.boundary)

BInv ==
    /\ RowTypes /\ Births
    /\ marked \subseteq User \X Nat
    /\ writes \in 0..MaxWrites
    /\ HeldTypes /\ WalkTypes
    /\ \A r \in DOMAIN held : Remembered(held[r])
    /\ WalkRepeatsNothing
    /\ Behind
    /\ \A x \in walk.stay : x \in Shown \/ Ahead(x)

--------------------------------------------------------------------------------
(***************************************************************************)
(* Pages.                                                                  *)
(***************************************************************************)
Older(i, j) ==
    \/ rows[i].created < rows[j].created
    \/ rows[i].created = rows[j].created /\ i < j

LEMMA KeysAreOrdered ==
    ASSUME RowTypes, NEW i \in DOMAIN rows, NEW j \in DOMAIN rows
    PROVE  /\ Key(i) \in Nat \X Nat /\ Key(i) # Start
           /\ Below(Key(i), Key(j)) <=> Older(i, j)
           /\ i = j \/ Older(i, j) \/ Older(j, i)
           /\ ~(Older(i, j) /\ (Older(j, i) \/ i = j))
  <1>1. i \in Nat /\ j \in Nat /\ rows[i].created \in Nat /\ rows[j].created \in Nat
    BY DEF RowTypes, Bookmark
  <1>2. Key(i) \in Nat \X Nat /\ Key(i) # Start /\ Key(j) # Start
    BY <1>1 DEF Key, Start
  <1>3. Below(Key(i), Key(j)) <=> Older(i, j)
    BY <1>1, <1>2 DEF Key, Below, Older
  <1> QED  BY <1>1, <1>2, <1>3 DEF Older

\* To the right of a boundary, transitively.
LEMMA BelowGoesOn ==
    ASSUME RowTypes, NEW i \in DOMAIN rows, NEW j \in DOMAIN rows,
           NEW k \in {Start} \cup (Nat \X Nat), Below(Key(j), k), Older(i, j) \/ i = j
    PROVE  Below(Key(i), k)
  <1>1. i \in Nat /\ j \in Nat /\ rows[i].created \in Nat /\ rows[j].created \in Nat
    BY DEF RowTypes, Bookmark
  <1>2. CASE k \in Nat \X Nat
    BY <1>1, <1>2 DEF Key, Below, Older
  <1>3. CASE k = Start
    BY <1>3 DEF Below
  <1> QED  BY <1>2, <1>3

LEMMA SetsOfRowsAreFinite ==
    ASSUME RowTypes, Births, writes \in Nat, NEW M, M \subseteq DOMAIN rows
    PROVE  IsFiniteSet(M)
  <1>1. M \in SUBSET Nat /\ \A i \in M : i <= writes
    BY DEF RowTypes, Births
  <1> QED  BY <1>1, FS_BoundedSetOfNaturals

\* A set of rows has a newest one.
LEMMA Newest ==
    ASSUME RowTypes, Births, writes \in Nat, NEW M, M \subseteq DOMAIN rows, M # {}
    PROVE  \E i \in M : \A j \in M : ~Older(i, j)
  <1> DEFINE S == {rows[i].created : i \in M}
             T == {i \in M : rows[i].created = Max(S)}
  <1>1. \A i \in M : i \in Nat /\ i <= writes /\ rows[i].created \in Nat
    BY DEF RowTypes, Births, Bookmark
  <1>2. PICK n \in Nat : \A i \in DOMAIN rows : rows[i].created <= n
    BY DEF Births
  <1>3. S \subseteq Nat /\ S # {} /\ \A x \in S : x <= n
    BY <1>1, <1>2
  <1>4. Max(S) \in S /\ \A x \in S : x <= Max(S)
    BY <1>3, MaxOfBounded
  <1>5. T \subseteq Nat /\ T # {} /\ \A i \in T : i <= writes
    BY <1>1, <1>4
  <1>6. Max(T) \in T /\ \A i \in T : i <= Max(T)
    BY <1>5, MaxOfBounded
  <1>7. Max(T) \in M /\ rows[Max(T)].created = Max(S)
    BY <1>6
  <1>8. \A j \in M : rows[j].created \in S /\ (rows[j].created = Max(S) => j \in T)
    OBVIOUS
  <1> HIDE DEF S, T
  <1>9. \A j \in M : ~Older(Max(T), j)
    BY <1>1, <1>4, <1>6, <1>7, <1>8 DEF Older
  <1> QED  BY <1>7, <1>9

\* and an oldest.
LEMMA Oldest ==
    ASSUME RowTypes, NEW M, M \subseteq DOMAIN rows, M # {}
    PROVE  \E i \in M : \A j \in M : j = i \/ Older(i, j)
  <1> DEFINE S == {rows[i].created : i \in M}
  <1>1. \A i \in M : i \in Nat /\ rows[i].created \in Nat
    BY DEF RowTypes, Bookmark
  <1>2. S \subseteq Nat /\ S # {}
    BY <1>1
  <1>3. PICK t \in S : \A y \in S : t <= y
    BY <1>2, LeastElement
  <1> DEFINE T == {i \in M : rows[i].created = t}
  <1>4. T \subseteq Nat /\ T # {}
    BY <1>1, <1>3
  <1>5. PICK i \in T : \A y \in T : i <= y
    BY <1>4, LeastElement
  <1>6. i \in M /\ rows[i].created = t
    OBVIOUS
  <1>7. \A j \in M : rows[j].created \in S /\ (rows[j].created = t => j \in T)
    OBVIOUS
  <1> HIDE DEF S, T
  <1>8. \A j \in M : j = i \/ Older(i, j)
    BY <1>1, <1>3, <1>5, <1>6, <1>7 DEF Older
  <1> QED  BY <1>6, <1>8

\* Without a further row the page is everything there is.  With one, its last key
\* parts what it shows from what it leaves.
LEMMA PageParts ==
    ASSUME RowTypes, Births, writes \in Nat, NEW M, M \subseteq DOMAIN rows
    PROVE  /\ Page(M) \subseteq M
           /\ ~HasMore(M) => Page(M) = M
           /\ HasMore(M) => \E l \in Page(M) :
                 /\ LastKey(Page(M)) = Key(l)
                 /\ \A j \in Page(M) : j = l \/ Older(l, j)
                 /\ \A j \in M \ Page(M) : Older(j, l)
  <1> DEFINE Above(i) == {j \in M : Below(Key(i), Key(j))}
  <1>1. IsFiniteSet(M) /\ Cardinality(M) \in Nat
    BY SetsOfRowsAreFinite, FS_CardinalityType
  <1>2. \A i, j \in M : j \in Above(i) <=> Older(i, j)
    BY KeysAreOrdered
  <1>3. \A i \in M : IsFiniteSet(Above(i)) /\ Cardinality(Above(i)) \in Nat
    <2> SUFFICES ASSUME NEW i \in M PROVE IsFiniteSet(Above(i)) /\ Cardinality(Above(i)) \in Nat
      OBVIOUS
    <2>1. Above(i) \in SUBSET M
      OBVIOUS
    <2> QED  BY <1>1, <2>1, FS_Subset, FS_CardinalityType
  <1>4. Page(M) = {i \in M : Cardinality(Above(i)) < PageSize}
    BY DEF Page
  <1>5. \A i \in M : Above(i) \subseteq M \ {i}
    BY <1>2, KeysAreOrdered
  <1>6. ASSUME NEW i \in M, NEW j \in M, Older(i, j) PROVE Above(j) \subseteq Above(i)
    <2> SUFFICES ASSUME NEW k \in M, Older(j, k) PROVE Older(i, k)
      BY <1>2
    <2> QED  BY <1>6 DEF Older, RowTypes, Bookmark
  <1> HIDE DEF Above
  <1>7. ASSUME ~HasMore(M) PROVE Page(M) = M
    <2> SUFFICES ASSUME NEW i \in M PROVE Cardinality(Above(i)) < PageSize
      BY <1>4
    <2>1. IsFiniteSet(M \ {i}) /\ Cardinality(M \ {i}) = Cardinality(M) - 1
      BY <1>1, FS_RemoveElement
    <2>2. Cardinality(Above(i)) <= Cardinality(M \ {i})
      BY <1>5, <2>1, FS_Subset
    <2> QED  BY <1>1, <1>3, <1>7, <2>1, <2>2 DEF HasMore
  <1>8. ASSUME HasMore(M)
        PROVE  \E l \in Page(M) : /\ LastKey(Page(M)) = Key(l)
                                  /\ \A j \in Page(M) : j = l \/ Older(l, j)
                                  /\ \A j \in M \ Page(M) : Older(j, l)
    <2>1. M # {}
      BY <1>1, <1>8, FS_EmptySet DEF HasMore
    <2>2. PICK n \in M : \A j \in M : ~Older(n, j)
      BY <2>1, Newest
    <2>3. Above(n) = {}
      BY <1>2, <1>5, <2>2
    <2>4. n \in Page(M)
      BY <1>4, <2>3, FS_EmptySet
    <2>5. Page(M) \subseteq DOMAIN rows
      BY <1>4
    <2>6. \E o \in Page(M) : \A j \in Page(M) : j = o \/ Older(o, j)
      BY <2>4, <2>5, Oldest
    <2>7. PICK o \in Page(M) : \A j \in Page(M) : j = o \/ Older(o, j)
      BY <2>6
    <2> DEFINE Last(k) == \A j \in Page(M) : k = Key(j) \/ Below(k, Key(j))
               Keys == {Key(i) : i \in Page(M)}
    <2>8. Key(o) \in Keys /\ Last(Key(o))
      BY <2>5, <2>7, KeysAreOrdered
    <2>9. LastKey(Page(M)) = CHOOSE k \in Keys : Last(k)
      BY DEF LastKey
    <2>10. LastKey(Page(M)) \in Keys /\ Last(LastKey(Page(M)))
      <3> HIDE DEF Keys, Last
      <3> QED  BY <2>8, <2>9
    <2>11. PICK l \in Page(M) : LastKey(Page(M)) = Key(l)
      BY <2>10
    <2>12. \A j \in Page(M) : j = l \/ Older(l, j)
      <3> SUFFICES ASSUME NEW j \in Page(M), Key(l) = Key(j) \/ Below(Key(l), Key(j))
                   PROVE  j = l \/ Older(l, j)
        BY <2>10, <2>11
      <3>1. Key(l) = Key(j) => l = j
        BY DEF Key
      <3> QED  BY <2>5, <3>1, KeysAreOrdered
    <2>13. \A j \in M \ Page(M) : Older(j, l)
      <3> SUFFICES ASSUME NEW j \in M, Older(l, j) PROVE j \in Page(M)
        BY <2>5, <2>11, KeysAreOrdered
      <3>1. Above(j) \subseteq Above(l) /\ l \in M
        BY <1>4, <1>6
      <3>2. Cardinality(Above(j)) <= Cardinality(Above(l))
        BY <1>3, <3>1, FS_Subset
      <3> QED  BY <1>3, <1>4, <3>1, <3>2
    <2> QED  BY <2>11, <2>12, <2>13
  <1> QED  BY <1>4, <1>7, <1>8

--------------------------------------------------------------------------------
(***************************************************************************)
(* The walk.                                                               *)
(***************************************************************************)

\* A boundary that parts what was shown from what stays.
Parts(u, tag, k, seen, stay) ==
    /\ u \in User /\ tag \in Value \cup {Anything} /\ k \in {Start} \cup (Nat \X Nat)
    /\ seen \subseteq Nat /\ stay \subseteq Nat
    /\ \A x \in seen \cup stay : x <= writes
    /\ \A i \in DOMAIN rows : rows[i].born \in seen => ~Below(Key(i), k)
    /\ \A x \in stay : x \in seen \/ \E i \in Matching(u, tag, k) : rows[i].born = x

\* The page from such a boundary keeps the invariant.
LEMMA ServeKeeps ==
    ASSUME BInv, NEW u, NEW tag, NEW k, NEW seen, NEW stay,
           Parts(u, tag, k, seen, stay), Serve(u, tag, k, seen, stay)
    PROVE  BInv'
  <1> DEFINE M == Matching(u, tag, k)
             P == Page(M)
             Items == {rows[i].born : i \in P}
             bound == IF HasMore(M) THEN LastKey(P) ELSE k
  <1> USE DEF Parts
  <1>1. M \subseteq DOMAIN rows /\ \A i \in M : Below(Key(i), k) /\ Matches(rows[i], u, tag)
    BY DEF Matching
  <1>2. \A i \in DOMAIN rows : i \in M <=> Below(Key(i), k) /\ Matches(rows[i], u, tag)
    BY DEF Matching
  <1>3. /\ walk' = [owner |-> u, tag |-> tag, boundary |-> bound,
                    items |-> Items, more |-> HasMore(M), seen |-> seen, stay |-> stay]
        /\ rows' = rows /\ marked' = marked /\ writes' = writes /\ held' = held
    BY DEF Serve
  <1>4. RowTypes /\ Births /\ writes \in Nat
    BY DEF BInv
  <1> HIDE DEF M
  <1>5. /\ P \subseteq M
        /\ ~HasMore(M) => P = M
        /\ HasMore(M) => \E l \in P : /\ LastKey(P) = Key(l)
                                      /\ \A j \in P : j = l \/ Older(l, j)
                                      /\ \A j \in M \ P : Older(j, l)
    BY <1>1, <1>4, PageParts
  <1> HIDE DEF P
  <1>6. HasMore(M) \in BOOLEAN
    BY DEF HasMore
  <1>7. Items \subseteq Nat /\ \A x \in Items : x <= writes
    BY <1>1, <1>4, <1>5 DEF RowTypes, Births, Bookmark
  <1>8. \A i \in DOMAIN rows : rows[i].born \in Items => i \in P
    BY <1>1, <1>4, <1>5 DEF Births
  <1>9. Items \cap seen = {}
    BY <1>1, <1>5
  <1> HIDE DEF Items
  <1>10. bound \in {Start} \cup (Nat \X Nat) /\ (HasMore(M) => bound \in Nat \X Nat)
    BY <1>1, <1>4, <1>5, KeysAreOrdered
  <1>11. ASSUME HasMore(M), NEW i \in DOMAIN rows, rows[i].born \in seen \cup Items
         PROVE  ~Below(Key(i), bound)
    <2>1. PICK l \in P : bound = Key(l) /\ \A j \in P : j = l \/ Older(l, j)
      BY <1>5, <1>11
    <2>2. l \in DOMAIN rows /\ Below(Key(l), k)
      BY <1>1, <1>5
    <2>3. CASE i \in P
      BY <1>4, <2>1, <2>2, <2>3, KeysAreOrdered
    <2>4. CASE rows[i].born \in seen
      <3> SUFFICES ASSUME Below(Key(i), Key(l)) PROVE FALSE
        BY <2>1
      <3>1. Older(i, l)
        BY <1>4, <2>2, KeysAreOrdered
      <3>2. Below(Key(i), k)
        BY <1>4, <2>2, <3>1, BelowGoesOn
      <3> QED  BY <2>4, <3>2
    <2> QED  BY <1>8, <1>11, <2>3, <2>4
  <1>12. ASSUME NEW x \in stay, x \notin seen \cup Items
         PROVE  HasMore(M) /\ \E i \in DOMAIN rows : /\ rows[i].born = x
                                                     /\ Matches(rows[i], u, tag)
                                                     /\ Below(Key(i), bound)
    <2>1. PICK i \in M : rows[i].born = x
      BY <1>12 DEF M
    <2>2. i \notin P
      BY <1>12, <2>1 DEF Items
    <2>3. HasMore(M)
      BY <1>5, <2>1, <2>2
    <2>4. PICK l \in P : bound = Key(l) /\ Older(i, l)
      BY <1>5, <2>1, <2>2, <2>3
    <2>5. Below(Key(i), bound)
      BY <1>1, <1>4, <1>5, <2>1, <2>4, KeysAreOrdered
    <2> QED  BY <1>1, <2>1, <2>3, <2>5
  <1> HIDE DEF bound
  <1>13. WalkTypes'
    BY <1>3, <1>6, <1>7, <1>10 DEF WalkTypes, Shown
  <1>14. WalkRepeatsNothing' /\ Behind'
    BY <1>3, <1>9, <1>11 DEF WalkRepeatsNothing, Behind, Shown, Key
  <1>15. (\A x \in walk.stay : x \in Shown \/ Ahead(x))'
    BY <1>3, <1>12 DEF Shown, Ahead, Key
  <1>16. (RowTypes /\ Births /\ HeldTypes)' /\ (\A r \in DOMAIN held : Remembered(held[r]))'
    BY <1>3 DEF BInv, RowTypes, Births, HeldTypes, Remembered
  <1> QED  BY <1>3, <1>13, <1>14, <1>15, <1>16 DEF BInv

LEMMA StartWalkKeeps ==
    ASSUME BInv, NEW u \in User, NEW tag \in Value \cup {Anything}, StartWalk(u, tag)
    PROVE  BInv'
  <1> DEFINE stay == {rows[i].born : i \in Matching(u, tag, Start)}
  <1>1. Serve(u, tag, Start, {}, stay)
    BY DEF StartWalk
  <1>2. \A i \in Matching(u, tag, Start) : i \in DOMAIN rows
    BY DEF Matching
  <1>3. stay \in SUBSET Nat /\ \A x \in stay : x <= writes
    BY <1>2 DEF BInv, RowTypes, Births, Bookmark
  <1>4. \A x \in stay : \E i \in Matching(u, tag, Start) : rows[i].born = x
    OBVIOUS
  <1> HIDE DEF stay
  <1>5. Parts(u, tag, Start, {}, stay)
    BY <1>3, <1>4 DEF Parts
  <1> QED  BY <1>1, <1>5, ServeKeeps

LEMMA FollowCursorKeeps == ASSUME BInv, FollowCursor PROVE BInv'
  <1>1. walk.more /\ Serve(walk.owner, walk.tag, walk.boundary, Shown, walk.stay)
    BY DEF FollowCursor, Shown
  <1>2. /\ walk.owner \in User /\ walk.tag \in Value \cup {Anything}
        /\ walk.boundary \in {Start} \cup (Nat \X Nat)
        /\ Shown \in SUBSET Nat /\ walk.stay \in SUBSET Nat
        /\ \A x \in Shown \cup walk.stay : x <= writes
    BY DEF BInv, WalkTypes, Shown
  <1>3. \A i \in DOMAIN rows : rows[i].born \in Shown => ~Below(Key(i), walk.boundary)
    BY <1>1 DEF BInv, Behind
  <1>4. \A x \in walk.stay : x \in Shown
            \/ \E i \in Matching(walk.owner, walk.tag, walk.boundary) : rows[i].born = x
    BY DEF BInv, Ahead, Matching
  <1>5. Parts(walk.owner, walk.tag, walk.boundary, Shown, walk.stay)
    BY <1>2, <1>3, <1>4 DEF Parts
  <1> QED  BY <1>1, <1>5, ServeKeeps

--------------------------------------------------------------------------------
(***************************************************************************)
(* Writes.                                                                 *)
(***************************************************************************)

\* A row of the new table is one of the old with its identifier, birth and creation
\* time, or it is born now.
Continues(t, i) ==
    /\ i \in DOMAIN rows
    /\ t[i].born = rows[i].born /\ t[i].created = rows[i].created /\ t[i].owner = rows[i].owner

LEMMA WriteKeeps ==
    ASSUME BInv, NEW t, NEW u \in User, NEW n \in Nat, Write(t, <<u, n>>),
           DOMAIN t \subseteq Nat,
           \A i \in DOMAIN t : t[i] \in Bookmark /\ t[i].updated >= t[i].created,
           \A i \in DOMAIN t : Continues(t, i) \/ (t[i].born = writes + 1 /\ i <= writes + 1),
           \A i, j \in DOMAIN t : t[i].born = writes + 1 /\ t[j].born = writes + 1 => i = j,
           DOMAIN held' \subseteq DOMAIN held, \A r \in DOMAIN held' : held'[r] = held[r]
    PROVE  BInv'
  <1> DEFINE staying == {t[i].born : i \in {j \in DOMAIN t : Matches(t[j], walk.owner, walk.tag)}}
  <1>1. /\ rows' = t /\ writes' = writes + 1 /\ writes < MaxWrites /\ marked' = {<<u, n>>}
        /\ walk' = [walk EXCEPT !.stay = @ \cap staying]
    BY DEF Write
  <1>2. /\ writes \in Nat /\ writes' \in 0..MaxWrites /\ marked' \subseteq User \X Nat
    BY <1>1 DEF BInv
  <1>3. /\ walk'.owner = walk.owner /\ walk'.tag = walk.tag /\ walk'.boundary = walk.boundary
        /\ walk'.items = walk.items /\ walk'.more = walk.more /\ walk'.seen = walk.seen
        /\ walk'.stay = walk.stay \cap staying /\ Shown' = Shown
    BY <1>1 DEF BInv, WalkTypes, Shown
  <1>4. RowTypes'
    BY <1>1 DEF RowTypes
  <1>5. Births'
    <2>1. PICK c \in Nat : \A i \in DOMAIN rows : rows[i].created <= c
      BY DEF BInv, Births
    <2>2. \A i \in DOMAIN t : i <= writes + 1 /\ t[i].born <= writes + 1
      BY <1>2 DEF BInv, Births, Continues, RowTypes, Bookmark
    <2>3. \A i, j \in DOMAIN t : t[i].born = t[j].born => i = j
      BY <1>2 DEF BInv, Births, Continues, RowTypes, Bookmark
    <2>4. \E b \in Nat : \A i \in DOMAIN t : t[i].created <= b
      <3>1. CASE \E i \in DOMAIN t : t[i].born = writes + 1
        <4>1. PICK i \in DOMAIN t : t[i].born = writes + 1
          BY <3>1
        <4>2. t[i].created \in Nat
          BY DEF Bookmark
        <4>3. \A j \in DOMAIN t : j = i \/ t[j].created <= c
          BY <2>1, <4>1 DEF Continues
        <4>4. \A j \in DOMAIN t : t[j].created \in Nat
          BY DEF Bookmark
        <4>5. c + t[i].created \in Nat /\ \A j \in DOMAIN t : t[j].created <= c + t[i].created
          BY <4>2, <4>3, <4>4
        <4> QED  BY <4>5
      <3>2. CASE ~\E i \in DOMAIN t : t[i].born = writes + 1
        BY <2>1, <3>2 DEF Continues
      <3> QED  BY <3>1, <3>2
    <2> QED  BY <1>1, <2>2, <2>3, <2>4 DEF Births
  <1>6. WalkTypes'
    <2>1. walk' \in [owner : User, tag : Value \cup {Anything},
                     boundary : {Start} \cup (Nat \X Nat), items : SUBSET Nat,
                     more : BOOLEAN, seen : SUBSET Nat, stay : SUBSET Nat]
      BY <1>1 DEF BInv, WalkTypes
    <2>2. \A x \in Shown' \cup walk'.stay : x <= writes'
      BY <1>1, <1>2, <1>3 DEF BInv, WalkTypes, Shown
    <2> QED  BY <1>3, <2>1, <2>2 DEF BInv, WalkTypes
  <1>7. WalkRepeatsNothing'
    BY <1>3 DEF BInv, WalkRepeatsNothing
  <1>8. ASSUME NEW i \in DOMAIN t, t[i].born <= writes PROVE Continues(t, i) /\ Key(i)' = Key(i)
    <2>1. Continues(t, i)
      BY <1>2, <1>8
    <2> QED  BY <1>1, <2>1 DEF Key, Continues
  <1>9. Behind'
    <2> SUFFICES ASSUME walk.more, NEW i \in DOMAIN t, t[i].born \in Shown
                 PROVE  ~Below(Key(i)', walk.boundary)
      BY <1>1, <1>3 DEF Behind, Below
    <2>1. t[i].born <= writes
      BY DEF BInv, WalkTypes
    <2> QED  BY <1>8, <2>1 DEF BInv, Behind, Continues
  <1>10. (\A x \in walk.stay : x \in Shown \/ Ahead(x))'
    <2> SUFFICES ASSUME NEW x \in walk.stay, x \in staying, x \notin Shown PROVE Ahead(x)'
      BY <1>3
    <2>1. PICK j \in DOMAIN rows : /\ rows[j].born = x
                                   /\ Matches(rows[j], walk.owner, walk.tag)
                                   /\ Below(Key(j), walk.boundary) /\ walk.more
      BY DEF BInv, Ahead
    <2>2. PICK i \in DOMAIN t : t[i].born = x /\ Matches(t[i], walk.owner, walk.tag)
      OBVIOUS
    <2>3. x <= writes
      BY DEF BInv, WalkTypes
    <2>4. Continues(t, i) /\ Key(i)' = Key(i)
      BY <1>8, <2>2, <2>3
    <2>5. i = j
      BY <2>1, <2>2, <2>4 DEF BInv, Births, Continues
    <2> QED  BY <1>1, <1>3, <2>1, <2>2, <2>4, <2>5 DEF Ahead, Below
  <1>11. HeldTypes'
    BY DEF BInv, HeldTypes
  <1>12. (\A r \in DOMAIN held : Remembered(held[r]))'
    <2> SUFFICES ASSUME NEW r \in DOMAIN held' PROVE Remembered(held[r])'
      OBVIOUS
    <2>1. /\ held'[r] = held[r] /\ Remembered(held[r])
          /\ held[r].born \in Nat /\ held[r].born <= writes
      BY DEF BInv, HeldTypes, Held, Remembered
    <2>2. ASSUME NEW i \in DOMAIN t, t[i].born = held[r].born
          PROVE  i = held[r].id /\ t[i].owner = held[r].owner /\ t[i].created = held[r].created
      BY <1>8, <2>1, <2>2 DEF Continues, Remembered
    <2> QED  BY <1>1, <1>2, <2>1, <2>2 DEF Remembered
  <1> QED  BY <1>2, <1>4, <1>5, <1>6, <1>7, <1>9, <1>10, <1>11, <1>12 DEF BInv

--------------------------------------------------------------------------------
(***************************************************************************)
(* What a step may do, and that every action does just that.               *)
(***************************************************************************)
\* A request that ends with this step, having read another bookmark under i than b:
\* that one was deleted and its identifier given to b meanwhile.
Replaced(i, b) ==
    \E r \in DOMAIN held \ DOMAIN held' : held[r].id = i /\ held[r].born # b.born

\* Whoever's bookmark a step changes, it marks a window of that user and of nobody else,
\* and the very window the bookmark is counted in unless its request had read another
\* under its identifier.
Marks ==
    \A i \in DOMAIN rows \cup DOMAIN rows' :
       \A b \in {t[i] : t \in {s \in {rows, rows'} : i \in DOMAIN s}} :
          (i \notin DOMAIN rows \/ i \notin DOMAIN rows' \/ rows[i] # rows'[i])
             => /\ {w[1] : w \in marked'} = {b.owner}
                /\ Replaced(i, b) \/ marked' = {WindowOf(b)}

Merges ==
    \A r \in DOMAIN held \ DOMAIN held', i \in DOMAIN rows \cap DOMAIN rows' :
       \A f \in Field :
          rows'[i].content[f] # rows[i].content[f] => rows'[i].content[f] # held[r][f]

Good == BInv' /\ Marks /\ Merges

\* A step that leaves the table alone marks and merges nothing.
LEMMA NothingWritten ==
    ASSUME BInv', rows' = rows
    PROVE  Good
  BY DEF Good, Marks, Merges

\* A write that changes one row only, and marks a window of its owner.
LEMMA OneRowWritten ==
    ASSUME NEW t, NEW i, NEW w, rows' = t, marked' = {w},
           \A j \in DOMAIN rows : (j \in DOMAIN t /\ t[j] = rows[j])
               \/ (j = i /\ rows[i].owner = w[1] /\ (Replaced(i, rows[i]) \/ WindowOf(rows[i]) = w)),
           \A j \in DOMAIN t : (j \in DOMAIN rows /\ t[j] = rows[j])
               \/ (j = i /\ t[i].owner = w[1] /\ (Replaced(i, t[i]) \/ WindowOf(t[i]) = w))
    PROVE  Marks
  <1>1. {v[1] : v \in marked'} = {w[1]}
    OBVIOUS
  <1> SUFFICES ASSUME NEW j \in DOMAIN rows \cup DOMAIN t, NEW q \in {rows, t}, j \in DOMAIN q,
                      j \notin DOMAIN rows \/ j \notin DOMAIN t \/ rows[j] # t[j]
               PROVE  q[j].owner = w[1] /\ (Replaced(j, q[j]) \/ WindowOf(q[j]) = w)
    BY <1>1 DEF Marks
  <1> QED  OBVIOUS

\* The request that writes knows its row's window, unless that was replaced.
LEMMA KnowsItsWindow ==
    ASSUME BInv, NEW r \in DOMAIN held, DOMAIN held \ DOMAIN held' = {r},
           held[r].id \in DOMAIN rows,
           NEW b, b.born = rows[held[r].id].born, b.owner = rows[held[r].id].owner,
           b.created = rows[held[r].id].created
    PROVE  Replaced(held[r].id, b) \/ WindowOf(b) = WindowOf(held[r])
  <1>1. CASE b.born = held[r].born
    BY <1>1 DEF BInv, Remembered, WindowOf
  <1>2. CASE b.born # held[r].born
    BY <1>2 DEF Replaced
  <1> QED  BY <1>1, <1>2

LEMMA NextIdIsNew ==
    ASSUME BInv
    PROVE  NextId \in Nat /\ NextId <= writes + 1 /\ NextId \notin DOMAIN rows
  <1>1. /\ DOMAIN rows \subseteq Nat /\ writes \in Nat
        /\ \A i \in DOMAIN rows : i <= writes
    BY DEF BInv, RowTypes, Births
  <1>2. CASE DOMAIN rows = {}
    BY <1>1, <1>2 DEF NextId
  <1>3. CASE DOMAIN rows # {}
    <2>1. Max(DOMAIN rows) \in DOMAIN rows /\ \A i \in DOMAIN rows : i <= Max(DOMAIN rows)
      BY <1>1, <1>3, MaxOfBounded
    <2>2. NextId = Max(DOMAIN rows) + 1
      BY <1>3 DEF NextId
    <2> QED  BY <1>1, <2>1, <2>2
  <1> QED  BY <1>2, <1>3

LEMMA WeekIsNatural == ASSUME NEW t \in Nat PROVE Week(t) \in Nat
  BY DEF Week

LEMMA CreateKeeps == ASSUME BInv, NEW u \in User, Create(u) PROVE Good
  <1>1. PICK now \in Time, content \in Content :
           Write(With(NextId, [owner |-> u, born |-> writes + 1, created |-> now,
                               updated |-> now, content |-> content]), <<u, Week(now)>>)
    BY DEF Create
  <1> DEFINE b == [owner |-> u, born |-> writes + 1, created |-> now,
                   updated |-> now, content |-> content]
             t == With(NextId, b)
  <1>2. now \in Nat /\ Week(now) \in Nat /\ held' = held /\ writes \in Nat
    BY WeekIsNatural DEF Create, BInv
  <1>3. /\ b \in Bookmark /\ b.updated >= b.created /\ b.born = writes + 1
        /\ b.owner = u /\ b.created = now
    BY <1>2 DEF Bookmark
  <1>4. Write(t, <<u, Week(now)>>)
    BY <1>1
  <1> HIDE DEF b
  <1>5. /\ DOMAIN t = DOMAIN rows \cup {NextId}
        /\ \A i \in DOMAIN rows : t[i] = rows[i]
        /\ t[NextId] = b
    BY NextIdIsNew DEF With
  <1>6. rows' = t /\ marked' = {<<u, Week(now)>>}
    BY <1>4 DEF Write
  <1> HIDE DEF t
  <1>7. BInv'
    <2>1. \A i \in DOMAIN t : i = NextId \/ (i \in DOMAIN rows /\ t[i] = rows[i])
      BY <1>5
    <2>2. DOMAIN t \subseteq Nat /\ \A i \in DOMAIN t : t[i] \in Bookmark /\ t[i].updated >= t[i].created
      BY <1>3, <1>5, <2>1, NextIdIsNew DEF BInv, RowTypes
    <2>3. \A i \in DOMAIN t : Continues(t, i) \/ (t[i].born = writes + 1 /\ i <= writes + 1)
      BY <1>3, <1>5, <2>1, NextIdIsNew DEF Continues
    <2>4. \A i \in DOMAIN rows : t[i].born # writes + 1
      BY <1>2, <1>5 DEF BInv, RowTypes, Births, Bookmark
    <2> QED  BY <1>2, <1>4, <2>1, <2>2, <2>3, <2>4, WriteKeeps
  <1>8. Marks
    <2> DEFINE w == <<u, Week(now)>>
    <2>1. w[1] = u /\ WindowOf(b) = w
      BY <1>3 DEF WindowOf
    <2>2. marked' = {w}
      BY <1>6
    <2> HIDE DEF w
    <2> QED  BY <1>3, <1>5, <1>6, <2>1, <2>2, OneRowWritten
  <1>9. Merges
    BY <1>2 DEF Merges
  <1> QED  BY <1>7, <1>8, <1>9 DEF Good

LEMMA Released ==
    ASSUME NEW r \in DOMAIN held, Release(r)
    PROVE  /\ DOMAIN held' \subseteq DOMAIN held /\ DOMAIN held \ DOMAIN held' = {r}
           /\ \A q \in DOMAIN held' : held'[q] = held[q]
  BY DEF Release

\* Only what the requests hold changes.
LEMMA HeldStepKeeps ==
    ASSUME BInv, UNCHANGED <<rows, marked, writes, walk>>, DOMAIN held' \subseteq Request,
           \A r \in DOMAIN held' :
              \/ r \in DOMAIN held /\ held'[r] = held[r]
              \/ held'[r] \in Held /\ Remembered(held'[r])
    PROVE  Good
  <1>1. HeldTypes' /\ (\A r \in DOMAIN held : Remembered(held[r]))'
    BY DEF BInv, HeldTypes, Remembered
  <1>2. BInv'
    BY <1>1 DEF BInv, RowTypes, Births, WalkTypes, Shown, WalkRepeatsNothing, Behind, Ahead, Key
  <1> QED  BY <1>2, NothingWritten

LEMMA HoldKeeps ==
    ASSUME BInv, NEW r \in Request, NEW h \in Held, Remembered(h), Hold(r, h),
           UNCHANGED <<rows, marked, writes, walk>>
    PROVE  Good
  <1>1. DOMAIN held' \subseteq Request
    BY DEF BInv, HeldTypes, Hold
  <1>2. \A q \in DOMAIN held' : (q \in DOMAIN held /\ held'[q] = held[q]) \/ held'[q] = h
    BY DEF Hold
  <1>3. \A q \in DOMAIN held' :
           \/ q \in DOMAIN held /\ held'[q] = held[q]
           \/ held'[q] \in Held /\ Remembered(held'[q])
    <2> SUFFICES ASSUME NEW q \in DOMAIN held', held'[q] = h
                 PROVE  held'[q] \in Held /\ Remembered(held'[q])
      BY <1>2
    <2> QED  BY DEF Remembered
  <1> QED  BY <1>1, <1>3, HeldStepKeeps

LEMMA ReadRowKeeps ==
    ASSUME BInv, NEW r \in Request, NEW u \in User, NEW i \in DOMAIN rows, ReadRow(r, u, i)
    PROVE  Good
  <1> DEFINE h == [at |-> "tags", owner |-> u, id |-> i, born |-> rows[i].born,
                   created |-> rows[i].created, updated |-> rows[i].updated,
                   text |-> rows[i].content.text, tags |-> NoTags]
  <1>1. /\ i \in Nat /\ rows[i].created \in Nat /\ rows[i].updated \in Nat
        /\ rows[i].born \in Nat /\ rows[i].owner = u
    BY DEF BInv, RowTypes, Bookmark, ReadRow, Owns
  <1>2. rows[i].content \in [Field -> Value]
    BY DEF BInv, RowTypes, Bookmark, Content
  <1>3. rows[i].content["text"] \in Value
    BY <1>2 DEF Field
  <1>4. h \in Held
    BY <1>1, <1>3 DEF Held
  <1>5. Hold(r, h) /\ UNCHANGED <<rows, marked, writes, walk>>
    BY DEF ReadRow
  <1>6. h.born = rows[i].born /\ h.id = i /\ h.owner = u /\ h.created = rows[i].created
    OBVIOUS
  <1> HIDE DEF h
  <1>7. Remembered(h)
    BY <1>1, <1>6 DEF BInv, Births, Remembered
  <1> QED  BY <1>4, <1>5, <1>7, HoldKeeps

LEMMA ReadTagsKeeps == ASSUME BInv, NEW r \in Request, ReadTags(r) PROVE Good
  <1> DEFINE h == held[r]
             found == IF Owns(h.owner, h.id) THEN rows[h.id].content.tags ELSE NoTags
             q == [h EXCEPT !.at = "write", !.tags = found]
  <1>1. r \in DOMAIN held /\ Hold(r, q)
    BY DEF ReadTags, Waiting
  <1>2. h \in Held
    BY <1>1 DEF BInv, HeldTypes
  <1>3. found \in Value \cup {NoTags}
    <2>1. CASE Owns(h.owner, h.id)
      <3>1. rows[h.id].content \in [Field -> Value]
        BY <2>1 DEF BInv, RowTypes, Bookmark, Content, Owns
      <3>2. rows[h.id].content["tags"] \in Value
        BY <3>1 DEF Field
      <3> QED  BY <2>1, <3>2
    <2>2. CASE ~Owns(h.owner, h.id)
      BY <2>2
    <2> QED  BY <2>1, <2>2
  <1>4. Remembered(h)
    BY <1>1 DEF BInv
  <1> HIDE DEF h, found
  <1>5. /\ q \in Held
        /\ q.born = h.born /\ q.id = h.id /\ q.owner = h.owner /\ q.created = h.created
    BY <1>2, <1>3 DEF Held
  <1> HIDE DEF q
  <1>6. Remembered(q)
    BY <1>4, <1>5 DEF Remembered
  <1> QED  BY <1>1, <1>5, <1>6, HoldKeeps DEF ReadTags

LEMMA EndUnwrittenKeeps == ASSUME BInv, NEW r \in Request, EndUnwritten(r) PROVE Good
  <1>1. DOMAIN held' \subseteq DOMAIN held /\ \A q \in DOMAIN held' : held'[q] = held[q]
    BY Released DEF EndUnwritten, Waiting
  <1> QED  BY <1>1, HeldStepKeeps DEF EndUnwritten, BInv, HeldTypes

\* The timestamp of an update is a reading of the clock or just after the last.
LEMMA UpdatedAtIsNatural ==
    ASSUME NEW h \in Held, NEW now \in Nat
    PROVE  UpdatedAt(h, now) \in Nat
  <1> DEFINE S == {now, h.updated + 1}
  <1>1. h.updated \in Nat
    BY DEF Held
  <1>2. S \subseteq Nat /\ S # {} /\ now + h.updated + 1 \in Nat
        /\ \A x \in S : x <= now + h.updated + 1
    BY <1>1
  <1> HIDE DEF S
  <1>3. Max(S) \in S
    BY <1>2, MaxOfBounded
  <1> QED  BY <1>2, <1>3 DEF UpdatedAt, S

LEMMA CommitPatchKeeps == ASSUME BInv, NEW r \in Request, CommitPatch(r) PROVE Good
  <1> DEFINE h == held[r]
  <1>1. /\ r \in DOMAIN held /\ h \in Held /\ Owns(h.owner, h.id)
    BY DEF CommitPatch, Waiting, BInv, HeldTypes
  <1>2. PICK patch \in Patch, now \in Time :
           /\ Admissible(Patched(h, patch, now))
           /\ Write(With(h.id, Patched(h, patch, now)), WindowOf(h))
    BY DEF CommitPatch
  <1> DEFINE b == Patched(h, patch, now)
             t == With(h.id, b)
             n == Week(h.created)
             old == rows[h.id]
  <1>3. /\ h.id \in DOMAIN rows /\ old.owner = h.owner /\ old \in Bookmark
        /\ h.owner \in User /\ n \in Nat
    BY <1>1, WeekIsNatural DEF Owns, BInv, RowTypes, Held
  <1>4. /\ b \in Bookmark /\ b.owner = old.owner /\ b.born = old.born /\ b.created = old.created
        /\ b.updated >= b.created
        /\ \A f \in Field : b.content[f] = old.content[f]
              \/ (f \in DOMAIN patch /\ b.content[f] = patch[f] /\ patch[f] # h[f])
    <2> DEFINE new == [f \in Field |-> IF f \in Changed(h, patch) THEN patch[f] ELSE old.content[f]]
               at == UpdatedAt(h, now)
    <2>1. at \in Nat
      BY <1>1, UpdatedAtIsNatural
    <2>2. b = [old EXCEPT !.updated = at, !.content = new]
      BY DEF Patched
    <2>3. old.content \in [Field -> Value] /\ \A f \in DOMAIN patch : patch[f] \in Value
      BY <1>3 DEF Bookmark, Content, Patch
    <2>4. \A f \in Changed(h, patch) : f \in DOMAIN patch /\ patch[f] # h[f]
      BY DEF Changed
    <2>5. new \in Content
      BY <2>3, <2>4 DEF Content
    <2>6. \A f \in Field : new[f] = old.content[f]
              \/ (f \in DOMAIN patch /\ new[f] = patch[f] /\ patch[f] # h[f])
      BY <2>4
    <2> HIDE DEF new, at, h
    <2>7. b \in Bookmark /\ b.owner = old.owner /\ b.born = old.born /\ b.created = old.created
          /\ b.content = new
      BY <1>3, <2>1, <2>2, <2>5 DEF Bookmark
    <2> QED  BY <1>2, <2>6, <2>7 DEF Admissible
  <1>5. Write(t, <<h.owner, n>>) /\ Release(r) /\ WindowOf(h) = <<h.owner, n>>
    BY <1>2 DEF CommitPatch, WindowOf
  <1> HIDE DEF b
  <1>6. /\ DOMAIN t = DOMAIN rows /\ t[h.id] = b
        /\ \A i \in DOMAIN rows : i # h.id => t[i] = rows[i]
    BY <1>3 DEF With
  <1>7. rows' = t /\ marked' = {<<h.owner, n>>}
    BY <1>5 DEF Write
  <1>8. /\ DOMAIN held' \subseteq DOMAIN held /\ DOMAIN held \ DOMAIN held' = {r}
        /\ \A q \in DOMAIN held' : held'[q] = held[q]
    BY <1>1, <1>5, Released
  <1> HIDE DEF t, n
  <1>9. BInv'
    <2>1. \A i \in DOMAIN t : Continues(t, i)
      BY <1>4, <1>6 DEF Continues
    <2>2. \A i \in DOMAIN t : t[i].born # writes + 1
      BY <2>1 DEF Continues, BInv, RowTypes, Births, Bookmark
    <2>3. DOMAIN t \subseteq Nat /\ \A i \in DOMAIN t : t[i] \in Bookmark /\ t[i].updated >= t[i].created
      BY <1>4, <1>6 DEF BInv, RowTypes
    <2> QED  BY <1>3, <1>5, <1>8, <2>1, <2>2, <2>3, WriteKeeps
  <1>10. Marks
    <2> DEFINE w == WindowOf(h)
    <2>1. w[1] = h.owner /\ marked' = {w}
      BY <1>5, <1>7
    <2>2. Replaced(h.id, old) \/ WindowOf(old) = w
      BY <1>1, <1>3, <1>8, KnowsItsWindow
    <2>3. Replaced(h.id, b) \/ WindowOf(b) = w
      BY <1>1, <1>3, <1>4, <1>8, KnowsItsWindow
    <2> HIDE DEF w
    <2> QED  BY <1>3, <1>4, <1>6, <1>7, <2>1, <2>2, <2>3, OneRowWritten
  <1>11. Merges
    <2> SUFFICES ASSUME NEW i \in DOMAIN rows, NEW f \in Field,
                        t[i].content[f] # rows[i].content[f]
                 PROVE  t[i].content[f] # h[f]
      BY <1>7, <1>8 DEF Merges
    <2>1. i = h.id
      BY <1>6
    <2> QED  BY <1>4, <1>6, <2>1
  <1> QED  BY <1>9, <1>10, <1>11 DEF Good

LEMMA CommitDeleteKeeps == ASSUME BInv, NEW r \in Request, CommitDelete(r) PROVE Good
  <1> DEFINE h == held[r]
             t == Without(h.id)
             n == Week(h.created)
  <1>1. /\ r \in DOMAIN held /\ h \in Held /\ Owns(h.owner, h.id)
        /\ Write(t, <<h.owner, n>>) /\ Release(r) /\ WindowOf(h) = <<h.owner, n>>
    BY DEF CommitDelete, Waiting, BInv, HeldTypes, WindowOf
  <1>2. h.owner \in User /\ n \in Nat
    BY <1>1, WeekIsNatural DEF Held
  <1>3. DOMAIN t = DOMAIN rows \ {h.id} /\ \A i \in DOMAIN t : t[i] = rows[i]
    BY DEF Without
  <1>4. rows' = t /\ marked' = {<<h.owner, n>>}
    BY <1>1 DEF Write
  <1>5. /\ DOMAIN held' \subseteq DOMAIN held /\ DOMAIN held \ DOMAIN held' = {r}
        /\ \A q \in DOMAIN held' : held'[q] = held[q]
    BY <1>1, Released
  <1> HIDE DEF t, n
  <1>6. BInv'
    <2>1. \A i \in DOMAIN t : Continues(t, i)
      BY <1>3 DEF Continues
    <2>2. \A i \in DOMAIN t : t[i].born # writes + 1
      BY <2>1 DEF Continues, BInv, RowTypes, Births, Bookmark
    <2>3. DOMAIN t \subseteq Nat /\ \A i \in DOMAIN t : t[i] \in Bookmark /\ t[i].updated >= t[i].created
      BY <1>3 DEF BInv, RowTypes
    <2> QED  BY <1>1, <1>2, <1>5, <2>1, <2>2, <2>3, WriteKeeps
  <1>7. Marks
    <2> DEFINE w == WindowOf(h)
    <2>1. w[1] = h.owner /\ marked' = {w}
      BY <1>1, <1>4
    <2>2. Replaced(h.id, rows[h.id]) \/ WindowOf(rows[h.id]) = w
      BY <1>1, <1>5, KnowsItsWindow DEF Owns
    <2> HIDE DEF w
    <2> QED  BY <1>1, <1>3, <1>4, <2>1, <2>2, OneRowWritten DEF Owns
  <1>8. Merges
    BY <1>3, <1>4 DEF Merges
  <1> QED  BY <1>6, <1>7, <1>8 DEF Good

LEMMA StepKeeps == ASSUME BInv, Next PROVE Good
  <1>1. ASSUME NEW u \in User, Create(u) PROVE Good
    BY <1>1, CreateKeeps
  <1>2. ASSUME NEW r \in Request, RequestStep(r) PROVE Good
    BY <1>2, ReadRowKeeps, ReadTagsKeeps, CommitPatchKeeps, CommitDeleteKeeps,
       EndUnwrittenKeeps DEF RequestStep
  <1>3. ASSUME NEW u \in User, NEW tag \in Value \cup {Anything}, StartWalk(u, tag) PROVE Good
    <2>1. rows' = rows /\ held' = held
      BY <1>3 DEF StartWalk, Serve
    <2> QED  BY <1>3, <2>1, StartWalkKeeps, NothingWritten
  <1>4. CASE FollowCursor
    <2>1. rows' = rows /\ held' = held
      BY <1>4 DEF FollowCursor, Serve
    <2> QED  BY <1>4, <2>1, FollowCursorKeeps, NothingWritten
  <1> QED  BY <1>1, <1>2, <1>3, <1>4 DEF Next

LEMMA StutterKeeps == ASSUME BInv, UNCHANGED vars PROVE Good
  <1>1. BInv'
    BY DEF vars, BInv, RowTypes, Births, HeldTypes, Remembered, WalkTypes, Shown,
           WalkRepeatsNothing, Behind, Ahead, Key
  <1> QED  BY <1>1, NothingWritten DEF vars

LEMMA InitHolds == ASSUME Init PROVE BInv
  <1>1. DOMAIN rows = {} /\ DOMAIN held = {} /\ marked = {} /\ writes = 0
    BY DEF Init
  <1>2. PICK u \in User :
          walk = [owner |-> u, tag |-> Anything, boundary |-> Start, items |-> {},
                  more |-> FALSE, seen |-> {}, stay |-> {}]
    BY DEF Init
  <1>3. RowTypes /\ HeldTypes
    BY <1>1 DEF RowTypes, HeldTypes
  <1>4. Births
    <2>1. \A i \in DOMAIN rows : rows[i].created <= 0
      BY <1>1
    <2> QED  BY <1>1, <2>1 DEF Births
  <1>5. WalkTypes /\ WalkRepeatsNothing /\ Behind
    BY <1>2 DEF WalkTypes, Shown, WalkRepeatsNothing, Behind
  <1> QED  BY <1>1, <1>2, <1>3, <1>4, <1>5 DEF BInv

LEMMA Invariance == Spec => []BInv
  <1>1. BInv /\ [Next]_vars => BInv'
    BY StepKeeps, StutterKeeps DEF Good
  <1> QED  BY InitHolds, <1>1, PTL DEF Spec

--------------------------------------------------------------------------------
(***************************************************************************)
(* Requests that do not overlap.                                           *)
(***************************************************************************)
OneAtATime == \A q, r \in Request : q = r

\* The request under way knows its bookmark as it is.
UpToDate ==
    \A r \in DOMAIN held :
       /\ held[r].id \in DOMAIN rows
       /\ rows[held[r].id].born = held[r].born
       /\ rows[held[r].id].updated = held[r].updated

Advances ==
    \A i \in DOMAIN rows \cap DOMAIN rows' :
       rows[i] # rows'[i] => rows'[i].updated > rows[i].updated

\* None is replaced before it is written to.
Found ==
    \A i \in DOMAIN rows \cup DOMAIN rows' :
       \A b \in {t[i] : t \in {s \in {rows, rows'} : i \in DOMAIN s}} :
          (i \notin DOMAIN rows \/ i \notin DOMAIN rows' \/ rows[i] # rows'[i])
             => ~Replaced(i, b)

Serial == UpToDate' /\ Advances /\ Found

LEMMA UpdatedAtAdvances ==
    ASSUME NEW h \in Held, NEW now \in Nat
    PROVE  UpdatedAt(h, now) > h.updated
  <1> DEFINE S == {now, h.updated + 1}
  <1>1. h.updated \in Nat
    BY DEF Held
  <1>2. S \subseteq Nat /\ S # {} /\ now + h.updated + 1 \in Nat
        /\ \A x \in S : x <= now + h.updated + 1
    BY <1>1
  <1>3. h.updated + 1 \in S
    OBVIOUS
  <1> HIDE DEF S
  <1>4. Max(S) \in Nat /\ Max(S) >= h.updated + 1
    BY <1>2, <1>3, MaxOfBounded
  <1> QED  BY <1>1, <1>4 DEF UpdatedAt, S

\* Nothing is written: what a request has just read is up to date.
LEMMA ReadsAreSerial ==
    ASSUME UpToDate, rows' = rows,
           \A r \in DOMAIN held' :
              \/ /\ r \in DOMAIN held /\ held'[r].id = held[r].id
                 /\ held'[r].born = held[r].born /\ held'[r].updated = held[r].updated
              \/ /\ held'[r].id \in DOMAIN rows
                 /\ rows[held'[r].id].born = held'[r].born
                 /\ rows[held'[r].id].updated = held'[r].updated
    PROVE  Serial
  BY DEF UpToDate, Serial, Advances, Found

LEMMA CreateIsSerial ==
    ASSUME BInv, UpToDate, NEW u \in User, Create(u)
    PROVE  Serial
  <1>1. PICK b : rows' = With(NextId, b)
    BY DEF Create, Write
  <1>2. held' = held /\ NextId \notin DOMAIN rows
    BY NextIdIsNew DEF Create
  <1>3. DOMAIN rows' = DOMAIN rows \cup {NextId} /\ \A i \in DOMAIN rows : rows'[i] = rows[i]
    BY <1>1, <1>2 DEF With
  <1> QED  BY <1>2, <1>3 DEF UpToDate, Serial, Advances, Found, Replaced

\* A write by the only request there is.
LEMMA OnlyWriter ==
    ASSUME BInv, OneAtATime, UpToDate, NEW r \in DOMAIN held, Release(r),
           \A i \in DOMAIN rows : i # held[r].id => i \in DOMAIN rows' /\ rows'[i] = rows[i],
           \A i \in DOMAIN rows' : i \in DOMAIN rows /\ rows'[i].born = rows[i].born,
           held[r].id \in DOMAIN rows' =>
              rows'[held[r].id].updated > rows[held[r].id].updated
    PROVE  Serial
  <1>1. \A q \in DOMAIN held : q = r
    BY DEF BInv, HeldTypes, OneAtATime
  <1>2. DOMAIN held' = {}
    BY <1>1 DEF Release
  <1>3. UpToDate'
    BY <1>2 DEF UpToDate
  <1>4. Advances
    BY DEF Advances
  <1>5. Found
    <2> SUFFICES ASSUME NEW i \in DOMAIN rows, held[r].id = i,
                        NEW b, b.born = rows[i].born
                 PROVE  b.born = held[r].born
      BY <1>1 DEF Found, Replaced
    <2> QED  BY DEF UpToDate
  <1> QED  BY <1>3, <1>4, <1>5 DEF Serial

LEMMA CommitPatchIsSerial ==
    ASSUME BInv, OneAtATime, UpToDate, NEW r \in Request, CommitPatch(r)
    PROVE  Serial
  <1> DEFINE h == held[r]
  <1>1. /\ r \in DOMAIN held /\ h \in Held /\ h.id \in DOMAIN rows /\ Release(r)
    BY DEF CommitPatch, Waiting, BInv, HeldTypes, Owns
  <1>2. PICK patch \in Patch, now \in Time : rows' = With(h.id, Patched(h, patch, now))
    BY DEF CommitPatch, Write
  <1>3. now \in Nat /\ rows[h.id] \in Bookmark
    BY <1>1 DEF BInv, RowTypes
  <1> DEFINE b == Patched(h, patch, now)
  <1>4. b.updated = UpdatedAt(h, now) /\ b.born = rows[h.id].born
    BY <1>3 DEF Patched, Bookmark
  <1>5. b.updated > rows[h.id].updated
    BY <1>1, <1>3, <1>4, UpdatedAtAdvances DEF UpToDate
  <1> HIDE DEF b
  <1>6. /\ DOMAIN rows' = DOMAIN rows /\ rows'[h.id] = b
        /\ \A i \in DOMAIN rows : i # h.id => rows'[i] = rows[i]
    BY <1>1, <1>2 DEF With, b
  <1> QED  BY <1>1, <1>4, <1>5, <1>6, OnlyWriter

LEMMA CommitDeleteIsSerial ==
    ASSUME BInv, OneAtATime, UpToDate, NEW r \in Request, CommitDelete(r)
    PROVE  Serial
  <1>1. r \in DOMAIN held /\ Release(r) /\ rows' = Without(held[r].id)
    BY DEF CommitDelete, Waiting, Write
  <1> QED  BY <1>1, OnlyWriter DEF Without

LEMMA StepIsSerial ==
    ASSUME BInv, OneAtATime, UpToDate, [Next]_vars
    PROVE  Serial
  <1>1. ASSUME NEW u \in User, Create(u) PROVE Serial
    BY <1>1, CreateIsSerial
  <1>2. ASSUME NEW r \in Request, NEW u \in User, NEW i \in DOMAIN rows, ReadRow(r, u, i)
        PROVE  Serial
    BY <1>2, ReadsAreSerial DEF ReadRow, Hold
  <1>3. ASSUME NEW r \in Request, ReadTags(r) PROVE Serial
    <2>1. r \in DOMAIN held /\ held[r] \in Held
      BY <1>3 DEF ReadTags, Waiting, BInv, HeldTypes
    <2>2. /\ rows' = rows /\ DOMAIN held' = DOMAIN held
          /\ \A q \in DOMAIN held : q # r => held'[q] = held[q]
          /\ held'[r].id = held[r].id /\ held'[r].born = held[r].born
          /\ held'[r].updated = held[r].updated
      BY <1>3, <2>1 DEF ReadTags, Hold, Held
    <2> QED  BY <2>2, ReadsAreSerial
  <1>4. ASSUME NEW r \in Request, EndUnwritten(r) PROVE Serial
    BY <1>4, ReadsAreSerial DEF EndUnwritten, Release
  <1>5. ASSUME NEW u, NEW tag, StartWalk(u, tag) PROVE Serial
    BY <1>5, ReadsAreSerial DEF StartWalk, Serve
  <1>6. CASE FollowCursor
    BY <1>6, ReadsAreSerial DEF FollowCursor, Serve
  <1>7. CASE UNCHANGED vars
    BY <1>7, ReadsAreSerial DEF vars
  <1> QED
    BY <1>1, <1>2, <1>3, <1>4, <1>5, <1>6, <1>7, CommitPatchIsSerial, CommitDeleteIsSerial
    DEF Next, RequestStep

--------------------------------------------------------------------------------
(***************************************************************************)
(* Theorems.                                                               *)
(***************************************************************************)

\* The table's constraints hold of every row, and a patch computed from a bookmark that
\* another with its identifier has replaced breaks none.
THEOREM TypeCorrect == Spec => []TypeOK
  <1>1. BInv => TypeOK
    BY DEF BInv, RowTypes, HeldTypes, WalkTypes, TypeOK
  <1> QED  BY <1>1, Invariance, PTL

\* Whatever is created, edited or deleted between its pages, and whichever identifiers
\* are used again, a cursor walk shows no bookmark twice.
THEOREM NothingTwice == Spec => []WalkRepeatsNothing
  <1>1. BInv => WalkRepeatsNothing
    BY DEF BInv
  <1> QED  BY <1>1, Invariance, PTL

\* A walk that has ended has shown every bookmark that was there all along.
THEOREM NothingLeftOut == Spec => []WalkSkipsNothing
  <1>1. BInv => WalkSkipsNothing
    BY DEF BInv, WalkSkipsNothing, Ahead, Shown
  <1> QED  BY <1>1, Invariance, PTL

\* What ChangesMarkTheirWindow asks, as far as the code keeps it: a request marks a window
\* of the user whose bookmark it changes, and a wrong week only when that bookmark was given
\* the identifier of the one it had read, deleted meanwhile.  It never changes anybody
\* else's bookmark, replaced or not.
THEOREM WindowsAreMarked == Spec => [][Marks]_vars
  <1>1. BInv /\ [Next]_vars => [Marks]_vars
    BY StepKeeps DEF Good
  <1> QED
    BY <1>1, Invariance, PTL DEF Spec

\* A patch never takes back what another made of a field it does not change.
THEOREM PatchesDoMerge == Spec => PatchesMerge
  <1>1. BInv /\ [Next]_vars => [Merges]_vars
    BY StepKeeps DEF Good
  <1> QED
    BY <1>1, Invariance, PTL DEF Spec, PatchesMerge, Merges

\* The step that ChangesMarkTheirWindow asks for.
MarksExactly ==
    \A i \in DOMAIN rows \cup DOMAIN rows' :
       \A b \in {t[i] : t \in {s \in {rows, rows'} : i \in DOMAIN s}} :
          (i \notin DOMAIN rows \/ i \notin DOMAIN rows' \/ rows[i] # rows'[i])
             => marked' = {WindowOf(b)}

\* Of PATCHes and DELETEs that do not overlap each marks the window its bookmark is counted
\* in, without exception: no identifier is given twice without a delete, so creates may
\* come in between.
THEOREM SerialWindowsAreMarked == OneAtATime => (Spec => ChangesMarkTheirWindow)
  <1> SUFFICES ASSUME OneAtATime PROVE Spec => ChangesMarkTheirWindow
    OBVIOUS
  <1>1. Init => UpToDate
    BY DEF Init, UpToDate
  <1>2. Marks /\ Found => MarksExactly
    BY DEF Marks, Found, MarksExactly
  <1>3. BInv /\ UpToDate /\ [Next]_vars => UpToDate' /\ [MarksExactly]_vars
    BY <1>2, StepIsSerial, StepKeeps DEF Serial, Good
  <1> QED
    BY <1>1, <1>3, Invariance, PTL DEF Spec, ChangesMarkTheirWindow, MarksExactly

\* next_updated_at keeps its promise for requests that do not overlap: updated_at advances
\* whatever the clock reads.  It takes a second request under way to break it.
THEOREM SerialUpdatesAdvance == OneAtATime => (Spec => UpdatesAdvance)
  <1> SUFFICES ASSUME OneAtATime PROVE Spec => UpdatesAdvance
    OBVIOUS
  <1>1. Init => UpToDate
    BY DEF Init, UpToDate
  <1>2. BInv /\ UpToDate /\ [Next]_vars => UpToDate' /\ [Advances]_vars
    BY StepIsSerial DEF Serial
  <1> QED
    BY <1>1, <1>2, Invariance, PTL DEF Spec, UpdatesAdvance, Advances

================================================================================
