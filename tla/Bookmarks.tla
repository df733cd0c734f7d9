------------------------------- MODULE Bookmarks -------------------------------
(***************************************************************************)
(* Bookmark requests on one SQLite database.  A PATCH or DELETE reads its  *)
(* bookmark in autocommit, row and tags by separate statements, and writes *)
(* in a transaction that begins with its first write: from there on it     *)
(* holds SQLite's only write lock, so the transaction is one step.  One    *)
(* client walks its bookmarks with cursors meanwhile.                      *)
(*                                                                         *)
(* The clock is whatever it is read to be: repeated and backward readings  *)
(* are possible.                                                           *)
(***************************************************************************)
EXTENDS Integers, FiniteSets, FiniteSetsExt

CONSTANTS
    User,
    Request,        \* request handlers that can be under way at once
    Value,          \* contents of a field
    Time,           \* readings of the clock
    WeekLength,     \* of them in one UTC week
    PageSize,
    MaxWrites       \* bound: committed writes

Field == {"text", "tags"}       \* "text": url, title and description
NoTags == "none"                \* what the second statement finds of a deleted row
Anything == "any"               \* a walk without a tag filter
Start == <<>>                   \* a walk without a cursor

ASSUME ValueAssumption == NoTags \notin Value /\ Anything \notin Value
ASSUME TimeAssumption == Time \subseteq Nat /\ Time # {} /\ WeekLength \in Nat \ {0}
ASSUME PageSizeAssumption == PageSize \in Nat \ {0}
ASSUME BoundAssumption == MaxWrites \in Nat

VARIABLES
    rows,           \* table bookmarks with its links: id -> bookmark
    marked,         \* the windows the last write marked dirty
    writes,         \* number of committed writes
    held,           \* what the requests under way have read: request -> record
    walk            \* the client's cursor walk

vars == <<rows, marked, writes, held, walk>>

Week(t) == t \div WeekLength
Content == [Field -> Value]
Patch == UNION {[F -> Value] : F \in SUBSET Field \ {{}}}

Bookmark == [owner : User, born : Nat, created : Nat, updated : Nat, content : Content]
Held == [at : {"tags", "write"}, owner : User, id : Nat, born : Nat, created : Nat,
         updated : Nat, text : Value, tags : Value \cup {NoTags}]

--------------------------------------------------------------------------------
(***************************************************************************)
(* The table.                                                              *)
(***************************************************************************)

\* INTEGER PRIMARY KEY without AUTOINCREMENT: an identifier is used again once
\* the newest row is gone.
NextId == IF DOMAIN rows = {} THEN 1 ELSE Max(DOMAIN rows) + 1

\* Wrong on purpose: the owner is left out of the WHERE clause.
Exists(u, i) == u \in User /\ i \in DOMAIN rows

Owns(u, i) == i \in DOMAIN rows /\ rows[i].owner = u

With(i, b) == [j \in DOMAIN rows \cup {i} |-> IF j = i THEN b ELSE rows[j]]
Without(i) == [j \in DOMAIN rows \ {i} |-> rows[j]]

Admissible(b) == b.updated >= b.created      \* the table's CHECK constraint

Matches(b, u, tag) == b.owner = u /\ tag \in {Anything, b.content.tags}

\* A transaction that replaces the table by t and marks a window.  A bookmark
\* stays in the client's walk as long as it exists and matches its filter.
Write(t, window) ==
    /\ writes < MaxWrites
    /\ writes' = writes + 1
    /\ rows' = t
    /\ marked' = {window}
    /\ walk' = [walk EXCEPT !.stay =
                   @ \cap {t[i].born : i \in {j \in DOMAIN t : Matches(t[j], walk.owner, walk.tag)}}]

--------------------------------------------------------------------------------
(***************************************************************************)
(* create.                                                                 *)
(***************************************************************************)

Create(u) ==
    /\ \E now \in Time, content \in Content :
          Write(With(NextId, [owner |-> u, born |-> writes + 1, created |-> now,
                              updated |-> now, content |-> content]),
                <<u, Week(now)>>)
    /\ UNCHANGED held

(***************************************************************************)
(* patch and delete.  They read alike, so which of the two a request is,   *)
(* and what it patches, is chosen where it first matters.  A read that     *)
(* finds nothing of the user's ends the request (NotFoundError).           *)
(***************************************************************************)

Hold(r, h) == held' = [q \in DOMAIN held \cup {r} |-> IF q = r THEN h ELSE held[q]]
Release(r) == held' = [q \in DOMAIN held \ {r} |-> held[q]]
Waiting(r, at) == r \in DOMAIN held /\ held[r].at = at

ReadRow(r, u, i) ==
    /\ r \notin DOMAIN held
    /\ Owns(u, i)
    /\ Hold(r, [at |-> "tags", owner |-> u, id |-> i, born |-> rows[i].born,
                created |-> rows[i].created, updated |-> rows[i].updated,
                text |-> rows[i].content.text, tags |-> NoTags])
    /\ UNCHANGED <<rows, marked, writes, walk>>

ReadTags(r) ==
    /\ Waiting(r, "tags")
    /\ LET h == held[r]
           found == IF Owns(h.owner, h.id) THEN rows[h.id].content.tags ELSE NoTags
       IN  Hold(r, [h EXCEPT !.at = "write", !.tags = found])
    /\ UNCHANGED <<rows, marked, writes, walk>>

\* Wrong on purpose: every field a patch mentions is written.
Mentioned(h, patch) == DOMAIN patch

\* classify_patch: the fields a patch sets to something else than was read.
Changed(h, patch) == {f \in DOMAIN patch : patch[f] # h[f]}

\* The window a bookmark is counted in, of the bookmark that was read.
WindowOf(h) == <<h.owner, Week(h.created)>>

UpdatedAt(h, now) == Max({now, h.updated + 1})

\* Only the changed fields are written, to whatever the row is by now.
Patched(h, patch, now) ==
    [rows[h.id] EXCEPT
        !.updated = UpdatedAt(h, now),
        !.content = [f \in Field |-> IF f \in Changed(h, patch) THEN patch[f] ELSE @[f]]]

CommitPatch(r) ==
    /\ Waiting(r, "write")
    /\ LET h == held[r]
       IN  /\ Owns(h.owner, h.id)
           /\ \E patch \in Patch, now \in Time :
                 /\ Changed(h, patch) # {}
                 /\ Admissible(Patched(h, patch, now))
                 /\ Write(With(h.id, Patched(h, patch, now)), WindowOf(h))
    /\ Release(r)

CommitDelete(r) ==
    /\ Waiting(r, "write")
    /\ LET h == held[r]
       IN  /\ Owns(h.owner, h.id)
           /\ Write(Without(h.id), WindowOf(h))
    /\ Release(r)

\* Nothing changes, nothing is found any more, or something raises: a rollback.
EndUnwritten(r) ==
    /\ Waiting(r, "write")
    /\ Release(r)
    /\ UNCHANGED <<rows, marked, writes, walk>>

--------------------------------------------------------------------------------
(***************************************************************************)
(* The cursor walk: each page is read from one snapshot.                   *)
(***************************************************************************)

Key(i) == <<rows[i].created, i>>

\* Strictly after the boundary in descending (created_at, id) order.
Below(k, boundary) ==
    \/ boundary = Start
    \/ k[1] < boundary[1]
    \/ k[1] = boundary[1] /\ k[2] < boundary[2]

\* Wrong on purpose: rows as old as the boundary come again.
MatchingAgain(u, tag, boundary) ==
    {i \in DOMAIN rows : Matches(rows[i], u, tag)
                           /\ (boundary = Start \/ Key(i)[1] <= boundary[1])}

Matching(u, tag, boundary) ==
    {i \in DOMAIN rows : Matches(rows[i], u, tag) /\ Below(Key(i), boundary)}

\* The first PageSize of them.
Page(M) == {i \in M : Cardinality({j \in M : Below(Key(i), Key(j))}) < PageSize}

\* Wrong on purpose: a last page of one row more is not announced.
HasMuchMore(M) == Cardinality(M) > PageSize + 1

\* One more row than the page holds was asked for.
HasMore(M) == Cardinality(M) > PageSize

\* Wrong on purpose: the cursor carries no identifier.
LastTime(P) == <<CHOOSE t \in {rows[i].created : i \in P} : \A j \in P : t <= rows[j].created>>

LastKey(P) == CHOOSE k \in {Key(i) : i \in P} : \A j \in P : k = Key(j) \/ Below(k, Key(j))

Serve(u, tag, boundary, seen, stay) ==
    /\ LET M == Matching(u, tag, boundary)
       IN  walk' = [owner |-> u, tag |-> tag,
                    boundary |-> IF HasMore(M) THEN LastKey(Page(M)) ELSE boundary,
                    items |-> {rows[i].born : i \in Page(M)}, more |-> HasMore(M),
                    seen |-> seen, stay |-> stay]
    /\ UNCHANGED <<rows, marked, writes, held>>

StartWalk(u, tag) ==
    Serve(u, tag, Start, {}, {rows[i].born : i \in Matching(u, tag, Start)})

\* An expired cursor is refused; the client may start again.
FollowCursor ==
    /\ walk.more
    /\ Serve(walk.owner, walk.tag, walk.boundary, walk.seen \cup walk.items, walk.stay)

--------------------------------------------------------------------------------
Init ==
    /\ rows = [i \in {} |-> NoTags]
    /\ marked = {}
    /\ writes = 0
    /\ held = [r \in {} |-> NoTags]
    /\ \E u \in User :
          walk = [owner |-> u, tag |-> Anything, boundary |-> Start, items |-> {},
                  more |-> FALSE, seen |-> {}, stay |-> {}]

RequestStep(r) ==
    \/ \E u \in User, i \in DOMAIN rows : ReadRow(r, u, i)
    \/ ReadTags(r)
    \/ CommitPatch(r)
    \/ CommitDelete(r)
    \/ EndUnwritten(r)

Next ==
    \/ \E u \in User : Create(u)
    \/ \E r \in Request : RequestStep(r)
    \/ \E u \in User, tag \in Value \cup {Anything} : StartWalk(u, tag)
    \/ FollowCursor

Spec == Init /\ [][Next]_vars

--------------------------------------------------------------------------------
(***************************************************************************)
(* Properties.                                                             *)
(***************************************************************************)

\* Every row is one the table's constraints admit.  A patch computed from a
\* bookmark that another with its identifier has replaced must not break them.
TypeOK ==
    /\ DOMAIN rows \subseteq Nat
    /\ \A i \in DOMAIN rows : rows[i] \in Bookmark /\ rows[i].updated >= rows[i].created
    /\ marked \subseteq User \X Nat
    /\ writes \in 0..MaxWrites
    /\ DOMAIN held \subseteq Request /\ \A r \in DOMAIN held : held[r] \in Held
    /\ walk \in [owner : User, tag : Value \cup {Anything}, boundary : {Start} \cup (Nat \X Nat),
                 items : SUBSET Nat, more : BOOLEAN, seen : SUBSET Nat, stay : SUBSET Nat]

\* A cursor walk shows nothing twice, whatever is created, deleted or edited
\* between its pages (search_owned_after).
WalkRepeatsNothing == walk.items \cap walk.seen = {}

\* A bookmark that was there when the walk began, and has matched ever since,
\* has been shown when the walk ends.
WalkSkipsNothing == ~walk.more => walk.stay \subseteq walk.seen \cup walk.items

\* ADR-005: "Every stats-affecting mutation must identify and mark the correct original
\* window."  Whatever step creates, changes or removes a bookmark marks the window it is
\* counted in, although the identifier that PATCH and DELETE write to, and the week they
\* mark, were read before their transaction.
ChangesMarkTheirWindow ==
    [][\A i \in DOMAIN rows \cup DOMAIN rows' :
          \A b \in {t[i] : t \in {s \in {rows, rows'} : i \in DOMAIN s}} :
             (i \notin DOMAIN rows \/ i \notin DOMAIN rows' \/ rows[i] # rows'[i])
                => marked' = {WindowOf(b)}]_vars

\* A PATCH never takes back what a concurrent one did: what its step changes
\* is not what it had read, so a field it does not mean to change keeps the
\* other's value although the patch was computed from an earlier read.
PatchesMerge ==
    [][\A r \in DOMAIN held \ DOMAIN held', i \in DOMAIN rows \cap DOMAIN rows' :
          \A f \in Field :
             rows'[i].content[f] # rows[i].content[f] => rows'[i].content[f] # held[r][f]]_vars

\* next_updated_at: "Advance an update timestamp monotonically, even for
\* repeated/backward clocks."
UpdatesAdvance ==
    [][\A i \in DOMAIN rows \cap DOMAIN rows' :
          rows[i] # rows'[i] => rows'[i].updated > rows[i].updated]_vars

================================================================================
