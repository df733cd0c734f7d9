----------------------------- MODULE WeeklyProjection -----------------------------
(***************************************************************************)
(* The weekly projection: for every user and UTC week a developing row     *)
(* while the week is open, and an append-only history of developed points  *)
(* once it is over.  The worker thread first runs the restartable baseline *)
(* over the bookmarks that survive, then consumes dirty markers and        *)
(* finalises overdue rows, one transaction each, while requests go on      *)
(* changing bookmarks and the clock goes on.                               *)
(*                                                                         *)
(* A window is known by its week number, which is also what the clock      *)
(* reads during it.  What a window's bookmarks aggregate to is a payload.  *)
(***************************************************************************)
EXTENDS DirtyMarkers, Sequences

CONSTANTS
    Payload,        \* aggregates a window may have; Empty is that of no bookmark
    Version,        \* calculation versions TOP_TAGS_LIMIT may configure
    MaxChanges,     \* bound: mutations and seeds
    MaxFaults       \* bound: exceptions and restarts

Empty == 0
NoRow == -1         \* no working row
NoVersion == 0      \* no state row

ASSUME PayloadAssumption == Empty \in Payload /\ Payload \subseteq Nat
ASSUME VersionAssumption == Version # {} /\ Version \subseteq Nat \ {NoVersion}
ASSUME BoundAssumption == MaxChanges \in Nat /\ MaxFaults \in Nat

VARIABLES
    now,            \* the clock
    content,        \* content[k], what the surviving bookmarks of k aggregate to
    runtime,        \* calculation version of the running process
    status,         \* bookmark_stats_projection_state: "absent", "running", "active",
    version,        \* its calculation version
    checkpoint,     \* and its exclusive cursor
    working,        \* bookmark_stats_window_working: the payload of k's row
    points,         \* bookmark_stats_window_point: the payloads of k's revisions
    pc,             \* where the projection phase is
    at,             \* the clock as the current transaction read it
    candidates,     \* the baseline's page
    more,           \* has_more
    observed,       \* observed[k], the generation of k's marker to process (0: none)
    overdue,        \* observed overdue rows not yet processed
    item,           \* the marker or row being processed
    missed,         \* history: windows that changed last without being marked
    changes, faults

requestVars == <<now, content, missed, changes>>
stateVars == <<status, version, checkpoint>>
rowVars == <<working, points>>
baselineVars == <<candidates, more>>
pageVars == <<observed, overdue>>
processVars == <<runtime, faults>>

vars == <<marker, requestVars, stateVars, rowVars, pc, at, baselineVars, pageVars,
          item, processVars>>

--------------------------------------------------------------------------------
(***************************************************************************)
(* States.                                                                 *)
(***************************************************************************)

Start == <<0, 0>>       \* the cursor before the first page: users are positive
NoItem == Start

TypeOK ==
    /\ MarkerTypeOK
    /\ now \in Window
    /\ content \in [Key -> Payload]
    /\ runtime \in Version
    /\ status \in {"absent", "running", "active"}
    /\ version \in Version \cup {NoVersion}
    /\ checkpoint \in Key \cup {Start}
    /\ working \in [Key -> Payload \cup {NoRow}]
    /\ points \in [Key -> Seq(Payload)]
    /\ pc \in {"idle", "baseline", "persist", "observe", "process", "apply", "finalize"}
    /\ at \in Window
    /\ candidates \in SUBSET Key
    /\ more \in BOOLEAN
    /\ observed \in [Key -> Nat]
    /\ overdue \in SUBSET Key
    /\ item \in Key \cup {NoItem}
    /\ missed \in SUBSET Key
    /\ changes \in Nat
    /\ faults \in Nat

\* Bookmarks may have been there before the projection was installed.
Init ==
    /\ NoMarkers
    /\ now \in Window
    /\ content \in [Key -> Payload]
    /\ \A k \in Key : content[k] # Empty => k[2] <= now
    /\ runtime \in Version
    /\ status = "absent" /\ version = NoVersion /\ checkpoint = Start
    /\ working = [k \in Key |-> NoRow]
    /\ points = [k \in Key |-> << >>]
    /\ pc = "idle" /\ at = now
    /\ candidates = {} /\ more = FALSE
    /\ observed = [k \in Key |-> 0] /\ overdue = {}
    /\ item = NoItem
    /\ missed = {}
    /\ changes = 0 /\ faults = 0

\* window.end <= now
Closed(k, t) == k[2] < t

\* SQL's order of the pairs (user_id, window_start).
Before(j, k) == j[1] < k[1] \/ (j[1] = k[1] /\ j[2] < k[2])

--------------------------------------------------------------------------------
(***************************************************************************)
(* Requests and the clock.                                                 *)
(***************************************************************************)

\* A transaction leaves the windows that f is about with other bookmarks, and marks those
\* in W.
Change(f, W) ==
    /\ changes < MaxChanges
    /\ content' = [k \in Key |-> IF k \in DOMAIN f THEN f[k] ELSE content[k]]
    /\ missed' = (missed \cup {k \in DOMAIN f : f[k] # content[k]}) \ W
    /\ changes' = changes + 1
    /\ UNCHANGED <<now, stateVars, rowVars, pc, at, baselineVars, pageVars, item,
                   processVars>>

\* A request creates, edits or deletes a bookmark of k and marks k in the same
\* transaction.  A create belongs to the week its request read from the clock, which
\* may be over when it commits.
Mutate(k, p, t) ==
    /\ \/ content[k] # Empty
       \/ p # Empty /\ k[2] \in {now, now - 1}
    /\ Change([j \in {k} |-> p], {k})
    /\ MarkDirty(k, t)

\* A PATCH or DELETE marks the week of the bookmark it had read, which was one of j, and
\* changes the one its user has under the identifier by now, which is one of k.
MutateReplaced(k, j, p, t) ==
    /\ j[1] = k[1] /\ j # k /\ j[2] <= now
    /\ content[k] # Empty
    /\ Change([i \in {k} |-> p], {j})
    /\ MarkDirty(j, t)

\* The seed command, a process of its own, adds bookmarks of past weeks to its user in
\* one transaction, and marks none of them.
Seed(u, f) ==
    /\ \A k \in DOMAIN f : k[1] = u /\ k[2] <= now /\ f[k] # content[k]
    /\ Change(f, {})
    /\ UNCHANGED marker

\* Weeks pass, one or several at a time.
ClockAdvances ==
    /\ now' \in {w \in Window : w > now}
    /\ UNCHANGED <<marker, content, missed, changes, stateVars, rowVars, pc, at,
                   baselineVars, pageVars, item, processVars>>

--------------------------------------------------------------------------------
(***************************************************************************)
(* The phase: the current consumer before it, and its end.                 *)
(***************************************************************************)

\* The worker's cycle acknowledges the page for current statistics (CurrentStats
\* has the details) and enters the projection phase, whose baseline step reads the
\* clock.
AcknowledgeCurrent(done) ==
    /\ pc = "idle"
    /\ pc' = "baseline"
    /\ at' = now
    /\ marker' = [k \in Key |->
                    IF k \in done THEN CurrentAcknowledged(marker[k]) ELSE marker[k]]
    /\ UNCHANGED <<requestVars, stateVars, rowVars, baselineVars, pageVars, item,
                   runtime>>

RefreshCurrent == AcknowledgeCurrent(Page) /\ UNCHANGED faults

\* The phase returns or raises: its locals are gone.
EndPhase ==
    /\ pc' = "idle"
    /\ candidates' = {} /\ more' = FALSE
    /\ observed' = [k \in Key |-> 0] /\ overdue' = {}
    /\ item' = NoItem

--------------------------------------------------------------------------------
(***************************************************************************)
(* The baseline (run_step).                                                *)
(***************************************************************************)

\* _require_calculation_version, on a state row that exists.
CompatibleAlways == TRUE        \* wrong on purpose
Compatible == version = runtime

\* Wrong on purpose: the cursor leaves the other weeks of its user behind.
SurvivingUsers(c) == {k \in Key : content[k] # Empty /\ c[1] < k[1]}

\* surviving_candidates_after: windows that have a bookmark now.
Surviving(c) == {k \in Key : content[k] # Empty /\ Before(c, k)}

\* ORDER BY user_id, window_start LIMIT batch.
IsPage(page, all) ==
    /\ page \subseteq all
    /\ \A k \in page : \A j \in all : Before(j, k) => j \in page
    /\ Cardinality(page) <= BatchSize
    /\ page = all \/ Cardinality(page) = BatchSize

IsLastUser(k, page) ==      \* wrong on purpose: the cursor forgets the week
    \E j \in page : k = <<j[1], 0>> /\ \A i \in page : i[1] <= j[1]

IsLast(k, page) == k \in page /\ \A j \in page : j = k \/ Before(j, k)

StatusAfter(hasMore) == IF hasMore THEN "running" ELSE "active"

\* _persist_candidate on the whole page: a root for a closed week that has none, a
\* fresh working row for the open one; advance; activate after the last page.
PersistPage(page, hasMore) ==
    /\ points' = [k \in Key |->
                    IF k \in page /\ Closed(k, at) /\ points[k] = << >>
                    THEN <<content[k]>> ELSE points[k]]
    /\ working' = [k \in Key |->
                    IF k \in page /\ ~Closed(k, at) THEN content[k] ELSE working[k]]
    /\ IF page = {} THEN UNCHANGED checkpoint ELSE IsLast(checkpoint', page)
    /\ status' = StatusAfter(hasMore)

\* An active baseline sends the same phase on to its markers.
EnterPhase(hasMore) ==
    /\ pc' = IF hasMore THEN "idle" ELSE "observe"
    /\ candidates' = {} /\ more' = FALSE
    /\ UNCHANGED <<pageVars, item>>

\* The first step inserts the state row, so it holds the write lock from its start.
StartBaseline ==
    /\ pc = "baseline"
    /\ status = "absent"
    /\ version' = runtime
    /\ \E page \in SUBSET Surviving(checkpoint) :
          /\ IsPage(page, Surviving(checkpoint))
          /\ \A k \in page : k[2] <= at
          /\ PersistPage(page, page # Surviving(checkpoint))
          /\ EnterPhase(page # Surviving(checkpoint))
    /\ UNCHANGED <<marker, requestVars, at, processVars>>

\* A later one reads its page before its transaction begins.
ReadCandidates ==
    /\ pc = "baseline"
    /\ status = "running" /\ Compatible
    /\ pc' = "persist"
    /\ candidates' \in SUBSET Surviving(checkpoint)
    /\ IsPage(candidates', Surviving(checkpoint))
    /\ more' = (candidates' # Surviving(checkpoint))
    /\ UNCHANGED <<marker, requestVars, stateVars, rowVars, at, pageVars, item,
                   processVars>>

PersistCandidates ==
    /\ pc = "persist"
    /\ \A k \in candidates : k[2] <= at
    /\ PersistPage(candidates, more)
    /\ EnterPhase(more)
    /\ UNCHANGED <<marker, requestVars, version, at, processVars>>

\* A candidate of a week that began after the clock was read: the step is rolled back.
FutureCandidate ==
    /\ \/ /\ pc = "persist"
          /\ \E k \in candidates : k[2] > at
       \/ /\ pc = "baseline" /\ status = "absent"
          /\ \E page \in SUBSET Surviving(checkpoint) :
                IsPage(page, Surviving(checkpoint)) /\ \E k \in page : k[2] > at
    /\ EndPhase
    /\ UNCHANGED <<marker, requestVars, stateVars, rowVars, at, processVars>>

\* The state row was written by another calculation: the phase fails.
VersionMismatch ==
    /\ pc = "baseline"
    /\ status # "absent" /\ ~Compatible
    /\ EndPhase
    /\ UNCHANGED <<marker, requestVars, stateVars, rowVars, at, processVars>>

AlreadyActive ==
    /\ pc = "baseline"
    /\ status = "active" /\ Compatible
    /\ pc' = "observe"
    /\ UNCHANGED <<marker, requestVars, stateVars, rowVars, at, baselineVars,
                   pageVars, item, processVars>>

--------------------------------------------------------------------------------
(***************************************************************************)
(* Markers and overdue rows.                                               *)
(***************************************************************************)
Overdue(k) == working[k] # NoRow /\ Closed(k, now)

\* observe_overdue: ORDER BY window_end, user_id LIMIT batch.
LaterWeek(j, k) == j[2] < k[2] \/ (j[2] = k[2] /\ j[1] < k[1])

OverduePage ==
    {k \in Key : /\ Overdue(k)
                 /\ Cardinality({j \in Key : Overdue(j) /\ LaterWeek(j, k)}) < BatchSize}

\* One page of markers, of which those still pending here are kept, and one page of
\* overdue rows.
ObserveWork ==
    /\ pc = "observe"
    /\ pc' = "process"
    /\ observed' = [k \in Key |-> IF k \in Page /\ ProjectionPending(k)
                                  THEN marker[k].gen ELSE 0]
    /\ overdue' = OverduePage
    /\ UNCHANGED <<marker, requestVars, stateVars, rowVars, at, baselineVars, item,
                   processVars>>

\* _persist_developed: a root, a correction, or nothing when nothing changed.
RevisedAlways(h, p) == Append(h, p)     \* wrong on purpose: repeats the last one
Revised(h, p) == IF h # << >> /\ h[Len(h)] = p THEN h ELSE Append(h, p)

\* The closed week k ends as a point, without working row, and its user has one for
\* the week the transaction believes current (_ensure_current_working).
SuccessorNever(k, rows) == rows         \* wrong on purpose
WithSuccessor(k, rows) ==
    LET current == <<k[1], at>>
    IN IF rows[current] = NoRow
       THEN [rows EXCEPT ![current] = content[current]] ELSE rows

DevelopBeside(k) ==     \* wrong on purpose: the working row stays
    /\ points' = [points EXCEPT ![k] = Revised(@, content[k])]
    /\ working' = WithSuccessor(k, working)

Develop(k) ==
    /\ points' = [points EXCEPT ![k] = Revised(@, content[k])]
    /\ working' = WithSuccessor(k, [working EXCEPT ![k] = NoRow])

\* process_dirty reads the clock,
TakeMarker(k) ==
    /\ pc = "process"
    /\ observed[k] > 0
    /\ pc' = "apply"
    /\ item' = k
    /\ at' = now
    /\ UNCHANGED <<marker, requestVars, stateVars, rowVars, baselineVars, pageVars,
                   processVars>>

MarkerDone ==
    /\ pc' = "process"
    /\ item' = NoItem
    /\ observed' = [observed EXCEPT ![item] = 0]
    /\ UNCHANGED <<requestVars, stateVars, at, baselineVars, overdue, processVars>>

\* and then reads the window, writes and acknowledges in one transaction,
ApplyMarker ==
    /\ pc = "apply"
    /\ status = "active" /\ Compatible
    /\ ~Stale(item, observed[item])
    /\ IF Closed(item, at)
       THEN Develop(item)
       ELSE working' = [working EXCEPT ![item] = content[item]] /\ UNCHANGED points
    /\ marker' = [marker EXCEPT ![item] = ProjectionAcknowledged(@)]
    /\ MarkerDone

\* which is rolled back when the marker was marked again before it began.
MarkerStale ==
    /\ pc = "apply"
    /\ Stale(item, observed[item])
    /\ MarkerDone
    /\ UNCHANGED <<marker, rowVars>>

\* process_overdue, after the markers: it looks at the row and its marker,
TakeOverdue(k) ==
    /\ pc = "process"
    /\ \A j \in Key : observed[j] = 0
    /\ k \in overdue
    /\ at' = now
    /\ overdue' = overdue \ {k}
    /\ IF working[k] = NoRow \/ ProjectionPending(k)
       THEN UNCHANGED <<pc, item>>                  \* ABSENT or DEFERRED
       ELSE pc' = "finalize" /\ item' = k
    /\ UNCHANGED <<marker, requestVars, stateVars, rowVars, baselineVars, observed,
                   processVars>>

\* Wrong on purpose: the transaction is rolled back.
FinalizeUncommitted ==
    /\ pc = "finalize"
    /\ pc' = "process"
    /\ item' = NoItem
    /\ UNCHANGED <<marker, requestVars, stateVars, rowVars, at, baselineVars, pageVars,
                   processVars>>

\* and then, in its transaction, reads the window afresh and develops it.
Finalize ==
    /\ pc = "finalize"
    /\ status = "active" /\ Compatible
    /\ Develop(item)
    /\ pc' = "process"
    /\ item' = NoItem
    /\ UNCHANGED <<marker, requestVars, stateVars, at, baselineVars, pageVars,
                   processVars>>

FinishPhase ==
    /\ pc = "process"
    /\ \A k \in Key : observed[k] = 0
    /\ overdue = {}
    /\ EndPhase
    /\ UNCHANGED <<marker, requestVars, stateVars, rowVars, at, processVars>>

--------------------------------------------------------------------------------
(***************************************************************************)
(* Faults.                                                                 *)
(***************************************************************************)
Fault == faults < MaxFaults /\ faults' = faults + 1

\* The current consumer fails on some users, or finds their markers stale: it
\* acknowledges only some of the page it read, which newer markers may have pushed off
\* the page since.
RefreshFails ==
    \E done \in SUBSET Dirty :
        Cardinality(done) <= BatchSize /\ AcknowledgeCurrent(done) /\ Fault

\* Anything in the phase raises: the transaction is rolled back, the rest of the
\* phase abandoned.
PhaseRaises ==
    /\ pc # "idle"
    /\ Fault
    /\ EndPhase
    /\ UNCHANGED <<marker, requestVars, stateVars, rowVars, at, runtime>>

\* The process dies and starts again, perhaps configured differently.
Restart ==
    /\ Fault
    /\ EndPhase
    /\ runtime' \in Version
    /\ UNCHANGED <<marker, requestVars, stateVars, rowVars, at>>

--------------------------------------------------------------------------------
(***************************************************************************)
(* What readiness reads of it.                                             *)
(***************************************************************************)

\* Wrong on purpose: overdue rows are not counted.
NoMarkerPending == \A k \in Key : ~ProjectionPending(k)

\* readiness_snapshot counts pending markers and overdue rows,
NothingPending == \A k \in Key : ~ProjectionPending(k) /\ ~Overdue(k)

\* and _projection_reason calls the projection ready if there is neither.
Ready == status = "active" /\ Compatible /\ NothingPending

--------------------------------------------------------------------------------
Request ==
    \/ \E k \in Key, p \in Payload, t \in Stamp : Mutate(k, p, t)
    \/ \E k, j \in Key, p \in Payload, t \in Stamp : MutateReplaced(k, j, p, t)
    \/ \E u \in User, S \in SUBSET Key \ {{}} : \E f \in [S -> Payload \ {Empty}] : Seed(u, f)

Worker ==
    \/ RefreshCurrent
    \/ StartBaseline \/ ReadCandidates \/ PersistCandidates \/ FutureCandidate
    \/ VersionMismatch \/ AlreadyActive
    \/ ObserveWork
    \/ \E k \in Key : TakeMarker(k)
    \/ ApplyMarker \/ MarkerStale
    \/ \E k \in Key : TakeOverdue(k)
    \/ Finalize \/ FinishPhase

Faults == RefreshFails \/ PhaseRaises \/ Restart

Next == Request \/ ClockAdvances \/ Worker \/ Faults

Spec == Init /\ [][Next]_vars

\* The worker thread is scheduled.
FairSpec == Spec /\ WF_vars(Worker)

--------------------------------------------------------------------------------
(***************************************************************************)
(* Properties.                                                             *)
(***************************************************************************)

\* What the projection holds of k: the last revision, or else the working row.
Effective(k) == IF points[k] # << >> THEN points[k][Len(points[k])] ELSE working[k]

Right(k) ==
    \/ Effective(k) = content[k]
    \/ Effective(k) = NoRow /\ content[k] = Empty

\* The baseline has still to come to k.
Ahead(k) ==
    /\ status # "active" /\ Before(checkpoint, k)
    /\ points[k] = << >> /\ working[k] = NoRow

\* The projection lags only where it is owed a marker or was denied one: what it holds
\* of a window is what the surviving bookmarks aggregate to, or the window's marker is
\* pending, or the baseline has not reached it, or whoever changed it last did not mark
\* it; across stale markers, late creates, the week's end between two reads of the clock,
\* exceptions and restarts.
Faithful == \A k \in Key \ missed : ProjectionPending(k) \/ Right(k) \/ Ahead(k)

\* Readiness tells as much of the truth as markers do: when it finds nothing to complain
\* of, every window that was marked when it changed holds what its bookmarks aggregate to,
\* and has its point if it is over and has some, although readiness looks at counts only
\* and never at a window.
ReadyMeansExact ==
    Ready => \A k \in Key \ missed :
        Right(k) /\ (Closed(k, now) /\ content[k] # Empty => points[k] # << >>)

\* A window is developing or developed, never both.
OneLifecycle == \A k \in Key : points[k] = << >> \/ working[k] = NoRow

\* ADR-005: at the boundary the point is appended and the next developing row created
\* atomically: a working row only goes in the step that leaves the final aggregate as
\* the window's point and a working row for the week the transaction takes for
\* current.
BoundaryIsAtomic ==
    [][\A k \in Key : working[k] # NoRow /\ working'[k] = NoRow
        => /\ points'[k] # << >>
           /\ points'[k][Len(points'[k])] = content[k]
           /\ working'[<<k[1], at>>] # NoRow]_vars

\* ADR-009: a version mismatch "cannot auto-rewrite or auto-append": as long as the
\* process calculates differently from the state row nothing of the projection
\* changes, and no marker is completed for it.
MismatchFreezes ==
    [][version \notin {NoVersion, runtime}
        => /\ UNCHANGED <<stateVars, rowVars>>
           /\ \A k \in Key : ProjectionPending(k) => ProjectionPending(k)']_vars

\* Every marker is eventually projected.
EventuallyProjected == \A k \in Key : ProjectionPending(k) ~> ~ProjectionPending(k)

\* Once requests, faults and the clock stop, readiness has nothing to complain of any
\* more: no marker stays pending and no row overdue, whatever they interrupted.
EventuallyReady == <>[]Ready

\* Every week that is over and has bookmarks gets its point, unless they were put there
\* without a marker.
EventuallyDeveloped ==
    \A k \in Key : content[k] # Empty /\ Closed(k, now) /\ k \notin missed
        ~> points[k] # << >> \/ content[k] = Empty \/ k \in missed

\* The points are a history that is only appended to, after the week, without repeats.
History == INSTANCE DevelopedHistory WITH week <- now, history <- points

ImplementsDevelopedHistory == History!Spec

================================================================================
