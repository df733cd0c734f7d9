------------------------------ MODULE CurrentStats ------------------------------
(***************************************************************************)
(* The current-statistics pipeline: request threads mutate bookmarks and   *)
(* announce it, one worker thread turns durable markers and hints into     *)
(* snapshots, and the statistics endpoint serves a snapshot or live SQL.   *)
(*                                                                         *)
(* A mutation is known by its number: db[u] counts the committed ones of   *)
(* user u, and statistics of version v reflect mutations 1..v.  A request  *)
(* passes commit, invalidate and put_nowait in steps of its own; the worker    *)
(* drains, observes, plans, refreshes user by user and concludes in many.  *)
(* The database outlives a crash, everything else does not.                *)
(***************************************************************************)
EXTENDS DirtyMarkers, EventPublisher

CONSTANTS
    ProjectionEnabled,  \* STATS_PROJECTION_ENABLED
    BaselineSteps,      \* bound: baseline steps that leave the baseline incomplete
    MaxVersion,         \* bound: mutations of one user
    MaxFaults           \* bound: crashes and failed calls

ASSUME ProjectionEnabledAssumption == ProjectionEnabled \in BOOLEAN
ASSUME BoundAssumption ==
    BaselineSteps \in Nat /\ MaxVersion \in Nat /\ MaxFaults \in Nat

VARIABLES
    db,             \* committed mutations of each user
    unannounced,    \* of those, the ones whose request has not yet invalidated
    unqueued,       \* and the ones invalidated but not yet offered to the queue
    rejected,       \* hints the queue refused, not yet recorded as lost
    pc,             \* where run_cycle is
    todo,           \* users of the cycle not yet refreshed
    failed,         \* users of the cycle that were not refreshed
    aborted,        \* an exception ended the cycle's current phase
    observed,       \* observed[k], the generation the phase saw (0: not on its page)
    full,           \* full_requested
    page,           \* full_page
    cursor,         \* _full_cursor
    drained,        \* the durable backlog was empty at the end of a full page
    user,           \* the user being refreshed
    expected,       \* its epoch before the read
    version,        \* what the read returned
    fullDue,        \* the full-reconciliation interval has passed
    initial,        \* the first cycle: "running", "succeeded" or "failed"
    failing,        \* _consecutive_failures > 0
    baseline,       \* steps of the durable projection baseline that leave it incomplete
    faults,         \* crashes and failures so far
    covered,        \* history: newest version ever installed for a user
    touched         \* history: the last mutation in a user's window

requestVars == <<db, unannounced, unqueued, rejected>>
cycleVars == <<todo, failed, aborted, observed, full, page, drained>>
userVars == <<user, expected, version>>
healthVars == <<initial, failing, baseline>>
historyVars == <<covered, touched>>
storeVars == <<epoch, record>>
publisherVars == <<queue, required, moved>>

vars == <<marker, requestVars, storeVars, publisherVars, pc, cycleVars, cursor,
          userVars, fullDue, healthVars, faults, historyVars>>

--------------------------------------------------------------------------------
(***************************************************************************)
(* States.                                                                 *)
(***************************************************************************)
Steps == {"idle", "observe", "plan", "users", "read", "acknowledge", "publish",
          "commit", "backlog", "conclude", "project", "projecting"}

Versions(u) == 1..db[u]

TypeOK ==
    /\ MarkerTypeOK
    /\ StoreTypeOK
    /\ PublisherTypeOK
    /\ db \in [User -> Nat]
    /\ unannounced \in [User -> SUBSET Nat]
    /\ unqueued \in [User -> SUBSET Nat]
    /\ rejected \in [User -> SUBSET Nat]
    /\ pc \in Steps
    /\ todo \in SUBSET User
    /\ failed \in SUBSET User
    /\ aborted \in BOOLEAN
    /\ observed \in [Key -> Nat]
    /\ full \in BOOLEAN
    /\ page \in SUBSET User
    /\ cursor \in User \cup {0}
    /\ drained \in BOOLEAN
    /\ user \in User \cup {0}
    /\ expected \in Nat
    /\ version \in Nat
    /\ fullDue \in BOOLEAN
    /\ initial \in {"running", "succeeded", "failed"}
    /\ failing \in BOOLEAN
    /\ baseline \in Nat
    /\ faults \in Nat
    /\ covered \in [User -> Nat]
    /\ touched \in [Key -> Nat]

\* What the constructors of the store, the publisher and the refresher leave, and
\* what a crash therefore leaves of them.
ProcessInit ==
    /\ StoreInit
    /\ PublisherInit
    /\ unannounced = [u \in User |-> {}]
    /\ unqueued = [u \in User |-> {}]
    /\ rejected = [u \in User |-> {}]
    /\ pc = "idle"
    /\ todo = {} /\ failed = {} /\ aborted = FALSE
    /\ observed = [k \in Key |-> 0]
    /\ full = FALSE /\ page = {} /\ drained = FALSE /\ cursor = 0
    /\ user = 0 /\ expected = 0 /\ version = 0
    /\ fullDue = TRUE       \* the first cycle is full, and none has completed
    /\ initial = "running" /\ failing = FALSE

Init ==
    /\ NoMarkers
    /\ db = [u \in User |-> 0]
    /\ ProcessInit
    /\ baseline \in 0..BaselineSteps
    /\ faults = 0
    /\ covered = [u \in User |-> 0]
    /\ touched = [k \in Key |-> 0]

\* The observed markers of the user being refreshed.
Held == {k \in Key : k[1] = user /\ observed[k] > 0}

\* From its first acknowledgement to its commit the worker's transaction holds
\* the SQLite write lock.
WriteLocked == pc \in {"publish", "commit"} /\ Held # {}

--------------------------------------------------------------------------------
(***************************************************************************)
(* Request threads.                                                        *)
(***************************************************************************)

\* create, a material patch, delete: the mutation and its marker commit together.
\* The clock is read before, so the stamps need not follow the commits.
Mutate(u, w, t) ==
    /\ ~WriteLocked
    /\ db[u] < MaxVersion
    /\ db' = [db EXCEPT ![u] = @ + 1]
    /\ MarkDirty(<<u, w>>, t)
    /\ unannounced' = [unannounced EXCEPT ![u] = @ \cup {db[u] + 1}]
    /\ touched' = [touched EXCEPT ![<<u, w>>] = db[u] + 1]
    /\ UNCHANGED <<unqueued, rejected, storeVars, publisherVars, pc, cycleVars,
                   cursor, userVars, fullDue, healthVars, faults, covered>>

\* publish, first half: the store forgets the snapshot.
Announce(u, n) ==
    /\ n \in unannounced[u]
    /\ InvalidateUser(u)
    /\ unannounced' = [unannounced EXCEPT ![u] = @ \ {n}]
    /\ unqueued' = [unqueued EXCEPT ![u] = @ \cup {n}]
    /\ UNCHANGED <<marker, db, rejected, publisherVars, pc, cycleVars, cursor,
                   userVars, fullDue, healthVars, faults, historyVars>>

\* publish, second half: a hint is put on the queue,
Enqueue(u, n) ==
    /\ n \in unqueued[u]
    /\ ~QueueFull
    /\ unqueued' = [unqueued EXCEPT ![u] = @ \ {n}]
    /\ PutEvent(u)
    /\ UNCHANGED <<marker, db, unannounced, rejected, storeVars, pc, cycleVars,
                   cursor, userVars, fullDue, healthVars, faults, historyVars>>

\* or the queue refuses it,
Reject(u, n) ==
    /\ n \in unqueued[u]
    /\ unqueued' = [unqueued EXCEPT ![u] = @ \ {n}]
    /\ rejected' = [rejected EXCEPT ![u] = @ \cup {n}]
    /\ UNCHANGED <<marker, db, unannounced, storeVars, publisherVars, pc, cycleVars,
                   cursor, userVars, fullDue, healthVars, historyVars>>

Overflow(u, n) == QueueFull /\ Reject(u, n) /\ UNCHANGED faults

\* and then a full reconciliation is demanded: the lock is taken after put_nowait
\* raised, so the worker may have gone on meanwhile.
RecordLoss(u, n) ==
    /\ n \in rejected[u]
    /\ rejected' = [rejected EXCEPT ![u] = @ \ {n}]
    /\ RequireFull
    /\ UNCHANGED <<marker, db, unannounced, unqueued, storeVars, queue, pc, cycleVars,
                   cursor, userVars, fullDue, healthVars, faults, historyVars>>

--------------------------------------------------------------------------------
(***************************************************************************)
(* The worker's cycle: what it looks at.                                   *)
(***************************************************************************)

\* run_cycle takes the cycle lock and drains the queue before it looks at markers.
StartCycle ==
    /\ pc = "idle"
    /\ pc' = "observe"
    /\ todo' = Drained
    /\ queue' = Undrained
    /\ failed' = {}
    /\ UNCHANGED <<marker, requestVars, storeVars, required, moved, aborted,
                   observed, full, page, drained, cursor, userVars, fullDue,
                   healthVars, faults, historyVars>>

\* One page of markers, oldest first; their users join the cycle.
ObserveMarkers ==
    /\ pc = "observe"
    /\ pc' = "plan"
    /\ observed' = [k \in Key |-> IF k \in Page THEN marker[k].gen ELSE 0]
    /\ todo' = todo \cup {k[1] : k \in Page}
    /\ UNCHANGED <<marker, requestVars, storeVars, publisherVars, failed, aborted,
                   full, page, drained, cursor, userVars, fullDue, healthVars,
                   faults, historyVars>>

\* user_ids_after(cursor, batch).
UsersFrom(c) ==      \* wrong on purpose: the cursor is inclusive
    {u \in User : u >= c /\ Cardinality({v \in User : c <= v /\ v < u}) < BatchSize}

UsersAfter(c) ==
    {u \in User : u > c /\ Cardinality({v \in User : c < v /\ v < u}) < BatchSize}

\* The publisher's state decides, with the interval, whether a page of all users
\* joins too.
PlanUsers ==
    /\ pc = "plan"
    /\ pc' = "users"
    /\ TakeState
    /\ full' = (fullDue \/ required)
    /\ page' = IF full' THEN UsersAfter(cursor) ELSE {}
    /\ todo' = todo \cup page'
    /\ UNCHANGED <<marker, requestVars, storeVars, queue, required, failed, aborted,
                   observed, drained, cursor, userVars, fullDue, healthVars, faults,
                   historyVars>>

--------------------------------------------------------------------------------
(***************************************************************************)
(* The worker's cycle: one user (_refresh_user).                           *)
(***************************************************************************)

\* Users in ascending order; the epoch is read before the statistics.
TakeEpoch(u) ==
    /\ pc = "users"
    /\ u \in todo
    /\ \A v \in todo : u <= v
    /\ pc' = "read"
    /\ todo' = todo \ {u}
    /\ user' = u
    /\ expected' = epoch[u]
    /\ UNCHANGED <<marker, requestVars, storeVars, publisherVars, failed, aborted,
                   observed, full, page, drained, cursor, version, fullDue,
                   healthVars, faults, historyVars>>

\* One read snapshot of canonical SQL, released at once by the rollback.
ReadStats ==
    /\ pc = "read"
    /\ pc' = "acknowledge"
    /\ version' = db[user]
    /\ UNCHANGED <<marker, requestVars, storeVars, publisherVars, cycleVars, cursor,
                   user, expected, fullDue, healthVars, faults, historyVars>>

\* _refresh_user returns or raises: its locals are gone.
LeaveUser ==
    /\ pc' = "users"
    /\ user' = 0 /\ expected' = 0 /\ version' = 0

\* The user was not refreshed; its transaction is rolled back.
GiveUpUser ==
    /\ LeaveUser
    /\ failed' = failed \cup {user}
    /\ UNCHANGED <<marker, requestVars, publisherVars, todo, aborted, observed, full,
                   page, drained, cursor, fullDue, healthVars, historyVars>>

\* Wrong on purpose: the epoch is read again after the statistics.
AcknowledgeLateEpoch ==
    /\ pc = "acknowledge"
    /\ \A k \in Held : ~Stale(k, observed[k])
    /\ pc' = "publish"
    /\ expected' = epoch[user]
    /\ UNCHANGED <<marker, requestVars, storeVars, publisherVars, cycleVars, cursor,
                   user, version, fullDue, healthVars, faults, historyVars>>

\* acknowledge_current on every observed marker of the user: all or none.
Acknowledge ==
    /\ pc = "acknowledge"
    /\ \A k \in Held : ~Stale(k, observed[k])
    /\ pc' = "publish"
    /\ UNCHANGED <<marker, requestVars, storeVars, publisherVars, cycleVars, cursor,
                   userVars, fullDue, healthVars, faults, historyVars>>

AcknowledgeStale ==
    /\ pc = "acknowledge"
    /\ \E k \in Held : Stale(k, observed[k])
    /\ GiveUpUser
    /\ UNCHANGED <<storeVars, faults>>

\* The store accepts the candidate under the epoch it was built for.
PublishSnapshot ==
    /\ pc = "publish"
    /\ Installable(user, expected)
    /\ Install(user, version, expected)
    /\ covered' = [covered EXCEPT ![user] = IF version > @ THEN version ELSE @]
    /\ IF Held # {}
       THEN pc' = "commit" /\ UNCHANGED userVars
       ELSE LeaveUser
    /\ UNCHANGED <<marker, requestVars, publisherVars, cycleVars, cursor, fullDue,
                   healthVars, faults, touched>>

PublishRejected ==
    /\ pc = "publish"
    /\ ~Installable(user, expected)
    /\ GiveUpUser
    /\ UNCHANGED <<storeVars, faults>>

\* Wrong on purpose: the transaction is not committed.
CommitNothing ==
    /\ pc = "commit"
    /\ LeaveUser
    /\ UNCHANGED <<marker, requestVars, storeVars, publisherVars, cycleVars, cursor,
                   fullDue, healthVars, faults, historyVars>>

\* The acknowledgements become durable after the snapshot is served.
CommitUser ==
    /\ pc = "commit"
    /\ LeaveUser
    /\ marker' = [k \in Key |->
                    IF k \in Held THEN CurrentAcknowledged(marker[k]) ELSE marker[k]]
    /\ UNCHANGED <<requestVars, storeVars, publisherVars, cycleVars, cursor,
                   fullDue, healthVars, faults, historyVars>>

--------------------------------------------------------------------------------
(***************************************************************************)
(* The worker's cycle: its conclusion.                                     *)
(***************************************************************************)
Succeeded == failed = {} /\ ~aborted

\* Only a full cycle counts the durable backlog.
FinishUsers ==
    /\ pc = "users"
    /\ todo = {}
    /\ IF full
       THEN pc' = "backlog"
       ELSE pc' = "project"
    /\ UNCHANGED <<marker, requestVars, storeVars, publisherVars, cycleVars, cursor,
                   userVars, fullDue, healthVars, faults, historyVars>>

CountBacklog ==
    /\ pc = "backlog"
    /\ pc' = "conclude"
    /\ drained' = (Dirty = {})
    /\ UNCHANGED <<marker, requestVars, storeVars, publisherVars, todo, failed,
                   aborted, observed, full, page, cursor, userVars, fullDue,
                   healthVars, faults, historyVars>>

PageComplete == Cardinality(page) < BatchSize

\* Wrong on purpose: the next reconciliation starts where this one ended.
ConcludeWithoutReset ==
    /\ Succeeded /\ PageComplete /\ drained
    /\ AcknowledgeFull
    /\ fullDue' = (fullDue /\ moved)
    /\ UNCHANGED <<cursor, moved>>

\* The full reconciliation is over: forget why it was needed, unless it is
\* needed again.
ConcludeFull ==
    /\ Succeeded /\ PageComplete /\ drained
    /\ cursor' = 0
    /\ AcknowledgeFull
    /\ fullDue' = (fullDue /\ moved)
    /\ UNCHANGED moved

\* It goes on after the last user of this page.
ConcludePage ==
    /\ Succeeded /\ ~(PageComplete /\ drained)
    /\ \E u \in page : (\A v \in page : v <= u) /\ cursor' = u
    /\ RequireFull
    /\ UNCHANGED fullDue

\* It starts again where it was.
ConcludeRetry ==
    /\ ~Succeeded \/ (page = {} /\ ~drained)
    /\ RequireFull
    /\ UNCHANGED <<cursor, fullDue>>

Conclude ==
    /\ pc = "conclude"
    /\ pc' = "project"
    /\ ConcludeFull \/ ConcludePage \/ ConcludeRetry
    /\ UNCHANGED <<marker, requestVars, storeVars, queue, cycleVars, userVars,
                   healthVars, faults, historyVars>>

\* The cycle's verdict, the latch the first one sets, and the end of its locals.
\* (The failed users stay until the next cycle, for FailedUsersStayPending.)
RecordCycle ==
    /\ pc' = "idle"
    /\ todo' = {} /\ aborted' = FALSE
    /\ observed' = [k \in Key |-> 0]
    /\ full' = FALSE /\ page' = {} /\ drained' = FALSE
    /\ UNCHANGED failed
    /\ failing' = ~Succeeded
    /\ initial' = IF initial # "running" THEN initial
                  ELSE IF Succeeded THEN "succeeded" ELSE "failed"

\* The projection phase does nothing when it is disabled, and nothing but a step of
\* the baseline while that leaves the baseline incomplete.
NoProjectionAlways == TRUE      \* wrong on purpose: a baseline step too many
NoProjection == ~ProjectionEnabled \/ baseline > 0

SkipProjection ==
    /\ pc = "project"
    /\ NoProjection
    /\ RecordCycle
    /\ baseline' = IF ProjectionEnabled THEN baseline - 1 ELSE baseline
    /\ UNCHANGED <<marker, requestVars, storeVars, publisherVars, cursor,
                   userVars, fullDue, faults, historyVars>>

\* It observes the same page, and keeps what it has not completed.
ObserveProjection ==
    /\ pc = "project"
    /\ ~NoProjection
    /\ pc' = "projecting"
    /\ observed' = [k \in Key |-> IF k \in Page /\ ProjectionPending(k)
                                  THEN marker[k].gen ELSE 0]
    /\ UNCHANGED <<marker, requestVars, storeVars, publisherVars, todo, failed,
                   aborted, full, page, drained, cursor, userVars, fullDue,
                   healthVars, faults, historyVars>>

\* One transaction per marker, in any order: it is applied, or rolled back when
\* stale.
ProjectMarker(k) ==
    /\ pc = "projecting"
    /\ observed[k] > 0
    /\ observed' = [observed EXCEPT ![k] = 0]
    /\ marker' = IF Stale(k, observed[k]) THEN marker
                 ELSE [marker EXCEPT ![k] = ProjectionAcknowledged(@)]
    /\ UNCHANGED <<requestVars, storeVars, publisherVars, pc, todo, failed, aborted,
                   full, page, drained, cursor, userVars, fullDue, healthVars,
                   faults, historyVars>>

FinishProjection ==
    /\ pc = "projecting"
    /\ \A k \in Key : observed[k] = 0
    /\ RecordCycle
    /\ UNCHANGED <<marker, requestVars, storeVars, publisherVars, cursor,
                   userVars, fullDue, baseline, faults, historyVars>>

--------------------------------------------------------------------------------
(***************************************************************************)
(* Time and faults.                                                        *)
(***************************************************************************)

\* STATS_FULL_RECONCILIATION_SECONDS pass since the last full reconciliation.
FullIntervalPasses ==
    /\ ~fullDue
    /\ fullDue' = TRUE
    /\ UNCHANGED <<marker, requestVars, storeVars, publisherVars, pc, cycleVars,
                   cursor, userVars, healthVars, faults, historyVars>>

Fault == faults < MaxFaults /\ faults' = faults + 1

\* put_nowait raises something else than Full: the hint is lost all the same.
EnqueueRaises(u, n) == Fault /\ Reject(u, n)

\* Reading, acknowledging or publishing for one user raises.
RefreshRaises ==
    /\ pc \in {"read", "acknowledge", "publish"}
    /\ Fault
    /\ GiveUpUser
    /\ UNCHANGED storeVars

\* The commit raises after the snapshot was installed: it is invalidated again.
CommitRaises ==
    /\ pc = "commit"
    /\ Fault
    /\ InvalidateUser(user)
    /\ GiveUpUser

\* Anything else raises: the current phase ends, and a full one is required.
CycleRaises ==
    /\ pc \in {"observe", "plan", "backlog", "project"}
    /\ Fault
    /\ pc' = "project"
    /\ aborted' = TRUE
    /\ RequireFull
    /\ UNCHANGED <<marker, requestVars, storeVars, queue, todo, failed, observed,
                   full, page, drained, cursor, userVars, fullDue, healthVars,
                   historyVars>>

\* The rest of the projection phase is abandoned.
ProjectionRaises ==
    /\ pc = "projecting"
    /\ Fault
    /\ RecordCycle
    /\ UNCHANGED <<marker, requestVars, storeVars, publisherVars, cursor,
                   userVars, fullDue, baseline, historyVars>>

\* The process dies, with its requests, and starts again.
Crash ==
    /\ Fault
    /\ epoch' = [u \in User |-> 0]
    /\ record' = [u \in User |-> NoRecord]
    /\ queue' = << >> /\ required' = FALSE /\ moved' = FALSE
    /\ unannounced' = [u \in User |-> {}]
    /\ unqueued' = [u \in User |-> {}]
    /\ rejected' = [u \in User |-> {}]
    /\ pc' = "idle"
    /\ todo' = {} /\ failed' = {} /\ aborted' = FALSE
    /\ observed' = [k \in Key |-> 0]
    /\ full' = FALSE /\ page' = {} /\ drained' = FALSE /\ cursor' = 0
    /\ user' = 0 /\ expected' = 0 /\ version' = 0
    /\ fullDue' = TRUE
    /\ initial' = "running" /\ failing' = FALSE
    /\ UNCHANGED <<marker, db, baseline, historyVars>>

--------------------------------------------------------------------------------
Request ==
    \/ \E u \in User, w \in Window, t \in Stamp : Mutate(u, w, t)
    \/ \E u \in User : \E n \in Versions(u) : Announce(u, n)
    \/ \E u \in User : \E n \in Versions(u) : Enqueue(u, n)
    \/ \E u \in User : \E n \in Versions(u) : Overflow(u, n)
    \/ \E u \in User : \E n \in Versions(u) : RecordLoss(u, n)

Worker ==
    \/ StartCycle \/ ObserveMarkers \/ PlanUsers
    \/ \E u \in User : TakeEpoch(u)
    \/ ReadStats \/ Acknowledge \/ AcknowledgeStale
    \/ PublishSnapshot \/ PublishRejected \/ CommitUser
    \/ FinishUsers \/ CountBacklog \/ Conclude
    \/ SkipProjection \/ ObserveProjection
    \/ \E k \in Key : ProjectMarker(k)
    \/ FinishProjection

Faults ==
    \/ \E u \in User : \E n \in Versions(u) : EnqueueRaises(u, n)
    \/ RefreshRaises \/ CommitRaises \/ CycleRaises \/ ProjectionRaises \/ Crash

Next == Request \/ Worker \/ FullIntervalPasses \/ Faults

Spec == Init /\ [][Next]_vars

\* The worker thread is scheduled, time passes, and a request that committed goes
\* on to announce it.  Nothing makes a client mutate or a call fail.
Fairness ==
    /\ WF_vars(Worker)
    /\ WF_vars(FullIntervalPasses)
    /\ \A u \in User : \A n \in 1..MaxVersion :
          /\ WF_vars(Announce(u, n))
          /\ WF_vars(Enqueue(u, n) \/ Overflow(u, n))
          /\ WF_vars(RecordLoss(u, n))

FairSpec == Spec /\ Fairness

--------------------------------------------------------------------------------
(***************************************************************************)
(* Properties.                                                             *)
(***************************************************************************)

\* snapshot_healthy, while the worker thread lives.
Healthy == initial = "succeeded" /\ ~failing

\* What CurrentStatsService.read may answer: live SQL, always possible because the
\* record may be too old, or a visible snapshot of a healthy worker.
Answers(u) ==
    {db[u]} \cup (IF Healthy /\ Visible(u) THEN {record[u].version} ELSE {})

Missing(v, u) == (v + 1)..db[u]

\* Read your writes: an answer of the statistics endpoint may miss only mutations
\* whose own request has committed but not yet reached the store's invalidate; a
\* client that has its response never sees statistics without its mutation, however
\* the worker's read, publish and commit interleave with it.
FreshReads == \A u \in User : \A v \in Answers(u) : Missing(v, u) \subseteq unannounced[u]

\* The dirty table is the recovery authority: a mutation newer than every snapshot
\* that was ever installed for its user still has its window's marker pending for
\* the current consumer, across stale acknowledgements, rejected publications,
\* failed commits and crashes.
DurableWork == \A k \in Key : touched[k] > covered[k[1]] => CurrentPending(k)

\* Something will make the worker refresh the user: a marker, a hint, or a request
\* about to leave one.
Pending(u) ==
    \/ \E w \in Window : CurrentPending(<<u, w>>)
    \/ \E i \in 1..Len(queue) : queue[i] = u
    \/ unannounced[u] # {} \/ unqueued[u] # {} \/ rejected[u] # {}

\* A failed refresh "keeps affected user IDs pending for retry" (ADR-004): between
\* cycles a user the last cycle failed on is still pending, or a full
\* reconciliation is.
FailedUsersStayPending ==
    pc = "idle" => \A u \in failed : required \/ fullDue \/ Pending(u)

\* acknowledge_full_reconciliation is to "clear suspicion only if no newer failure
\* occurred during reconciliation": when the worker clears it, every user has a
\* current snapshot or is pending, so no hint was lost behind the scan's back.
ClearedMeansRecovered ==
    [][pc = "conclude" /\ required /\ ~required'
        => \A u \in User : Visible(u) \/ Pending(u)]_vars

\* Every marker is eventually acknowledged for current statistics, whatever
\* happened to the hint that announced it.
EventuallyAcknowledged ==
    \A k \in Key : CurrentPending(k) ~> ~CurrentPending(k)

\* Once mutations and faults stop, every user's snapshot comes back and is up to
\* date: lost hints, invalidated records and rejected candidates are made good.
SnapshotsConverge ==
    <>[](\A u \in User : Visible(u) /\ record[u].version = db[u])

\* A full reconciliation that is required is eventually completed.
ReconciliationCompletes == required ~> ~required

\* Seen from the endpoint the store, its epochs and the worker are a cache whose
\* entries lag only by unannounced mutations.
Served == [u \in User |-> IF Visible(u) THEN record[u].version ELSE -1]
Cache == INSTANCE SnapshotCache WITH commits <- db, cache <- Served

ImplementsSnapshotCache == Cache!Spec

================================================================================
