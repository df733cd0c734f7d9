# Verification of the bookmark service

This directory holds TLA+ modules that model the bookmark service in `src/app`, TLC
configurations that check them on small instances, and proofs that TLAPS checks for every
instance. Its core is the statistics pipeline: start with `CurrentStats.tla` and
`WeeklyProjection.tla`. Around it are the bookmark requests and their cursor walks, the accounts
with the rate limiter in front of them, the seed command, and the process's lifecycle with its
readiness endpoint. This page says how the modules correspond to the code, what each run and
theorem shows, and what is left out.

## 1. The system

The service is a FastAPI application on SQLite. Requests run in a thread pool, one session each;
one worker thread per process (`APP_WORKER_COUNT` must be 1, `core/config.py:122`) keeps
statistics up to date. The parts that carry logic of their own:

| Component | State | Operations | What makes it correct |
|---|---|---|---|
| Dirty markers (`bookmarks/stats/dirty.py`) | table `bookmark_stats_window_dirty`: per user and week a generation and what two consumers completed | `mark_dirty`, `observe`, `backlog`, `acknowledge_current`, `acknowledge_projection` | no work is acknowledged that was not done; a row goes only when both consumers are done |
| Snapshot store (`snapshots.py`) | records and invalidation epochs, in memory, one lock | `invalidate`, `epoch`, `publish`, `get` | a record is visible only while nothing it lacks was announced |
| Publisher (`publisher.py`) | bounded queue, reconciliation flag and epoch, in memory | `publish`, `drain`, `state`, `acknowledge_full_reconciliation`, `require_full_reconciliation` | a lost hint is made good |
| Refresher (`refresher.py`) | cycle lock, cursor, health fields; one worker thread | `run_cycle`, `_refresh_user`, `_run_projection_phase`, `start`, `stop`, `snapshot_healthy` | every marker and user is reached; no stale snapshot; failures heal |
| Statistics endpoint (`service.py`, `raw_sql.py`) | none | `read` | read your writes |
| Bookmark service (`bookmarks/service.py`, `policy.py`, `repository.py`) | tables of bookmarks, tags, links | `create`, `list`, `list_cursor`, `get`, `patch`, `delete` | ownership; a mutation and its marker commit together; concurrent PATCHes merge |
| Weekly projection (`projection_service.py`, `projection_repository.py`, `weekly.py`) | state singleton with checkpoint, working rows, append-only points | `run_step`, `process_dirty`, `process_overdue` | history only grows, after the week and by chains without gaps; what is stored is right or known to be behind; every closed week gets its point |
| Readiness (`api/health.py`) | last reason reported, one lock | `evaluate` | a dead or hung worker is reported, and by its name |
| Rate limiter (`api/rate_limit.py`) | bounded table of token buckets, one lock | `consume`, `_refill`; idle eviction, refusal of unseen keys at the bound | quota per window although buckets are forgotten; a Retry-After that is enough and not too much |
| Cursor pagination (`bookmarks/pagination.py`) | none (the client holds the cursor) | `encode`, `decode`, keyset query | a walk skips and repeats nothing that stayed |
| Lifecycle (`main.py`, `refresher.stop`) | app state, stop event, deferred callbacks | `_lifespan`, `stop`, `defer` | the engine is disposed once, after the worker |
| Authentication (`auth/`) | users, signed tokens | `register`, `login`, `verify` | one account per username and email; a token names its holder's account, for ever |
| Seed (`seed.py`) | one account and its fixture, found by name and URL | `seed_database` | applied whole or not at all, beside whatever else writes |

How they interact: a request commits a mutation *with* its marker, and only then calls
`publish`, which invalidates the user's snapshot and offers a hint to the queue. The worker
drains the queue, observes a page of markers, asks the publisher whether to add a page of all
users, and for each user reads the epoch, reads canonical SQL, acknowledges the user's markers
in an open transaction, installs the snapshot, commits. Then it concludes the reconciliation
and runs the projection phase, the second consumer of the same markers: one baseline step over
the bookmarks that survive while the baseline is not over, and afterwards one transaction for
each observed marker and each developing row whose week has ended. The endpoint reads the store,
and falls back to live SQL.

What is hard: request threads interleave with every step of the worker; the snapshot is installed
before the acknowledgement commits; the two consumers delete shared rows; hints are lost to
overflow and crashes; pages are bounded; a failure of one user must not lose another's work; the
full reconciliation spans several cycles; the clock passes the end of a week between two reads of
it; the baseline resumes after restarts, perhaps under another configuration, while bookmarks
change on both sides of its cursor. Beside the pipeline: PATCH and DELETE read before their
transaction begins, identifiers are reused, a registration issues its token before it commits, a
table of buckets forgets keys, and shutdown races a worker that may hang. `PROJECT.json` lists each
hazard with its line and the properties that cover it.

## 2. Modules

| Module | Models |
|---|---|
| `StatsDomain` | the constants: `User`, `Window`, `Stamp`, `QueueCapacity`, and `BatchSize` derived from it as `main.py:112` does |
| `DirtyMarkers` | `dirty.py`: rows, `mark_dirty`, the observed page, both acknowledgements |
| `SharedWork` | abstract specification: what the marker table promises each of its consumers |
| `DirtyMarkersProofs` | lemmas about markers, and that each operation on one is a step of `SharedWork` |
| `SnapshotStore` | `snapshots.py` |
| `EventPublisher` | `publisher.py` |
| `CurrentStats` | the pipeline: requests, `run_cycle`, `_refresh_user`, the markers' side of the projection phase, faults; composes the four above |
| `SnapshotCache` | abstract specification: what the endpoint promises about its cache |
| `CurrentStatsProofs` | the theorems about `CurrentStats` |
| `WeeklyProjection` | `projection_service.py` and `projection_repository.py` as `refresher.py:431` drives them: baseline, markers, overdue rows, clock, restarts; extends `DirtyMarkers` |
| `DevelopedHistory` | abstract specification: what the projection promises about developed points |
| `WeeklyProjectionProofs` | the theorems about `WeeklyProjection` |
| `Bookmarks` | `bookmarks/service.py`, `policy.py`, `repository.py`: requests with their unprotected reads, and a client's cursor walk |
| `BookmarksProofs` | the theorems about `Bookmarks` |
| `RateLimit` | `api/rate_limit.py`: one policy's table of buckets |
| `TokenBucket` | abstract specification: what a rate limit promises each key |
| `RateLimitProofs` | the theorems about `RateLimit` |
| `Accounts` | `auth/service.py`, `auth/dependencies.py`, `seed.py`: registrations, logins, tokens and the seed on one table of users |
| `Access` | `Accounts` behind the `RateLimit` of the auth policy |
| `AccessProofs`, `MaxFacts` | the theorems about `Access`, and lemmas about `Max` |
| `Lifecycle` | `main.py`'s lifespan beside the worker thread's start, loop, stop and callbacks |
| `Readiness` | `api/health.py`'s evaluation, sampling a `Lifecycle` |
| `ReadinessProofs` | the theorems about `Readiness` and `Lifecycle` |
| `MCBookmarks`, `MCAccess` | instances for TLC, with their symmetry |

`CurrentStats` and `WeeklyProjection` are two views of the same worker, each with the other
consumer reduced to what it does to the shared markers: `ObserveProjection`, `ProjectMarker` and
`FinishProjection` there, `AcknowledgeCurrent` here. What makes the reduction sound is
`SharedWork`: for each window a set of consumers that still owe work. A mutation makes both owe
it, and one step takes away the debts of one consumer at most. Both views implement it
(`ImplementsSharedWork`), although the table keeps generations and deletes rows.

### How CurrentStats corresponds to the code

- **Data.** A mutation of user `u` is a number, `db[u]` the last committed one. Statistics are the
  version they reflect: what `raw_sql.py` computes is a function of the committed rows, so nothing
  else about it can go wrong in the pipeline. Generation 0 means no marker row.
- **Requests.** `Mutate` (the transaction: rows and marker), `Announce` (`store.invalidate`),
  `Enqueue` / `Overflow` (`put_nowait`) and `RecordLoss` (the publisher's lock, taken after
  `put_nowait` raised) are separate steps; requests of one user overlap freely. `Stamp` is the
  clock's reading, taken before the commit, so marker stamps need not follow commit order.
- **Worker.** `pc` names the place in `run_cycle`. `StartCycle`, `ObserveMarkers`, `PlanUsers` are
  its preparation; `TakeEpoch`, `ReadStats`, `Acknowledge`/`AcknowledgeStale`,
  `PublishSnapshot`/`PublishRejected`, `CommitUser` one user's `_refresh_user`; `FinishUsers`,
  `CountBacklog`, `Conclude` its end; `SkipProjection` or `ObserveProjection`, `ProjectMarker`,
  `FinishProjection` the projection phase, whose last step also records the cycle's verdict (the
  code's `finally`).
- **Locks.** From its first acknowledgement the worker's transaction holds SQLite's write lock, so
  `Mutate` waits (`WriteLocked`). Where the code takes a Python lock for a few assignments the
  model takes one step.
- **reconciliation_epoch** only grows and is only compared with the value the worker read in the
  same cycle; `moved` is the outcome of that comparison.
- **Time.** `FullIntervalPasses` is the full-reconciliation interval; the refresh interval is the
  freedom not to start a cycle. A snapshot's age is not modelled: `Answers` lets any read find its
  record too old.
- **Faults.** `MaxFaults` failures, anywhere the code catches an exception: `put_nowait`
  (`EnqueueRaises`), one user's refresh (`RefreshRaises`, `CommitRaises`), the rest of a cycle
  (`CycleRaises`), the projection phase (`ProjectionRaises`), and `Crash`: the process dies with
  its requests and starts anew; only the database survives.
- **History.** `covered` and `touched` record the newest version ever installed and the last
  mutation of a window. No action reads them.
- **Mutations.** `Mutate` of `CurrentStats` stands for every request's mutation: a create, a
  material PATCH or a delete marks one window of its user, the wrong one perhaps (`WrongWindow`),
  which is all the same to statistics per user. The seed command, which marks and announces
  nothing, is outside: what it adds shows when something else has the user refreshed.

### How WeeklyProjection corresponds to the code

- **Data.** A week is a number, and the clock `now` reads the number of the week it is in:
  `window.end <= now` becomes `k[2] < now`. What `weekly.py` computes from a window's bookmarks
  is a payload; payloads are compared, as the code compares their hashes within one calculation
  version. `content[k]` is what the surviving bookmarks of `k` aggregate to now. `points[k]` is
  the chain of revisions, so a point's revision is its index and it supersedes the one before.
  Identifiers, `source_generation`, correction reasons and the timestamps of rows are left out.
- **Requests.** `Mutate` is one committed create, PATCH or delete with its marker. A create reads
  the clock before it commits, so it may still fall in the week just over. `MutateReplaced` is a
  PATCH or delete of a bookmark that has been deleted since it was read and whose identifier another
  of the same user has: it changes the one's window and marks the other's, as `Bookmarks` shows in
  detail. `Seed` is the seed command: bookmarks for any of its user's past weeks, no marker. The
  clock never goes back.
- **History.** `missed` is the set of windows whose last change did not mark them. No action reads
  it; `Faithful`, `ReadyMeansExact` and `EventuallyDeveloped` except these windows, since nothing in
  the code tells the projection of them until something else marks them.
- **Worker.** `pc` names the place in the phase. `AcknowledgeCurrent` is the rest of the cycle as
  the markers see it. `StartBaseline` is the first `run_step`: it inserts the state row, so it
  holds the write lock throughout and is one step. Later ones read their page in autocommit
  before the transaction's snapshot begins (`ReadCandidates`, then `PersistCandidates`).
  `ObserveWork` reads both pages; `TakeMarker` reads the clock, `ApplyMarker` is the transaction
  from its snapshot to its commit, `MarkerStale` the one rolled back; `TakeOverdue` and
  `Finalize` likewise. Observed markers are taken in any order, which allows more than the code.
- **State row.** "pending" and "running" are written by one transaction and are one state here;
  `fail()`, which would make it "failed", has no caller. Working rows and points carry the
  calculation version of the state row, which guards every write, so their own check never
  decides.
- **Faults.** `RefreshFails`: the current consumer acknowledges up to a page of markers and leaves
  others of its page, whatever mutations have pushed off the page since it was read.
  `PhaseRaises`: anything in the phase raises, a lost race for SQLite's write lock included.
  `Restart`: a crash, and a start with any configuration.
- **Readiness.** `NothingPending` is `readiness_snapshot`'s two counts, `Ready` the projection's
  part of `health.py`'s verdict, read in one step. The worker's own fields, which an evaluation
  reads at another moment, can only withhold that verdict, so they are left out.
- **Left out.** Users being deleted (nothing in `src/app` does), the disabled phase
  (`CurrentStats` has it).

### How Bookmarks corresponds to the code

- **Data.** A row has its owner, timestamps and two fields: `text` for url, title and description,
  `tags` for the set of tags as one value. A patch gives some of them new values, and
  `classify_patch` is the fields among them that differ from what was read. `born` is an identity
  that, unlike the id, is never reused; no action asks for it: it is the history of the walk and
  of the requests, and tells whether a bookmark is still the one that was read.
- **Requests.** PATCH and DELETE read in autocommit, the row (`ReadRow`) and its tags (`ReadTags`)
  by separate statements; the transaction begins with their first write, holds SQLite's write
  lock and is one step (`CommitPatch`, `CommitDelete`). Nothing compares the row written with the
  row read, except its identifier and owner. `EndUnwritten` is every other end: an immaterial
  patch, a row not found any more, an exception. The clock is arbitrary.
- **The tag table** is left out: every caller looks tags up after its first write, under the
  write lock, so the conflict its savepoint provides for cannot come about.
- **Walk.** A page is one read. `seen`, `items` and `stay` are history: what the walk has shown,
  shows now, and what has been there and matched all along. Signature and expiry only refuse.

### How RateLimit corresponds to the code

- **Data.** The code's levels are floats. Here they are multiples of a unit, `Grain` of which are a
  `WindowSeconds`-th of a token, and what the code computes by a product or a quotient is any
  multiple within `Rounding` units of the exact result: a refill (`Refills`), whose error stays in
  the bucket, and the quotient that Retry-After rounds up (`SecondsUntil` of a level that is up to
  `Rounding` off). With ten requests a minute the code does both: from 2/3 of a token it computes
  `(1 - 0.6666666666666666) / 0.16666666666666666 = 2.0000000000000004` and says three seconds where
  two are enough; six refills of a second each give 0.9999999999999999, a rejection. Real
  errors are far below half a unit of any grid; the model only needs `Rounding < Grain`. Keys are
  opaque. Two policies are two independent tables; one is modelled.
- **Requests.** The lock makes `consume` one step. Idle buckets go first (`Live`), then `Allow`,
  `Reject` and `RejectUnseen` are its three outcomes, each with any rounding. The error for a clock
  that goes back cannot come about with `time.monotonic`. `reported` is history.

### How Accounts and Access correspond to the code

- **Data.** An identity is a pair of canonical username and email. An account remembers whose
  password it has: a client's, or the seed's, which is in the repository. A token is its subject;
  the clock may read anything, so any use of a token may find it expired. Identifiers are those
  SQLite gives: the one after the greatest, again after a rollback.
- **Registration.** `Register` is the insert, the flush and the token; `CommitRegistration` or
  `RollbackRegistration` ends the transaction, which held SQLite's write lock (`Locked`) since the
  flush; `Deliver` hands the token over, `End` is every answer that hands over none. `LogIn`
  reads in autocommit.
- **The seed** looks for its username (`SeedStarts`), its email (`SeedLooks`) and each fixture
  (`SeedReads`) in autocommit until its first insert; from then on it holds the write lock.
  `planted` is what its transaction has inserted. `SeedFails` is a conflict, an exception, or the
  end of its process. `stock` tells of a fixture's URL in the seed's account only whether what is
  there would pass the seed's comparison.
- **Requests of the seed's account** (`Touch`) stand for create, PATCH and delete of a bookmark
  with a fixture's URL. `touched` is history.
- **Access.** `Attempt` and `Refuse` are `enforce_auth_rate_limit`: a registration or login
  first costs its peer a request. The bookmark policy is a table of its own, keyed by account.

### How Lifecycle and Readiness correspond to the code

- **Threads.** `main` is the place in the lifespan, `worker` the place in `_run`; each critical
  section is one step. A cycle ends with either verdict (`EndOfCycle`), or by something
  `run_cycle` does not catch (`CycleEscapes`), or never. `TakeCallbacks` and `RunCallbacks` are
  the `finally` of `_run`, `Defer` is `defer_until_stopped`.
- **Time.** Ages count ticks and stop at `Old = StaleAfter + MaxLag + 1`, beyond which no
  comparison can change; the clock is monotonic.
- **Evaluations** sample the clock (`ReadClock`) and then the worker (`ReadWorker`) under no
  common lock; up to `MaxLag` ticks pass in between. They share nothing but the log of
  transitions, so one stands for all. The reasons that come from the database, the backlog, the
  publisher and the projection are free choices here; `WeeklyProjection` has the projection's. So is
  `state_unavailable`, which any exception and any sample that is not valid leads to
  (`health.py:196`, `210`, `341`): every evaluation of an enabled process may end in it.

### Wrong on purpose

The definitions marked *wrong on purpose* are variants a plausible bug would produce; no
specification uses them. Replacing the neighbouring definition by one of them must break the
property `PROJECT.json` pairs it with.

## 3. Properties and runs

| Run (`.cfg`) | Checks | Instance |
|---|---|---|
| `CurrentStatsWindows` | `TypeOK`, `FreshReads`, `DurableWork`, `ImplementsSnapshotCache`, `ImplementsSharedWork` | 1 user, 2 windows, 2 mutations, 1 fault, a baseline of one step |
| `CurrentStatsPaging` | `EventuallyAcknowledged`, `SnapshotsConverge`, `ReconciliationCompletes` | 2 users, queue and page of 1 |
| `CurrentStatsRecovery` | the same three | 1 user, 2 mutations, 1 fault |
| `NoProjection` | `SnapshotsConverge` fails | projection disabled |
| `FailedHint` | `FailedUsersStayPending` fails | 1 user, 1 fault |
| `LostHint` | `ClearedMeansRecovered` fails | 2 users, no fault |
| `ProjectionWeeks` | `TypeOK`, `Faithful`, `OneLifecycle`, `BoundaryIsAtomic`, `MismatchFreezes`, `ReadyMeansExact`, `ImplementsDevelopedHistory`, `ImplementsSharedWork` | 1 user, 3 weeks, 2 versions, page of 1, 2 mutations or seeds, 1 fault |
| `ProjectionLiveness` | `EventuallyProjected`, `EventuallyReady`, `EventuallyDeveloped` | 1 user, 3 weeks, page of 1, 2 mutations or seeds, 1 fault |
| `Bookmarks` | `TypeOK`, `WalkRepeatsNothing`, `WalkSkipsNothing`, `PatchesMerge` | 2 users, 2 requests under way, page of 1, 3 writes |
| `WrongWindow` | `ChangesMarkTheirWindow` fails | 1 user, 2 requests, 4 writes |
| `RateLimit` | of `RateLimit`: `TypeOK`, `RetryAfterIsClose`, `ImplementsTokenBucket`, `ReportsAreRare`; of `Accounts`: `AccountsTypeOK`, `TokensNameTheirHolder`, `SeedIsAtomic` | `MCAccess`: 2 clients for 1 bucket, 1 request per 2 s, 2 s, 10 units in half a request and roundings of 1, 3 identities, 1 fixture |
| `Readiness` | `TypeOK`, `DisposedAfterUse`, `DisposedOnce`, `ShutdownIsBounded`, `EventuallyDisposed`, `TroubleIsNamed` | staleness and lag of 1 tick |

- `FreshReads`: an answer of the endpoint misses only mutations whose own request has not
  reached `invalidate`. A client that has its response reads its write.
- `DurableWork`: a mutation newer than every snapshot ever installed for its user still has its
  marker pending for the current consumer.
- `ImplementsSnapshotCache`: through `Served` the pipeline is a `SnapshotCache`.
- `ImplementsSharedWork`: what one consumer acknowledges, or a deleted row, never takes the
  other's work away.
- `EventuallyAcknowledged`, `SnapshotsConverge`, `ReconciliationCompletes`: every marker is
  acknowledged, every user's snapshot comes back up to date once mutations and faults stop, a
  demanded reconciliation ends.
- `Faithful`: what the projection holds of a window (its last revision, or else its developing
  row) is what the surviving bookmarks aggregate to, or the window's marker is pending, or the
  baseline has still to come to it, or whoever changed the window last did not mark it (`missed`:
  a PATCH or delete of a replaced bookmark, or a seed). It lags where it is owed a marker or was
  denied one, and nowhere else.
- `OneLifecycle`: a window is developing or developed, never both.
- `BoundaryIsAtomic` (ADR-005): a developing row goes only in the step that appends the final
  aggregate and leaves a row for the week the transaction takes for current.
- `MismatchFreezes` (ADR-009): a process that calculates otherwise than the state row changes
  nothing of the projection and completes no marker for it.
- `ImplementsDevelopedHistory`: the points are only appended to, only after the week, and never
  twice in a row with the same payload.
- `ReadyMeansExact`: when readiness counts nothing pending in an active, compatible projection,
  every window that was marked when it last changed is stored as it is and, if it is over and has
  bookmarks, has its point. Of a window in `missed` readiness knows nothing: ready does not mean
  exact there.
- `EventuallyProjected`, `EventuallyDeveloped`, `EventuallyReady`: every marker is projected, every
  week that is over and has bookmarks gets its point, unless they came without a marker; and once
  mutations, faults and the clock rest, no marker is pending and no row overdue any more, for good.
- `WalkRepeatsNothing`, `WalkSkipsNothing`: a cursor walk shows nothing twice, and everything that
  was there and matched throughout, whatever is written between its pages.
- `PatchesMerge`: a PATCH changes no field back to what it had read.
- `ImplementsTokenBucket`: through the level a key has, remembered or not, the table is one token
  bucket per key; forgetting idle keys gives nobody more.
- `RetryAfterIsClose`: Retry-After is the first whole second at which the request is covered, or one
  whose level is a rounding away from a request's cost: at that second the request is covered up
  to a rounding, a second sooner it was not covered beyond one, two seconds sooner not at all. The
  plain promise, the first whole second, is false of the code, as section 2 says.
- `ReportsAreRare`: a key's rejections are reported at most once per window, eviction or not.
- `AccountsTypeOK`: besides the types, no two accounts share a username or an email.
- `TokensNameTheirHolder`: a token names an account that exists and whose password its holder
  has, although it is issued before the account is committed and its identifier may be given to
  somebody else.
- `SeedIsAtomic`: a seed that writes anything leaves its account and every fixture as it should be,
  but for those requests changed meanwhile.
- `DisposedAfterUse`, `DisposedOnce`, `EventuallyDisposed`: the engine is disposed after the
  worker's last use, at most once, and in the end unless the worker hangs for ever.
- `ShutdownIsBounded`: shutdown ends even beside a hung worker.
- `TroubleIsNamed`: a worker that has died, or hangs in a cycle, is from some point on reported
  as that and as nothing else.

**Bounds.** A queue and page of one with two users is the smallest instance in which a hint
overflows, a page excludes somebody and the cursor has to walk, park and restart. Two mutations of
one user are the least that let a second request overtake the first, mark an observed marker again,
and reuse a deleted row's generation; two windows the least that let one user's acknowledgement be
stale for one row and not for the other. One fault reaches every `except` of the code; what several
faults can do to safety is covered by the proofs, which have no bounds. For the projection, three
weeks let the clock skip one between two reads, three keys and a page of one make the baseline
resume twice, two mutations overtake a page in hand or a marker observed, a seed and a mutation
leave a window unmarked and mark it again, and an empty and a non-empty payload tell a correction
from a repetition. Its two runs have one user each; the step of the cursor from one user's last
week to the next user's first is covered by the proofs, which take `User` and its order as
parameters. For `Bookmarks`, three writes are a create, a delete and a create that reuses the
identifier, or a create and two PATCHes of it, between any two reads of two requests; a page of one
makes a walk of two or three pages. A stale request that meets a reused identifier takes a fourth
write, its own: that case is the `WrongWindow` run's, and `TypeOK`, the walk and `PatchesMerge`
were proved for any number. For `RateLimit`, one client more than the table has room for, and two
seconds (one window, and the idle time) let a bucket be emptied, evicted and come back, and a level
be a rounding short of a request; three identities of which two conflict with the third are the
fewest that can violate each constraint by itself, and one fixture is enough for it to be found,
missing, planted and changed. The limiter alone was checked with two requests per three seconds
before it was proved for every instance. For `Readiness`, one tick of staleness and of lag tell
every comparison's two sides; ages saturate, so nothing else is bounded.

**Fairness.** `WF(Worker)`: the thread runs until the process ends, and its loop waits for a
finite interval. `WF(FullIntervalPasses)`: time passes. `WF(Announce)`, `WF(Enqueue \/ Overflow)`,
`WF(RecordLoss)`: a request that committed goes on. Nothing forces a mutation or a fault, or the
clock of `WeeklyProjection`, and no strong fairness is assumed. In `Readiness`, `WF` of the
lifespan's steps and of the worker's steps outside a cycle (both threads are scheduled, every wait
has a timeout), `WF(TimePasses)`, and of the steps that end an evaluation begun; none of the end
of a cycle, a probe, or a request to stop. Only finitely many mutations and faults happen, so
convergence is stated for the time after them.

## 4. Disagreements between documents and code

1. `LostHint`. The docstring of `acknowledge_full_reconciliation` promises to "clear suspicion
   only if no newer failure occurred during reconciliation". A reconciliation spans one cycle
   per page of users, and each cycle reads the epoch anew; a hint lost during an earlier page,
   for a user already passed, does not stop the last page from clearing the demand. It takes
  no second page of users either: a scan that reached the last user with a backlog left stays
  parked there, and the next cycle clears the demand on an empty page. `ScanRecovers` proves
  that it happens to users behind the cursor only.
2. `FailedHint`. ADR-004: a failed refresh "keeps affected user IDs pending for retry". A user
   known from a hint only is dropped when its refresh fails in a cycle that is not full.
   `RacesAreRetried` proves that this takes an exception: losing a race never drops a user.
3. `NoProjection`. ADR-004: "durable dirty-marker polling is the recovery authority". With the
   projection disabled completed markers are never deleted, fill the oldest page, keep the
   backlog from emptying and the cursor from restarting; a user beyond the page whose hint is
   lost gets no snapshot again. (Answers stay correct: they are live.) `NoProjectionNoEnd` proves
   the cause: once a reconciliation is due beside such a backlog it is due for ever, restarts
   included.
4. `WrongWindow`. ADR-005: "Every stats-affecting mutation must identify and mark the correct
   original window", and ADR-004 has every material mutation mark its own window in its
   transaction, which for a delete "is derived before the bookmark row is removed". `patch` and
   `delete` mark the week of the row they read before their transaction, and write to the row that
   has the identifier by then. If the bookmark is deleted meanwhile and SQLite gives its identifier
   to another of the same user, the write changes the new bookmark's window and marks the old
   one's. The run does so in four writes. `WindowsAreMarked` proves that this is the only way to a
   wrong mark and that the mark is at least of the same user, `SerialWindowsAreMarked` that it
   takes two requests at once. `WeeklyProjection` has the consequence: the window lags, and nobody
   knows.

Observed while modelling, without a run of their own: of two seed commands that run at once on a
database with the seed's account but without a fixture, each may find the fixture missing and
insert it, and later seeds then refuse (the model has one seed at a time); the seed marks no
window, so neither the snapshots nor the projection learn of its bookmarks from it
(`WeeklyProjection` has this, as `missed`; no document promises that a seed is seen by a running
service); of two concurrent PATCHes the one with the earlier reading of the clock may commit last
and take `updated_at` back, as `next_updated_at`, which is to "advance an update timestamp
monotonically, even for repeated/backward clocks", is computed from the row read before the
transaction (`service.py:197`; `SerialUpdatesAdvance` proves that it takes two); Retry-After may
name a second more or less than needed, as the float quotient it rounds up is off in its last
digit; a client that registers the seed's identity first owns the account the seed then fills;
after a failed *first* cycle `_initial_success` stays false and every answer is live for the life
of the process, although readiness turns ready; a resumed baseline step writes an empty revision 1
for a week whose only bookmark is deleted after the page was read (`Faithful` holds: that is what
survives); an evaluation that read the clock before the worker recorded a cycle answers
`clock_invalid` once; and transition records are logged outside the lock and may appear out of
order.

## 5. Proofs

`CurrentStatsProofs` proves, for every `User`, `Window`, `Stamp`, capacity and bound that
satisfies the modules' named assumptions:

| Theorem | Statement |
|---|---|
| `TypeCorrect` | `Spec => []TypeOK` |
| `AnswersAreFresh` | `Spec => []FreshReads` |
| `InvariantHolds` | `Spec => []IInv` |
| `WorkIsDurable` | `Spec => []DurableWork` |
| `PipelineIsACache` | `Spec => ImplementsSnapshotCache` |
| `SnapshotsOnlyAdvance` | `Spec => SnapshotsAdvance`: no snapshot is replaced by one that misses what an earlier one had |
| `ScanRecovers` | `Spec => ScanRecovered`: what `ClearedMeansRecovered` asks, of the users from the cursor on |
| `RacesAreRetried` | `Spec => []RacesKeepPending`: what `FailedUsersStayPending` asks, until something raises |
| `NoProjectionNoEnd` | `~ProjectionEnabled => (Spec => NeverReconciled)` |

The argument. `TypeOK` needs that a user is in hand while `_refresh_user` runs (`UserInHand`).
`FreshReads` needs `FreshInv`: records and the epoch in hand are never newer than the store's
epoch (`RecordsOld`, `InHand`), visible records lack only unannounced mutations
(`RecordsFresh`), and so does the candidate *while its epoch stands* (`CandidateFresh`). An
announcement removes a mutation from the unannounced ones but moves the epoch, so both
implications become vacuous for its user; a publication checks the epoch, so it turns
`CandidateFresh` into `RecordsFresh`.

`DurableWork` needs `DurableInv`: a marker observed and not yet acknowledged can only have been
marked again (`ObservedOld`: this is why a reused generation does no harm, as rows are deleted
by the worker alone), if it was not then the candidate covers its window (`ObservedCovered`),
once acknowledged it is locked until the commit (`AcknowledgedHeld`), and the commit follows
the installation (`CommitCovered`).

The refinement sends `Mutate`, `Announce`, `PublishSnapshot`, `CommitRaises` and `Crash` to
`Commit`, `Announce`, `Fill`, `Drop` and `Restart` of `SnapshotCache`, every other step to a
stutter. Each invariant is proved by one step per action; the lemmas `FreshOutside`,
`FreshElsewhere`, `DurableOutside`, `DurableElsewhere`, `DurableLeave` and `CacheStutters`
dispose of the actions that cannot disturb it. `IInv` was checked by TLC on the instance of
`CurrentStatsWindows` and on one with two users before it was proved.

Four more theorems draw the line around what the code does not keep. `ScanRecovers` needs
`RecoveryInv`: while no loss is recorded, whoever of the page is through and not given up has a
visible snapshot, or is hinted, or has its request still to hint it (`PageAccounted`); between
installation and commit an announcement may hide the snapshot, and then hints the user
(`CommitVisible`). The publisher refuses to clear the demand if a loss moved its epoch, which is
the case `PageAccounted` excludes, and a page that is not full is the last one (`LastPage`).
`RacesAreRetried` needs `RetryInv`: an overtaken marker is pending (`OvertakenPending`), and
whoever moved the epoch of the user in hand also hints it (`EpochHinted`): the two ways to lose a
race each leave a trace that outlives the cycle. `SnapshotsOnlyAdvance` needs `NewestInv`: nothing
installed is newer than the statistics in hand, as only the worker installs and it reads anew for
each candidate. `NoProjectionNoEnd` needs `NeverProjected`: no marker is ever completed by the
projection, so none is deleted (`RowsStay`) and the empty backlog that would end the reconciliation
never comes. TLC agreed with each of these properties on a small instance before it was proved.

`WeeklyProjectionProofs` proves, for every `User`, `Window`, `Stamp`, capacity, payload, version
and bound that satisfies the named assumptions:

| Theorem | Statement |
|---|---|
| `TypeCorrect` | `Spec => []TypeOK` |
| `InvariantHolds` | `Spec => []IInv` |
| `FaithfulAlways` | `Spec => []Faithful` |
| `OneLifecycleAlways` | `Spec => []OneLifecycle` |
| `BoundaryAtomicAlways` | `Spec => BoundaryIsAtomic` |
| `MismatchFreezesAlways` | `Spec => MismatchFreezes` |
| `HistoryImplemented` | `Spec => ImplementsDevelopedHistory` |

The argument. `ClockInv`: the clock a transaction read is never ahead, so a window it finds
closed is closed (`ClockRead`), only weeks closed by that reading have points (`PointsClosed`: an
open window in hand can have a developing row without becoming both), a row being finalised
belongs to such a week (`OverdueClosed`), and a page is persisted by the process that passed the
version gate (`StateWritten`). `BaselineInv`: nothing is stored ahead of the cursor
(`AheadEmpty`), the page in hand lies ahead (`PageAhead`), and a window ahead that it passes over
is empty or was marked since the page was read, or changed without being marked (`PageComplete`).
The last is what makes the unprotected read of the page harmless to `Faithful`: a bookmark that
appears behind the page's last entry has marked its window, and that marker outlives the baseline,
or the window is in `missed`. Of requests the proofs need only what `RequestEffect` says: whatever
they change is pending or missed from then on, and nothing pending is settled. `PersistKeeps` then
moves the cursor, by the total order of the pairs; `DevelopKeeps` and `RefreshKeeps` do the
transactions of markers and overdue rows, `OutsideKeeps` everything else. `RowSteps` says what
any step may do to the rows, and the action properties and the step simulation of
`DevelopedHistory` follow from it. `IInv` was checked by TLC on the instance of
`ProjectionWeeks` and on one with two users before it was proved.

`ReadinessProofs` proves, for every `StaleAfter` and `MaxLag`:

| Theorem | Statement |
|---|---|
| `TypeCorrect` | `Spec => []TypeOK` |
| `InvariantHolds` | `Spec => []IInv` |
| `EngineOutlivesWorker` | `Spec => []DisposedAfterUse` |
| `EngineDisposedOnce` | `Spec => []DisposedOnce` |
| `TroubleIsNamedAtOnce` | `Spec => TroubleNamedAtOnce`: a dead or hung worker is named by every evaluation that gets to read its state |
| `ReadyIsEarned` | `Spec => ReadyEarned`: what an evaluation that finds the worker in order has seen |

The argument. Neither property is inductive: both depend on which thread may still dispose of the
engine. Until the lifespan is over nobody has (`Undecided`); it does so itself only if there is no
worker any more (`DisposeAlone`, `NoWorkerYet`); what it leaves to the worker is left before the
worker takes its callbacks (`LeftInTime`, `ExitedOnceTaken`) and stays in the worker's hands
until they run (`TakenHeld`). Time and the evaluations touch none of this
(`DisposalElsewhere`). `TypeOK` needs the same facts: they keep the counts of disposals within
their type. The last two are about the order of the tests in `_enabled_reason`: a reason is the
right one because the fields that earlier tests read cannot mislead, which is `HealthInv`. Whoever
is in a cycle is recorded as running, and initial exactly until its first ends (`RunningKnown`);
who never succeeded is failing (`NeverMeansFailing`); between cycles a worker that is not failing
succeeded when it last ended one (`SuccessIsLatest`), so that an old success is never blamed
on an idle worker. `TroubleIsNamedAtOnce` is the safety half of `TroubleIsNamed`; that an
evaluation comes is liveness. `IInv` and `HealthInv` were checked by TLC on the instance of
`Readiness` first.

`CurrentStatsProofs` and `WeeklyProjectionProofs` also prove `Spec => ImplementsSharedWork`
(`SharesWithProjection`, `SharesWithCurrent`). `DirtyMarkersProofs` says what each operation on the
table takes from whom (`AcknowledgedOwes`: also a row that is deleted owes nobody but the consumer
that acknowledges); the two modules then only name the operation each action performs (`Shares`).
`ReadinessIsTruthful` (`Spec => []ReadyMeansExact`) follows from `IInv`: in an active projection
`Faithful` leaves a window that was marked only a pending marker as an excuse, so a closed one with
bookmarks and no point would have to have a working row, and that row would be overdue.

`BookmarksProofs` proves, for every `User`, `Request`, `Value`, `Time`, week and page size:

| Theorem | Statement |
|---|---|
| `TypeCorrect` | `Spec => []TypeOK` |
| `NothingTwice` | `Spec => []WalkRepeatsNothing` |
| `NothingLeftOut` | `Spec => []WalkSkipsNothing` |
| `WindowsAreMarked` | `Spec => [][Marks]_vars`: what is left of `ChangesMarkTheirWindow` |
| `PatchesDoMerge` | `Spec => PatchesMerge` |
| `SerialWindowsAreMarked` | `OneAtATime => (Spec => ChangesMarkTheirWindow)` |
| `SerialUpdatesAdvance` | `OneAtATime => (Spec => UpdatesAdvance)` |

The argument. The invariant is `BInv`. A row's `created` and `born` never change and `born` is
unique (`Births`), so it makes sense to say that nothing the walk has shown lies beyond its cursor
(`Behind`), and that whatever stayed and was not shown does (`Ahead`); the two are what
`WalkRepeatsNothing` and `WalkSkipsNothing` lack to be inductive. A page is cut at its lowest key:
keys are totally ordered (`KeysAreOrdered`), so the page lies above it and the rest of the rows
below (`PageParts`). A row created meanwhile has a new `born` and owes the walk nothing; one that
is edited out of the filter leaves `stay`. `Marks` (a step changes bookmarks of one user and marks
a window of that user, the very one unless the bookmark read was replaced by the one written) and
`PatchesMerge` are proved for each kind of write along with the invariant (`Good`): the write asks
for the owner again, and writes only what the patch changes; and what a request remembers of its
bookmark's owner and week is so for as long as that bookmark exists (`Remembered`), so the marker
it writes is wrong only if the bookmark was replaced.

`OneAtATime` says that at most one PATCH or DELETE is under way, beside any creates and walks
(`Request` has one element at most). Then what the request under way read is what it will meet
(`UpToDate`): its row stays, as only a PATCH or DELETE changes or removes one. Both theorems follow.
Read with the run that violates `ChangesMarkTheirWindow`, they say that the unprotected read matters
for two overlapping requests and in no other way.

`RateLimitProofs` proves, for every set of keys, capacity, window, bound and idle time the code
accepts, and for every grid and every rounding smaller than its grain:

| Theorem | Statement |
|---|---|
| `TypeCorrect` | `Spec => []TypeOK` |
| `RetryAfterClose` | `Spec => []RetryAfterIsClose` |
| `ImplementsBuckets` | `Spec => ImplementsTokenBucket` |
| `RareReports` | `Spec => ReportsAreRare` |

The argument. Every request that finds its bucket refills it (`Refreshed`), so a bucket's level
is a function of when it was last seen, and the code finds it within a rounding of that
(`RefillsNearLevel`); one idle long enough to be evicted is full by then, as
the idle time is at least a window (`IdleIsFull`): a fresh bucket is the same. A bucket knows its
key's last report, or that was a window ago (`Remembered`). A rejection for lack of tokens leaves
the bucket that its Retry-After was computed from, with some error (`Justified`), and rounding up a
quotient gives the least number of seconds that covers what is divided (`SecondsUntilIsLeast`): one
rounding more or less than what is missing. As a rounding is less than a second's refill, two
seconds sooner it is not covered.

`AccessProofs` proves about `Access`, for every set of clients, identities and fixtures and every
limiter:

| Theorem | Statement |
|---|---|
| `AccountsCorrect` | `AccessSpec => []AccountsTypeOK` |
| `TokensCorrect` | `AccessSpec => []TokensNameTheirHolder` |
| `SeedIsWhole` | `AccessSpec => SeedIsAtomic` |
| `LimiterUnchanged` | `AccessSpec => Spec` (of `RateLimit`) |
| `LimiterPromises` | and so what is proved of `RateLimit` |

The argument. `AInv`: at most one account is staged, under an identifier nobody has
(`StagedNew`); what a registration has staged is its client's and carries the identifier of its
token (`StagedOwn`); an answer under way names an account that exists and is its client's or the
seed's (`SubjectsOwn`), and accounts stay (`Kept`). So the token of a registration that is rolled
back is in nobody's hands when its identifier is given again. `TInv`: a staged identity is free
until it is committed, as nobody else can stage one. `SInv`: while the seed goes through its
fixtures its account is there or staged (`HasAccount`), and each fixture no request has touched
is still to be read, or absent and missing or planted, or as it should be (`Seen`).

Model-checked only are the liveness properties (`EventuallyAcknowledged`, `SnapshotsConverge`,
`ReconciliationCompletes`, `EventuallyProjected`, `EventuallyReady`, `EventuallyDeveloped`,
`ShutdownIsBounded`, `EventuallyDisposed` and `TroubleIsNamed` as far as it is not
`TroubleIsNamedAtOnce`): TLAPS does not reason about fairness and `ENABLED`. Every invariant and
every other action property or refinement a passing run checks is stated by a theorem.

## 6. Not modelled

- `store.invalidate` raising inside `publish`: with a valid user identifier it cannot.
- The second instance of the rate limiter, the bookmark policy: it shares nothing with the first,
  and the theorems about `RateLimit` hold of either. That a token's subject, once authenticated,
  is charged there is left to `End`.
- Two seed commands at once: see the observation in section 4.
- Canonicalisation of identities, password hashing, token and cursor signatures: functions
  without state, taken as given.
- HTTP, schemas, error mapping, migrations, logging, and the values of statistics.
- SQLite itself: a transaction is atomic, its reads see one snapshot, one writer at a time, and
  the identifiers of `INTEGER PRIMARY KEY` without `AUTOINCREMENT` are reused.

## 7. What is open

1. `Bookmarks` shown to implement the `Mutate` of `CurrentStats`, and `Mutate` or `MutateReplaced`
   of `WeeklyProjection`. `WindowsAreMarked` is what the second rests on: each write marks the
   window of the row it changes, or that of a deleted row of the same user if that was the one
   read. What is left is to compose them.
2. A composition of both consumers with the details of each. `ImplementsSharedWork` on either side
   says what such a composition would rest on.
3. Two seeds at once, with a property that says what their second run must leave alone.
