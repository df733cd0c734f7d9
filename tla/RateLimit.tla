------------------------------- MODULE RateLimit -------------------------------
(***************************************************************************)
(* One policy's bounded table of token buckets (api/rate_limit.py).  The   *)
(* lock makes consume one step.  Tokens are floats: they are counted in    *)
(* units of a grid finer than the exact levels need, and whatever the code *)
(* computes by a product or a quotient is up to Rounding units off.        *)
(***************************************************************************)
EXTENDS Integers, FiniteSets

CONSTANTS
    Key,
    Capacity,           \* requests per window
    WindowSeconds,
    MaxKeys,
    IdleTtl,
    Grain,              \* units in a WindowSeconds-th of a token
    Rounding,           \* the most units one computed float is off
    MaxTime             \* bound: seconds

ASSUME CapacityAssumption == Capacity \in Nat \ {0} /\ WindowSeconds \in Nat \ {0}
ASSUME TableAssumption == MaxKeys \in Nat \ {0} /\ IsFiniteSet(Key)
ASSUME IdleAssumption == IdleTtl \in Nat /\ IdleTtl >= WindowSeconds
ASSUME RoundingAssumption == Grain \in Nat \ {0} /\ Rounding \in Nat /\ Rounding < Grain
ASSUME BoundAssumption == MaxTime \in Nat

Cost == Grain * WindowSeconds       \* one token
Rate == Grain * Capacity            \* _refill_rate, in units
Full == Capacity * Cost
Errors == (-Rounding)..Rounding
Never == -1             \* no rejection event so far

VARIABLES
    now,                \* the monotonic clock
    entries,            \* _entries: key -> bucket
    saturatedAt,        \* _last_capacity_rejection_event_at
    answer,             \* the last decision
    reported            \* history: when a rejection of a key was last reported

vars == <<now, entries, saturatedAt, answer, reported>>

Entry == [tokens : 0..Full, refilledAt : Nat, lastSeen : Nat, rejectedAt : Nat \cup {Never}]
Answer == [key : Key, allowed : BOOLEAN, retryAfter : Nat, exhausted : BOOLEAN]

--------------------------------------------------------------------------------
(***************************************************************************)
(* Buckets.                                                                *)
(***************************************************************************)

Least(a, b) == IF a <= b THEN a ELSE b
Greatest(a, b) == IF a >= b THEN a ELSE b

\* What a bucket is to hold at a time.
LevelAt(e, t) == Least(Full, e.tokens + (t - e.refilledAt) * Rate)

\* _refill: what the code finds there, a computed level once time has passed.
Refills(e) ==
    IF now = e.refilledAt
    THEN {e.tokens}
    ELSE {Least(Full, e.tokens + (now - e.refilledAt) * Rate + r) : r \in Errors}

\* Wrong on purpose: a bucket is idle once it has been quiet for half the time.
IdleEarly(e) == 2 * (now - e.lastSeen) >= IdleTtl

Idle(e) == now - e.lastSeen >= IdleTtl

Live == {k \in DOMAIN entries : ~Idle(entries[k])}

NewEntry == [tokens |-> Full, refilledAt |-> now, lastSeen |-> now, rejectedAt |-> Never]

Refilled(e) ==
    {[e EXCEPT !.tokens = n, !.refilledAt = now, !.lastSeen = now] : n \in Refills(e)}

\* Wrong on purpose: rounded down.
WholeSecondsUntil(units) == Greatest(1, units \div Rate)

\* The whole seconds until so many units more are there, at least one.
SecondsUntil(units) == Greatest(1, (units + Rate - 1) \div Rate)

\* Wrong on purpose: the window since the last event is not looked at.
EventDueAlways(last) == last \in Nat \cup {Never}

EventDue(last) == last = Never \/ now - last >= WindowSeconds

--------------------------------------------------------------------------------
(***************************************************************************)
(* consume: idle buckets go first, whatever the request.                   *)
(***************************************************************************)

\* The table after the request of k, which leaves it the bucket e.
Keep(k, e) == entries' = [q \in Live \cup {k} |-> IF q = k THEN e ELSE entries[q]]

\* What a request of k may find in its bucket, remembered or new.
Buckets(k) == IF k \in Live THEN Refilled(entries[k]) ELSE {NewEntry}

\* Wrong on purpose: one key more than the bound.
RoomForOneMore(k) == k \in Live \/ Cardinality(Live) <= MaxKeys

HasRoom(k) == k \in Live \/ Cardinality(Live) < MaxKeys

Allow(k) ==
    /\ HasRoom(k)
    /\ \E b \in Buckets(k) :
          /\ b.tokens >= Cost
          /\ Keep(k, [b EXCEPT !.tokens = @ - Cost])
    /\ answer' = [key |-> k, allowed |-> TRUE, retryAfter |-> 0, exhausted |-> FALSE]
    /\ UNCHANGED <<now, saturatedAt, reported>>

Reject(k) ==
    /\ HasRoom(k)
    /\ \E b \in Buckets(k), r \in Errors :
          /\ b.tokens < Cost
          /\ Keep(k, IF EventDue(b.rejectedAt) THEN [b EXCEPT !.rejectedAt = now] ELSE b)
          /\ answer' = [key |-> k, allowed |-> FALSE,
                        retryAfter |-> SecondsUntil(Cost - b.tokens + r),
                        exhausted |-> FALSE]
          /\ reported' = IF EventDue(b.rejectedAt) THEN [reported EXCEPT ![k] = now]
                                                   ELSE reported
    /\ UNCHANGED <<now, saturatedAt>>

RejectUnseen(k) ==
    /\ ~HasRoom(k)
    /\ entries' = [q \in Live |-> entries[q]]
    /\ saturatedAt' = IF EventDue(saturatedAt) THEN now ELSE saturatedAt
    /\ \E r \in Errors :
          answer' = [key |-> k, allowed |-> FALSE, retryAfter |-> SecondsUntil(Cost + r),
                     exhausted |-> TRUE]
    /\ UNCHANGED <<now, reported>>

Tick ==
    /\ now < MaxTime
    /\ now' = now + 1
    /\ UNCHANGED <<entries, saturatedAt, answer, reported>>

--------------------------------------------------------------------------------
Init ==
    /\ now = 0
    /\ entries = [k \in {} |-> NewEntry]
    /\ saturatedAt = Never
    /\ \E k \in Key : answer = [key |-> k, allowed |-> TRUE, retryAfter |-> 0,
                                exhausted |-> FALSE]
    /\ reported = [k \in Key |-> Never]

Consume(k) == Allow(k) \/ Reject(k) \/ RejectUnseen(k)

Next == Tick \/ \E k \in Key : Consume(k)

Spec == Init /\ [][Next]_vars

--------------------------------------------------------------------------------
(***************************************************************************)
(* Properties.                                                             *)
(***************************************************************************)

\* The table keeps to its bound, every level to the bucket's capacity.
TypeOK ==
    /\ now \in 0..MaxTime
    /\ DOMAIN entries \subseteq Key /\ Cardinality(DOMAIN entries) <= MaxKeys
    /\ \A k \in DOMAIN entries : entries[k] \in Entry
    /\ saturatedAt \in Nat \cup {Never}
    /\ answer \in Answer
    /\ reported \in [Key -> Nat \cup {Never}]

\* Forgetting idle keys and refusing unseen ones at the bound give nobody more
\* than a bucket of his own would: through the level a key has, remembered or
\* not, the table implements one TokenBucket per key, which a request finds within
\* a rounding of its exact level (ADR-007).
Level(k) == IF k \in DOMAIN entries THEN LevelAt(entries[k], now) ELSE Full

Bucketed == INSTANCE TokenBucket WITH
    Refill <- Rate,
    Slack <- Rounding,
    level <- [k \in Key |-> Level(k)]

ImplementsTokenBucket == Bucketed!Spec

\* Retry-After names the first whole second at which the request will be covered,
\* if a rounding decides for it: then it is covered up to that rounding, a second
\* sooner it was not beyond it, and two seconds sooner it was not at all.
RetryAfterIsClose ==
    LET e == entries[answer.key]
        Then(n) == LevelAt(e, e.refilledAt + answer.retryAfter - n)
    IN  ~answer.allowed /\ ~answer.exhausted =>
            /\ Then(0) >= Cost - Rounding
            /\ Then(1) < Cost + Rounding \/ answer.retryAfter = 1
            /\ answer.retryAfter > 1 => Then(2) < Cost

\* A key's rejections are reported at most once per window, although an evicted
\* bucket takes the time of its last report with it.
ReportsAreRare ==
    [][\A k \in Key :
          reported'[k] # reported[k] =>
              reported[k] = Never \/ now - reported[k] >= WindowSeconds]_vars

================================================================================
