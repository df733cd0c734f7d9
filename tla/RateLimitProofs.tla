---------------------------- MODULE RateLimitProofs ----------------------------
(***************************************************************************)
(* What RateLimit's runs check, proved for any keys, quota and bounds.     *)
(***************************************************************************)
EXTENDS RateLimit, FiniteSetTheorems, TLAPS

--------------------------------------------------------------------------------
(***************************************************************************)
(* The inductive invariant.                                                *)
(***************************************************************************)

\* Every request that finds its bucket refills it.
Refreshed ==
    \A k \in DOMAIN entries :
        /\ entries[k].refilledAt = entries[k].lastSeen
        /\ entries[k].lastSeen <= now

\* The last report of k is a window ago.
Quiet(k) == reported[k] = Never \/ now - reported[k] >= WindowSeconds

\* A bucket knows its key's last report, unless that is long enough ago.
Remembered ==
    /\ \A k \in DOMAIN entries :
          /\ reported[k] <= entries[k].lastSeen
          /\ \/ entries[k].rejectedAt = reported[k]
             \/ entries[k].rejectedAt = Never /\ Quiet(k)
    /\ \A k \in Key \ DOMAIN entries : Quiet(k)

\* A rejection for lack of tokens leaves the bucket it was computed from.
Justified ==
    ~answer.allowed /\ ~answer.exhausted =>
        /\ answer.key \in DOMAIN entries
        /\ entries[answer.key].tokens < Cost
        /\ \E r \in Errors :
              answer.retryAfter = SecondsUntil(Cost - entries[answer.key].tokens + r)

IInv == TypeOK /\ Refreshed /\ Remembered /\ Justified

--------------------------------------------------------------------------------
(***************************************************************************)
(* Arithmetic.                                                             *)
(***************************************************************************)

LEMMA ProductOfNats == ASSUME NEW a \in Nat, NEW b \in Nat PROVE a * b \in Nat
  OBVIOUS

LEMMA ProductsGrow ==
    ASSUME NEW a \in Nat, NEW b \in Nat, NEW c \in Nat, a <= b
    PROVE  a * c <= b * c
  <1>1. PICK d \in Nat : b = a + d
    <2>1. b - a \in Nat /\ b = a + (b - a)
      OBVIOUS
    <2> QED  BY <2>1
  <1>2. b * c = a * c + d * c
    BY <1>1
  <1>3. d * c \in Nat /\ a * c \in Nat
    BY ProductOfNats
  <1> QED  BY <1>2, <1>3

LEMMA FullBounds ==
    /\ Full \in Nat
    /\ Cost \in Nat \ {0} /\ Cost <= Full
    /\ Rate \in Nat \ {0}
    /\ \A d \in Nat : d >= WindowSeconds => d * Rate >= Full
  <1>1. Capacity \in Nat /\ WindowSeconds \in Nat /\ Grain \in Nat
        /\ 1 <= Capacity /\ 1 <= WindowSeconds /\ 1 <= Grain
    BY CapacityAssumption, RoundingAssumption
  <1>2. Cost \in Nat /\ 1 * WindowSeconds <= Cost
    BY <1>1, ProductOfNats, ProductsGrow DEF Cost
  <1>3. Rate \in Nat /\ 1 * Capacity <= Rate
    BY <1>1, ProductOfNats, ProductsGrow DEF Rate
  <1>4. Full \in Nat /\ 1 * Cost <= Full
    BY <1>1, <1>2, ProductOfNats, ProductsGrow DEF Full
  <1>5. WindowSeconds * Rate = Full
    BY <1>1 DEF Full, Rate, Cost
  <1>6. ASSUME NEW d \in Nat, d >= WindowSeconds PROVE d * Rate >= Full
    <2>1. WindowSeconds * Rate <= d * Rate
      BY <1>1, <1>3, <1>6, ProductsGrow
    <2>2. d * Rate \in Nat
      BY <1>3, ProductOfNats
    <2> QED  BY <1>4, <1>5, <2>1, <2>2
  <1> QED  BY <1>1, <1>2, <1>3, <1>4, <1>6

\* One error is smaller than what a second refills.
LEMMA ErrorBounds ==
    /\ Rounding \in Nat /\ Rounding < Rate
    /\ \A r \in Errors : r \in Int /\ -Rounding <= r /\ r <= Rounding
  <1>1. Capacity \in Nat /\ 1 <= Capacity /\ Grain \in Nat /\ Rounding \in Nat
        /\ Rounding < Grain
    BY CapacityAssumption, RoundingAssumption
  <1>2. 1 * Grain <= Capacity * Grain
    BY <1>1, ProductsGrow
  <1>3. Capacity * Grain = Rate
    BY <1>1 DEF Rate
  <1>4. Rounding < Rate
    BY <1>1, <1>2, <1>3, FullBounds
  <1> QED  BY <1>1, <1>4 DEF Errors

\* Rounding up: the least number of whole seconds whose refill covers the units.
LEMMA SecondsUntilIsLeast ==
    ASSUME NEW units \in Int, -Rate < units
    PROVE  /\ SecondsUntil(units) \in Nat \ {0}
           /\ SecondsUntil(units) * Rate >= units
           /\ SecondsUntil(units) = 1 \/ (SecondsUntil(units) - 1) * Rate < units
  <1> DEFINE q == (units + Rate - 1) \div Rate
  <1>1. Rate \in Nat /\ 1 <= Rate
    BY FullBounds
  <1>2. /\ q \in Int
        /\ q * Rate <= units + Rate - 1
        /\ units + Rate - 1 < (q + 1) * Rate
    <2> DEFINE n == units + Rate - 1
    <2>1. n \in Nat
      BY <1>1
    <2>2. n \div Rate \in Int
          /\ n = Rate * (n \div Rate) + (n % Rate)
          /\ n % Rate \in 0..Rate - 1
      BY <1>1, <2>1
    <2>3. Rate * (n \div Rate) = (n \div Rate) * Rate
          /\ (n \div Rate + 1) * Rate = (n \div Rate) * Rate + Rate
      BY <1>1, <2>2
    <2>4. (n \div Rate) * Rate \in Int
      BY <1>1, <2>2
    <2> HIDE DEF n
    <2>5. n \div Rate = q
      BY DEF n
    <2>6. n = units + Rate - 1
      BY DEF n
    <2> HIDE DEF q
    <2> QED  BY <1>1, <2>1, <2>2, <2>3, <2>4, <2>5, <2>6
  <1> HIDE DEF q
  <1>3. (q + 1) * Rate = q * Rate + Rate /\ q * Rate \in Int
        /\ (q - 1) * Rate = q * Rate - Rate /\ 1 * Rate = Rate
    BY <1>1, <1>2
  <1>4. SecondsUntil(units) = Greatest(1, q)
    BY DEF SecondsUntil, q
  <1>5. CASE q >= 1
    <2>1. SecondsUntil(units) = q
      BY <1>2, <1>4, <1>5 DEF Greatest
    <2> QED  BY <1>1, <1>2, <1>3, <1>5, <2>1
  <1>6. CASE q <= 0
    <2>1. SecondsUntil(units) = 1
      BY <1>2, <1>4, <1>6 DEF Greatest
    <2>2. -q \in Nat
      BY <1>2, <1>6
    <2>3. (-q) * Rate \in Nat /\ (-q) * Rate = -(q * Rate)
      BY <1>1, <1>2, <2>2, ProductOfNats
    <2> QED  BY <1>1, <1>2, <1>3, <2>1, <2>3
  <1> QED  BY <1>2, <1>5, <1>6

\* Whatever the error, a computed delay is a second or more.
LEMMA DelaysArePositive ==
    ASSUME NEW units \in Nat, NEW r \in Errors
    PROVE  /\ units + r \in Int /\ -Rate < units + r
           /\ SecondsUntil(units + r) \in Nat \ {0}
  <1>1. units + r \in Int /\ -Rate < units + r
    BY ErrorBounds, FullBounds
  <1> QED  BY <1>1, SecondsUntilIsLeast

--------------------------------------------------------------------------------
(***************************************************************************)
(* Buckets.                                                                *)
(***************************************************************************)

LEMMA LevelWithinCapacity ==
    ASSUME NEW e \in Entry, NEW t \in Nat, e.refilledAt <= t
    PROVE  /\ LevelAt(e, t) \in 0..Full
           /\ LevelAt(e, t + 1) = Least(Full, LevelAt(e, t) + Rate)
  <1> DEFINE gain == (t - e.refilledAt) * Rate
  <1>1. Rate \in Nat /\ Full \in Nat /\ e.tokens \in 0..Full /\ e.refilledAt \in Nat
    BY FullBounds DEF Entry
  <1>2. t - e.refilledAt \in Nat
    BY <1>1
  <1>3. gain \in Nat
    BY <1>1, <1>2, ProductOfNats
  <1>4. ((t + 1) - e.refilledAt) * Rate = gain + Rate
    <2>1. (t + 1) - e.refilledAt = (t - e.refilledAt) + 1
      BY <1>1
    <2>2. \A d \in Nat : (d + 1) * Rate = d * Rate + Rate
      BY <1>1
    <2> QED  BY <1>2, <2>1, <2>2
  <1>5. LevelAt(e, t) = Least(Full, e.tokens + gain)
        /\ LevelAt(e, t + 1) = Least(Full, e.tokens + (gain + Rate))
    BY <1>4 DEF LevelAt
  <1> HIDE DEF gain
  <1> QED  BY <1>1, <1>3, <1>5 DEF Least

LEMMA IdleIsFull ==
    ASSUME NEW e \in Entry, now \in Nat, Idle(e), e.refilledAt = e.lastSeen
    PROVE  LevelAt(e, now) = Full
  <1>1. Full \in Nat /\ e.tokens \in 0..Full /\ e.refilledAt \in Nat
    BY FullBounds DEF Entry
  <1>2. now - e.refilledAt \in Nat /\ now - e.refilledAt >= WindowSeconds
    BY <1>1, IdleAssumption, CapacityAssumption DEF Idle
  <1>3. (now - e.refilledAt) * Rate >= Full
    BY <1>2, FullBounds
  <1>4. (now - e.refilledAt) * Rate \in Nat
    BY <1>2, FullBounds, ProductOfNats
  <1> HIDE DEF Full
  <1> QED  BY <1>1, <1>3, <1>4 DEF LevelAt, Least

\* Whoever is not remembered has a full bucket and no recent report.
LEMMA ForgottenIsFull ==
    ASSUME IInv, NEW k \in Key, k \notin Live
    PROVE  Level(k) = Full /\ Quiet(k)
  <1>1. now \in Nat /\ reported \in [Key -> Nat \cup {Never}]
    BY BoundAssumption DEF IInv, TypeOK
  <1>2. CASE k \notin DOMAIN entries
    BY <1>2 DEF Level, IInv, Remembered
  <1>3. CASE k \in DOMAIN entries
    <2>1. entries[k] \in Entry /\ Idle(entries[k])
          /\ entries[k].refilledAt = entries[k].lastSeen
          /\ reported[k] <= entries[k].lastSeen
      BY <1>3 DEF Live, IInv, TypeOK, Refreshed, Remembered
    <2>2. LevelAt(entries[k], now) = Full
      BY <1>1, <2>1, IdleIsFull
    <2>3. entries[k].lastSeen \in Nat /\ reported[k] \in Nat \cup {Never}
      BY <1>1, <2>1 DEF Entry
    <2>4. now - reported[k] >= WindowSeconds
      BY <1>1, <2>1, <2>3, IdleAssumption, CapacityAssumption DEF Idle, Never
    <2> QED  BY <1>3, <2>2, <2>4 DEF Level, Quiet
  <1> QED  BY <1>2, <1>3

\* What a request of k may find there: its level, up to one error.
Near(k) == {n \in 0..Full : Level(k) - Rounding <= n /\ n <= Level(k) + Rounding}

LEMMA RefillsNearLevel ==
    ASSUME NEW e \in Entry, now \in Nat, e.refilledAt <= now, NEW n \in Refills(e)
    PROVE  /\ n \in 0..Full
           /\ LevelAt(e, now) - Rounding <= n /\ n <= LevelAt(e, now) + Rounding
  <1> DEFINE gain == (now - e.refilledAt) * Rate
  <1>1. /\ Full \in Nat /\ Rate \in Nat \ {0} /\ e.tokens \in 0..Full
        /\ e.refilledAt \in Nat
    BY FullBounds DEF Entry
  <1>2. now - e.refilledAt \in Nat
    BY <1>1
  <1>3. LevelAt(e, now) = Least(Full, e.tokens + gain)
    BY DEF LevelAt
  <1>4. CASE now = e.refilledAt
    <2>1. gain = 0 /\ n = e.tokens
      BY <1>1, <1>4 DEF Refills
    <2> QED  BY <1>1, <1>3, <2>1, ErrorBounds DEF Least
  <1>5. CASE now # e.refilledAt
    <2>1. PICK r \in Errors : n = Least(Full, e.tokens + gain + r)
      BY <1>5 DEF Refills
    <2>2. PICK d \in Nat : now - e.refilledAt = 1 + d
      <3>1. (now - e.refilledAt) - 1 \in Nat
            /\ now - e.refilledAt = 1 + ((now - e.refilledAt) - 1)
        BY <1>1, <1>2, <1>5
      <3> QED  BY <3>1
    <2>3. gain = Rate + d * Rate /\ d * Rate \in Nat
      <3>1. \A x \in Nat : (1 + x) * Rate = Rate + x * Rate
        BY <1>1
      <3>2. d * Rate \in Nat
        BY <1>1, ProductOfNats
      <3> QED  BY <2>2, <3>1, <3>2
    <2> HIDE DEF gain
    <2> QED  BY <1>1, <1>3, <2>1, <2>3, ErrorBounds DEF Least
  <1> QED  BY <1>4, <1>5

LEMMA BucketsNearLevel ==
    ASSUME IInv, NEW k \in Key, NEW b \in Buckets(k)
    PROVE  /\ b \in Entry
           /\ b.tokens \in Near(k)
           /\ b.refilledAt = now /\ b.lastSeen = now
           /\ \/ b.rejectedAt = reported[k]
              \/ b.rejectedAt = Never /\ Quiet(k)
  <1>1. now \in Nat /\ Full \in Nat /\ reported \in [Key -> Nat \cup {Never}]
    BY BoundAssumption, FullBounds DEF IInv, TypeOK
  <1>2. CASE k \in Live
    <2>1. k \in DOMAIN entries /\ entries[k] \in Entry /\ entries[k].refilledAt <= now
      BY <1>2 DEF Live, IInv, TypeOK, Refreshed
    <2>2. PICK n \in Refills(entries[k]) :
              b = [entries[k] EXCEPT !.tokens = n, !.refilledAt = now, !.lastSeen = now]
      BY <1>2 DEF Buckets, Refilled
    <2>3. n \in Near(k)
      BY <1>1, <2>1, RefillsNearLevel DEF Near, Level
    <2>4. n \in 0..Full
      BY <2>3 DEF Near
    <2>5. \/ entries[k].rejectedAt = reported[k]
          \/ entries[k].rejectedAt = Never /\ Quiet(k)
      BY <2>1 DEF IInv, Remembered
    <2> QED  BY <1>1, <2>1, <2>2, <2>3, <2>4, <2>5 DEF Entry
  <1>3. CASE k \notin Live
    <2>1. b = [tokens |-> Full, refilledAt |-> now, lastSeen |-> now, rejectedAt |-> Never]
      BY <1>3 DEF Buckets, NewEntry
    <2>2. Level(k) = Full /\ Quiet(k)
      BY <1>3, ForgottenIsFull
    <2>3. Full \in Near(k)
      BY <1>1, <2>2, ErrorBounds DEF Near
    <2> QED  BY <1>1, <2>1, <2>2, <2>3 DEF Entry
  <1> QED  BY <1>2, <1>3

--------------------------------------------------------------------------------
(***************************************************************************)
(* Steps.                                                                  *)
(***************************************************************************)

LEMMA LiveIsBounded ==
    ASSUME IInv
    PROVE  /\ Live \subseteq DOMAIN entries /\ Live \subseteq Key
           /\ IsFiniteSet(Live) /\ Cardinality(Live) <= MaxKeys
           /\ \A k \in Key : HasRoom(k) =>
                 IsFiniteSet(Live \cup {k}) /\ Cardinality(Live \cup {k}) <= MaxKeys
  <1>1. Live \subseteq DOMAIN entries /\ DOMAIN entries \subseteq Key
    BY DEF Live, IInv, TypeOK
  <1>2. IsFiniteSet(DOMAIN entries)
    BY <1>1, TableAssumption, FS_Subset
  <1>3. IsFiniteSet(Live) /\ Cardinality(Live) <= Cardinality(DOMAIN entries)
    BY <1>1, <1>2, FS_Subset
  <1>4. Cardinality(Live) \in Nat /\ Cardinality(DOMAIN entries) \in Nat
        /\ Cardinality(DOMAIN entries) <= MaxKeys /\ MaxKeys \in Nat
    BY <1>2, <1>3, FS_CardinalityType, TableAssumption DEF IInv, TypeOK
  <1>5. Cardinality(Live) <= MaxKeys
    BY <1>3, <1>4
  <1>6. ASSUME NEW k \in Key, HasRoom(k)
        PROVE  IsFiniteSet(Live \cup {k}) /\ Cardinality(Live \cup {k}) <= MaxKeys
    <2>1. CASE k \in Live
      <3>1. Live \cup {k} = Live
        BY <2>1
      <3> QED  BY <3>1, <1>3, <1>5
    <2>2. CASE k \notin Live
      <3>1. Cardinality(Live) < MaxKeys
        BY <1>6, <2>2 DEF HasRoom
      <3>2. IsFiniteSet(Live \cup {k}) /\ Cardinality(Live \cup {k}) = Cardinality(Live) + 1
        BY <1>3, <2>2, FS_AddElement
      <3> QED  BY <1>4, <3>1, <3>2
    <2> QED  BY <2>1, <2>2
  <1> QED  BY <1>1, <1>3, <1>5, <1>6

LEMMA KeepLeaves ==
    ASSUME IInv, NEW k \in Key, NEW e \in Entry, HasRoom(k), Keep(k, e)
    PROVE  /\ DOMAIN entries' = Live \cup {k}
           /\ DOMAIN entries' \subseteq Key /\ Cardinality(DOMAIN entries') <= MaxKeys
           /\ \A q \in DOMAIN entries' : entries'[q] \in Entry
           /\ entries'[k] = e
           /\ \A q \in Live : q # k => entries'[q] = entries[q]
  <1>1. entries' = [q \in Live \cup {k} |-> IF q = k THEN e ELSE entries[q]]
    BY DEF Keep
  <1>2. DOMAIN entries' = Live \cup {k}
    BY <1>1
  <1>3. Live \subseteq Key /\ Live \subseteq DOMAIN entries
        /\ Cardinality(Live \cup {k}) <= MaxKeys
    BY LiveIsBounded
  <1>4. \A q \in DOMAIN entries : entries[q] \in Entry
    BY DEF IInv, TypeOK
  <1>5. entries'[k] = e /\ \A q \in Live : q # k => entries'[q] = entries[q]
    BY <1>1
  <1> QED  BY <1>2, <1>3, <1>4, <1>5

\* A granted or refused request leaves k a bucket refilled now, and as much of the
\* other keys' as they had.
LEMMA RequestKeeps ==
    ASSUME IInv, NEW k \in Key, NEW e \in Entry, HasRoom(k), Keep(k, e), now' = now,
           e.refilledAt = now, e.lastSeen = now,
           reported' \in [Key -> Nat \cup {Never}], reported'[k] <= now,
           e.rejectedAt = reported'[k] \/ (e.rejectedAt = Never /\ Quiet(k)'),
           \A q \in Key : q # k => reported'[q] = reported[q]
    PROVE  /\ DOMAIN entries' \subseteq Key /\ Cardinality(DOMAIN entries') <= MaxKeys
           /\ \A q \in DOMAIN entries' : entries'[q] \in Entry
           /\ Refreshed' /\ Remembered'
           /\ k \in DOMAIN entries' /\ entries'[k] = e
           /\ \A q \in Key : q # k => Level(q)' = Level(q)
  <1>1. now \in Nat
    BY BoundAssumption DEF IInv, TypeOK
  <1>2. /\ DOMAIN entries' = Live \cup {k}
        /\ DOMAIN entries' \subseteq Key /\ Cardinality(DOMAIN entries') <= MaxKeys
        /\ \A q \in DOMAIN entries' : entries'[q] \in Entry
        /\ entries'[k] = e
        /\ \A q \in Live : q # k => entries'[q] = entries[q]
    BY KeepLeaves
  <1>3. Live \subseteq DOMAIN entries
    BY LiveIsBounded
  <1>4. Refreshed'
    BY <1>1, <1>2, <1>3 DEF IInv, Refreshed
  <1>5. \A q \in Key : q # k => (Quiet(q)' <=> Quiet(q))
    BY DEF Quiet
  <1>6. Remembered'
    <2>1. ASSUME NEW q \in DOMAIN entries'
          PROVE  /\ reported'[q] <= entries'[q].lastSeen
                 /\ \/ entries'[q].rejectedAt = reported'[q]
                    \/ entries'[q].rejectedAt = Never /\ Quiet(q)'
      <3>1. CASE q = k
        BY <1>2, <3>1
      <3>2. CASE q # k
        <4>1. q \in Live /\ q \in DOMAIN entries /\ q \in Key /\ entries'[q] = entries[q]
          BY <1>2, <1>3, <2>1, <3>2
        <4> QED  BY <3>2, <4>1, <1>5 DEF IInv, Remembered
      <3> QED  BY <3>1, <3>2
    <2>2. ASSUME NEW q \in Key \ DOMAIN entries' PROVE Quiet(q)'
      <3>1. q # k /\ q \notin Live
        BY <1>2, <2>2
      <3> QED  BY <3>1, <1>5, ForgottenIsFull
    <2> QED  BY <2>1, <2>2 DEF Remembered
  <1>7. ASSUME NEW q \in Key, q # k PROVE Level(q)' = Level(q)
    <2>1. CASE q \in Live
      <3>1. q \in DOMAIN entries' /\ q \in DOMAIN entries /\ entries'[q] = entries[q]
        BY <1>2, <1>3, <1>7, <2>1
      <3> QED  BY <3>1 DEF Level, LevelAt
    <2>2. CASE q \notin Live
      <3>1. q \notin DOMAIN entries'
        BY <1>2, <1>7, <2>2
      <3>2. Level(q) = Full
        BY <2>2, ForgottenIsFull
      <3> QED  BY <3>1, <3>2 DEF Level, Full
    <2> QED  BY <2>1, <2>2
  <1> QED  BY <1>2, <1>4, <1>6, <1>7

LEMMA ReportsPast == ASSUME IInv, NEW k \in Key PROVE reported[k] <= now
  <1>1. now \in Nat /\ reported[k] \in Nat \cup {Never} /\ WindowSeconds \in Nat
    BY BoundAssumption, CapacityAssumption DEF IInv, TypeOK
  <1>2. CASE k \in DOMAIN entries
    <2>1. reported[k] <= entries[k].lastSeen /\ entries[k].lastSeen <= now
          /\ entries[k] \in Entry
      BY <1>2 DEF IInv, TypeOK, Remembered, Refreshed
    <2> QED  BY <1>1, <2>1 DEF Entry, Never
  <1>3. CASE k \notin DOMAIN entries
    <2>1. Quiet(k)
      BY <1>3 DEF IInv, Remembered
    <2> QED  BY <1>1, <2>1 DEF Quiet, Never
  <1> QED  BY <1>2, <1>3

\* Once its request is answered, k's level is what the request left.
LEMMA LevelAfterRequest ==
    ASSUME NEW k \in Key, NEW e \in Entry, now \in Nat, now' = now, e.refilledAt = now,
           k \in DOMAIN entries', entries'[k] = e
    PROVE  Level(k)' = e.tokens
  <1>1. Level(k)' = LevelAt(e, now)
    BY DEF Level, LevelAt
  <1>2. Full \in Nat /\ e.tokens \in 0..Full /\ (now - e.refilledAt) * Rate = 0
    BY FullBounds DEF Entry
  <1> QED  BY <1>1, <1>2 DEF LevelAt, Least

LEMMA AllowStep ==
    ASSUME IInv, NEW k \in Key, Allow(k)
    PROVE  IInv' /\ Bucketed!Grant(k) /\ reported' = reported
  <1>1. PICK b \in Buckets(k) :
            b.tokens >= Cost /\ Keep(k, [b EXCEPT !.tokens = @ - Cost])
    BY DEF Allow
  <1> DEFINE e == [b EXCEPT !.tokens = @ - Cost]
  <1>2. /\ HasRoom(k) /\ Keep(k, e)
        /\ answer' = [key |-> k, allowed |-> TRUE, retryAfter |-> 0, exhausted |-> FALSE]
        /\ now' = now /\ saturatedAt' = saturatedAt /\ reported' = reported
    BY <1>1 DEF Allow
  <1>3. now \in Nat /\ Full \in Nat /\ Cost \in Nat \ {0}
        /\ reported \in [Key -> Nat \cup {Never}]
    BY BoundAssumption, FullBounds DEF IInv, TypeOK
  <1>4. /\ b \in Entry /\ b.tokens \in Near(k)
        /\ b.refilledAt = now /\ b.lastSeen = now
        /\ (b.rejectedAt = reported[k] \/ (b.rejectedAt = Never /\ Quiet(k)))
    BY BucketsNearLevel
  <1>5. /\ e \in Entry /\ e.tokens = b.tokens - Cost
        /\ e.refilledAt = now /\ e.lastSeen = now
        /\ e.rejectedAt = b.rejectedAt
    BY <1>1, <1>3, <1>4 DEF Entry
  <1> HIDE DEF e
  <1>6. reported[k] <= now /\ (Quiet(k)' <=> Quiet(k))
    BY <1>2, ReportsPast DEF Quiet
  <1>7. /\ DOMAIN entries' \subseteq Key /\ Cardinality(DOMAIN entries') <= MaxKeys
        /\ \A q \in DOMAIN entries' : entries'[q] \in Entry
        /\ Refreshed' /\ Remembered'
        /\ k \in DOMAIN entries' /\ entries'[k] = e
        /\ \A q \in Key : q # k => Level(q)' = Level(q)
    <2>1. reported' \in [Key -> Nat \cup {Never}] /\ reported'[k] <= now
          /\ (e.rejectedAt = reported'[k] \/ (e.rejectedAt = Never /\ Quiet(k)'))
          /\ \A q \in Key : q # k => reported'[q] = reported[q]
      BY <1>2, <1>3, <1>4, <1>5, <1>6
    <2> QED  BY <1>2, <1>5, <2>1, RequestKeeps
  <1>8. TypeOK'
    BY <1>2, <1>3, <1>7 DEF IInv, TypeOK, Answer
  <1>9. Justified'
    BY <1>2 DEF Justified
  <1>10. Level(k)' = b.tokens - Cost
    BY <1>2, <1>3, <1>5, <1>7, LevelAfterRequest
  <1>11. Bucketed!Grant(k)
    <2>1. b.tokens \in Bucketed!Read(k)
      BY <1>4 DEF Near, Bucketed!Read
    <2> QED  BY <1>1, <1>7, <1>10, <2>1 DEF Bucketed!Grant
  <1> QED  BY <1>2, <1>7, <1>8, <1>9, <1>11 DEF IInv

LEMMA RejectStep ==
    ASSUME IInv, NEW k \in Key, Reject(k)
    PROVE  /\ IInv'
           /\ Bucketed!Refuse(k)
           /\ \A q \in Key : reported'[q] # reported[q] => Quiet(q)
  <1>1. PICK b \in Buckets(k), r \in Errors :
            /\ b.tokens < Cost
            /\ Keep(k, IF EventDue(b.rejectedAt) THEN [b EXCEPT !.rejectedAt = now] ELSE b)
            /\ answer' = [key |-> k, allowed |-> FALSE,
                          retryAfter |-> SecondsUntil(Cost - b.tokens + r),
                          exhausted |-> FALSE]
            /\ reported' = IF EventDue(b.rejectedAt) THEN [reported EXCEPT ![k] = now]
                                                     ELSE reported
    BY DEF Reject
  <1> DEFINE due == EventDue(b.rejectedAt)
             e == IF due THEN [b EXCEPT !.rejectedAt = now] ELSE b
  <1>2. /\ HasRoom(k) /\ Keep(k, e) /\ now' = now /\ saturatedAt' = saturatedAt
        /\ reported' = IF due THEN [reported EXCEPT ![k] = now] ELSE reported
    BY <1>1 DEF Reject
  <1>3. now \in Nat /\ Full \in Nat /\ Cost \in Nat \ {0}
        /\ reported \in [Key -> Nat \cup {Never}]
    BY BoundAssumption, FullBounds DEF IInv, TypeOK
  <1>4. /\ b \in Entry /\ b.tokens \in Near(k) /\ b.tokens \in 0..Full
        /\ b.refilledAt = now /\ b.lastSeen = now
        /\ (b.rejectedAt = reported[k] \/ (b.rejectedAt = Never /\ Quiet(k)))
    BY BucketsNearLevel DEF Near
  <1>5. due => Quiet(k)
    BY <1>4 DEF EventDue, Quiet
  <1> HIDE DEF due
  <1>6. /\ e \in Entry /\ e.tokens = b.tokens
        /\ e.refilledAt = now /\ e.lastSeen = now
        /\ e.rejectedAt = IF due THEN now ELSE b.rejectedAt
    <2>1. CASE due
      BY <1>3, <1>4, <2>1 DEF Entry
    <2>2. CASE ~due
      BY <1>4, <2>2
    <2> QED  BY <2>1, <2>2
  <1> HIDE DEF e
  <1>7. /\ reported' \in [Key -> Nat \cup {Never}] /\ reported'[k] <= now
        /\ (e.rejectedAt = reported'[k] \/ (e.rejectedAt = Never /\ Quiet(k)'))
        /\ \A q \in Key : q # k => reported'[q] = reported[q]
    <2>1. CASE due
      BY <1>2, <1>3, <1>6, <2>1
    <2>2. CASE ~due
      <3>1. reported' = reported /\ reported[k] <= now
        BY <1>2, <2>2, ReportsPast
      <3>2. Quiet(k)' <=> Quiet(k)
        BY <1>2, <3>1 DEF Quiet
      <3> QED  BY <1>3, <1>4, <1>6, <2>2, <3>1, <3>2
    <2> QED  BY <2>1, <2>2
  <1>8. /\ DOMAIN entries' \subseteq Key /\ Cardinality(DOMAIN entries') <= MaxKeys
        /\ \A q \in DOMAIN entries' : entries'[q] \in Entry
        /\ Refreshed' /\ Remembered'
        /\ k \in DOMAIN entries' /\ entries'[k] = e
        /\ \A q \in Key : q # k => Level(q)' = Level(q)
    BY <1>2, <1>6, <1>7, RequestKeeps
  <1>9. Cost - b.tokens \in Nat
    BY <1>1, <1>3, <1>4
  <1>10. TypeOK'
    <2>1. SecondsUntil(Cost - b.tokens + r) \in Nat
      BY <1>9, DelaysArePositive
    <2>2. answer' \in Answer
      BY <1>1, <2>1 DEF Answer
    <2> QED  BY <1>2, <1>7, <1>8, <2>2 DEF IInv, TypeOK
  <1>11. Justified'
    <2>1. answer'.key = k /\ answer'.retryAfter = SecondsUntil(Cost - b.tokens + r)
      BY <1>1
    <2>2. entries'[k].tokens = b.tokens
      BY <1>6, <1>8
    <2>3. SecondsUntil(Cost - entries'[k].tokens + r) = SecondsUntil(Cost - b.tokens + r)
      BY <2>2
    <2> QED  BY <1>1, <1>8, <2>1, <2>2, <2>3 DEF Justified, SecondsUntil, Greatest
  <1>12. Level(k)' = b.tokens
    BY <1>2, <1>3, <1>6, <1>8, LevelAfterRequest
  <1>13. Bucketed!Refuse(k)
    <2>1. b.tokens \in Bucketed!Read(k)
      BY <1>4 DEF Near, Bucketed!Read
    <2> QED  BY <1>1, <1>8, <1>12, <2>1 DEF Bucketed!Refuse
  <1>14. \A q \in Key : reported'[q] # reported[q] => Quiet(q)
    BY <1>2, <1>5, <1>7
  <1> QED  BY <1>8, <1>10, <1>11, <1>13, <1>14 DEF IInv

LEMMA RejectUnseenStep ==
    ASSUME IInv, NEW k \in Key, RejectUnseen(k)
    PROVE  /\ IInv'
           /\ \A q \in Key : Level(q)' = Level(q)
           /\ reported' = reported
  <1>1. PICK r \in Errors :
            answer' = [key |-> k, allowed |-> FALSE, retryAfter |-> SecondsUntil(Cost + r),
                       exhausted |-> TRUE]
    BY DEF RejectUnseen
  <1>2. /\ entries' = [q \in Live |-> entries[q]]
        /\ saturatedAt' = IF EventDue(saturatedAt) THEN now ELSE saturatedAt
        /\ now' = now /\ reported' = reported
        /\ now \in Nat /\ Cost \in Nat
    BY BoundAssumption, FullBounds DEF RejectUnseen, IInv, TypeOK
  <1>3. DOMAIN entries' = Live /\ \A q \in Live : entries'[q] = entries[q]
    BY <1>2
  <1>4. /\ Live \subseteq DOMAIN entries /\ Live \subseteq Key
        /\ Cardinality(Live) <= MaxKeys
    BY LiveIsBounded
  <1>5. TypeOK'
    <2>1. SecondsUntil(Cost + r) \in Nat
      BY <1>2, DelaysArePositive
    <2>2. answer' \in Answer
      BY <1>1, <2>1 DEF Answer
    <2>3. saturatedAt' \in Nat \cup {Never}
      BY <1>2 DEF IInv, TypeOK
    <2> QED  BY <1>2, <1>3, <1>4, <2>2, <2>3 DEF IInv, TypeOK
  <1>6. \A q \in Key : Quiet(q)' <=> Quiet(q)
    BY <1>2 DEF Quiet
  <1>7. Refreshed'
    BY <1>2, <1>3, <1>4 DEF IInv, Refreshed
  <1>8. Remembered'
    <2>1. \A q \in Key \ DOMAIN entries' : Quiet(q)'
      BY <1>3, <1>6, ForgottenIsFull
    <2> QED  BY <1>2, <1>3, <1>4, <1>6, <2>1 DEF IInv, Remembered
  <1>9. Justified'
    BY <1>1 DEF Justified
  <1>10. ASSUME NEW q \in Key PROVE Level(q)' = Level(q)
    <2>1. CASE q \in Live
      <3>1. q \in DOMAIN entries' /\ q \in DOMAIN entries /\ entries'[q] = entries[q]
        BY <1>3, <1>4, <2>1
      <3> QED  BY <1>2, <3>1 DEF Level, LevelAt
    <2>2. CASE q \notin Live
      <3>1. q \notin DOMAIN entries' /\ Level(q) = Full
        BY <1>3, <2>2, ForgottenIsFull
      <3> QED  BY <3>1 DEF Level, Full
    <2> QED  BY <2>1, <2>2
  <1> QED  BY <1>2, <1>5, <1>7, <1>8, <1>9, <1>10 DEF IInv

LEMMA TickStep ==
    ASSUME IInv, Tick
    PROVE  IInv' /\ Bucketed!Tick /\ reported' = reported
  <1>1. now' = now + 1 /\ now < MaxTime /\ UNCHANGED <<entries, saturatedAt, answer, reported>>
    BY DEF Tick
  <1>2. now \in Nat /\ MaxTime \in Nat /\ now \in 0..MaxTime
        /\ Full \in Nat /\ Rate \in Nat /\ WindowSeconds \in Nat
    BY BoundAssumption, FullBounds, CapacityAssumption DEF IInv, TypeOK
  <1>3. TypeOK'
    BY <1>1, <1>2 DEF IInv, TypeOK
  <1>4. Refreshed'
    <2>1. \A k \in DOMAIN entries : entries[k].lastSeen \in Nat
      BY DEF IInv, TypeOK, Entry
    <2> QED  BY <1>1, <1>2, <2>1 DEF IInv, Refreshed
  <1>5. \A k \in Key : Quiet(k) => Quiet(k)'
    <2>1. \A k \in Key : reported[k] \in Nat \cup {Never}
      BY DEF IInv, TypeOK
    <2> QED  BY <1>1, <1>2, <2>1 DEF Quiet, Never
  <1>6. Remembered'
    <2>1. DOMAIN entries \subseteq Key
      BY DEF IInv, TypeOK
    <2> QED  BY <1>1, <1>5, <2>1 DEF IInv, Remembered
  <1>7. Justified'
    BY <1>1 DEF IInv, Justified, SecondsUntil, Greatest
  <1>8. ASSUME NEW k \in Key PROVE Level(k)' = Least(Full, Level(k) + Rate)
    <2>1. CASE k \in DOMAIN entries
      <3>1. entries[k] \in Entry /\ entries[k].refilledAt <= now
        BY <2>1 DEF IInv, TypeOK, Refreshed
      <3>2. LevelAt(entries[k], now + 1) = Least(Full, LevelAt(entries[k], now) + Rate)
        BY <1>2, <3>1, LevelWithinCapacity
      <3>3. Level(k)' = LevelAt(entries[k], now + 1)
        BY <1>1, <2>1 DEF Level, LevelAt
      <3> QED  BY <2>1, <3>2, <3>3 DEF Level
    <2>2. CASE k \notin DOMAIN entries
      <3>1. Level(k)' = Full /\ Level(k) = Full
        BY <1>1, <2>2 DEF Level, Full
      <3> HIDE DEF Full
      <3> QED  BY <1>2, <3>1 DEF Least
    <2> QED  BY <2>1, <2>2
  <1>9. Bucketed!Tick
    BY <1>8 DEF Bucketed!Tick, Bucketed!Least, Least
  <1> QED  BY <1>1, <1>3, <1>4, <1>6, <1>7, <1>9 DEF IInv

--------------------------------------------------------------------------------
(***************************************************************************)
(* Theorems.                                                               *)
(***************************************************************************)

\* Every map of levels is stuttering, a tick of the clock, a grant or a refusal.
StepOfBuckets == [Bucketed!Next]_[k \in Key |-> Level(k)]

LEMMA InitIsInvariant == Init => IInv /\ Bucketed!Init
  <1> SUFFICES ASSUME Init PROVE IInv /\ Bucketed!Init
    OBVIOUS
  <1>1. /\ now = 0 /\ saturatedAt = Never /\ reported = [k \in Key |-> Never]
        /\ DOMAIN entries = {}
    BY DEF Init
  <1>2. PICK k \in Key : answer = [key |-> k, allowed |-> TRUE, retryAfter |-> 0,
                                   exhausted |-> FALSE]
    BY DEF Init
  <1>3. TypeOK
    <2>1. Cardinality(DOMAIN entries) = 0 /\ MaxKeys \in Nat /\ MaxTime \in Nat
      BY <1>1, FS_EmptySet, TableAssumption, BoundAssumption
    <2> QED  BY <1>1, <1>2, <2>1 DEF TypeOK, Answer
  <1>4. Refreshed /\ Remembered /\ Justified
    BY <1>1, <1>2 DEF Refreshed, Remembered, Quiet, Justified
  <1>5. \A q \in Key : Level(q) = Full
    BY <1>1 DEF Level
  <1> QED  BY <1>3, <1>4, <1>5 DEF IInv, Bucketed!Init

LEMMA NextKeepsInvariant ==
    ASSUME IInv, [Next]_vars
    PROVE  /\ IInv'
           /\ StepOfBuckets
           /\ \A k \in Key : reported'[k] # reported[k] => Quiet(k)
  <1>1. CASE Tick
    BY <1>1, TickStep DEF StepOfBuckets, Bucketed!Next
  <1>2. ASSUME NEW k \in Key, Consume(k)
        PROVE  /\ IInv'
               /\ StepOfBuckets
               /\ \A q \in Key : reported'[q] # reported[q] => Quiet(q)
    <2>1. CASE Allow(k)
      BY <2>1, AllowStep DEF StepOfBuckets, Bucketed!Next
    <2>2. CASE Reject(k)
      BY <2>2, RejectStep DEF StepOfBuckets, Bucketed!Next
    <2>3. CASE RejectUnseen(k)
      BY <2>3, RejectUnseenStep DEF StepOfBuckets
    <2> QED  BY <1>2, <2>1, <2>2, <2>3 DEF Consume
  <1>3. CASE UNCHANGED vars
    <2>1. \A q \in Key : Level(q)' = Level(q)
      BY <1>3 DEF vars, Level, LevelAt
    <2>2. TypeOK' /\ Refreshed' /\ Remembered' /\ Justified'
      BY <1>3 DEF IInv, vars, TypeOK, Refreshed, Remembered, Quiet, Justified,
                  SecondsUntil, Greatest
    <2> QED  BY <1>3, <2>1, <2>2 DEF vars, StepOfBuckets, IInv
  <1> QED  BY <1>1, <1>2, <1>3 DEF Next

LEMMA Invariance == Spec => []IInv
  <1>1. Init => IInv
    BY InitIsInvariant
  <1>2. IInv /\ [Next]_vars => IInv'
    BY NextKeepsInvariant
  <1> QED  BY <1>1, <1>2, PTL DEF Spec

\* The table of buckets never outgrows its bound, and no bucket its capacity.
THEOREM TypeCorrect == Spec => []TypeOK
  <1>1. IInv => TypeOK
    BY DEF IInv
  <1> QED  BY <1>1, Invariance, PTL

\* Retry-After is right up to one rounding, for every quota and window, and never more
\* than a second late, although the level it is computed from and the quotient it is
\* rounded up from are floats.
THEOREM RetryAfterClose == Spec => []RetryAfterIsClose
  <1>1. IInv => RetryAfterIsClose
    <2> DEFINE e == entries[answer.key]
               units == Cost - e.tokens
               n == answer.retryAfter
               Then(m) == LevelAt(e, e.refilledAt + n - m)
    <2> SUFFICES ASSUME IInv, ~answer.allowed, ~answer.exhausted
                 PROVE  /\ Then(0) >= Cost - Rounding
                        /\ Then(1) < Cost + Rounding \/ n = 1
                        /\ n > 1 => Then(2) < Cost
      BY DEF RetryAfterIsClose
    <2>1. e \in Entry /\ e.tokens < Cost
      BY DEF IInv, TypeOK, Justified
    <2>2. PICK r \in Errors : n = SecondsUntil(units + r)
      BY DEF IInv, Justified
    <2>3. Cost \in Nat /\ Full \in Nat /\ Cost <= Full /\ Rate \in Nat /\ 1 <= Rate
      BY FullBounds
    <2>4. /\ Rounding \in Nat /\ Rounding < Rate
          /\ r \in Int /\ -Rounding <= r /\ r <= Rounding
      BY ErrorBounds
    <2>5. e.tokens \in Nat /\ e.refilledAt \in Nat
      BY <2>1, <2>3 DEF Entry
    <2>6. units \in Nat /\ units = Cost - e.tokens
      BY <2>1, <2>3, <2>5
    <2>7. units + r \in Int /\ -Rate < units + r
      BY <2>6, DelaysArePositive
    <2>8. /\ n \in Nat \ {0}
          /\ n * Rate >= units + r
          /\ n = 1 \/ (n - 1) * Rate < units + r
      BY <2>2, <2>7, SecondsUntilIsLeast
    <2> HIDE DEF e, n, units
    <2>9. /\ n * Rate \in Nat
          /\ (n - 1) * Rate = n * Rate - Rate
          /\ (n - 2) * Rate = n * Rate - 2 * Rate
      BY <2>3, <2>8, ProductOfNats
    <2>10. /\ (e.refilledAt + n - 0) - e.refilledAt = n
           /\ (e.refilledAt + n - 1) - e.refilledAt = n - 1
           /\ (e.refilledAt + n - 2) - e.refilledAt = n - 2
      BY <2>5, <2>8
    <2>11. /\ Then(0) = Least(Full, e.tokens + n * Rate)
           /\ Then(1) = Least(Full, e.tokens + (n - 1) * Rate)
           /\ Then(2) = Least(Full, e.tokens + (n - 2) * Rate)
      BY <2>10 DEF LevelAt
    <2> HIDE DEF Then
    <2>12. Then(0) >= Cost - Rounding
      BY <2>3, <2>4, <2>5, <2>6, <2>8, <2>9, <2>11 DEF Least
    <2>13. n # 1 => Then(1) < Cost + Rounding
      BY <2>3, <2>4, <2>5, <2>6, <2>8, <2>9, <2>11 DEF Least
    <2>14. n > 1 => Then(2) < Cost
      BY <2>3, <2>4, <2>5, <2>6, <2>8, <2>9, <2>11 DEF Least
    <2> QED  BY <2>8, <2>12, <2>13, <2>14
  <1> QED  BY <1>1, Invariance, PTL

\* Forgetting idle keys and refusing unseen ones grants nobody more than a bucket of
\* his own, whatever the number of keys and the bound of the table.
THEOREM ImplementsBuckets == Spec => ImplementsTokenBucket
  <1>1. Init => Bucketed!Init
    BY InitIsInvariant
  <1>2. IInv /\ [Next]_vars => StepOfBuckets
    BY NextKeepsInvariant
  <1> QED
    BY <1>1, <1>2, Invariance, PTL
       DEF Spec, ImplementsTokenBucket, Bucketed!Spec, StepOfBuckets

\* Evicting a bucket never makes a key's rejections reportable again too soon.
THEOREM RareReports == Spec => ReportsAreRare
  <1>1. IInv /\ [Next]_vars =>
            [\A k \in Key : reported'[k] # reported[k]
                => reported[k] = Never \/ now - reported[k] >= WindowSeconds]_vars
    BY NextKeepsInvariant DEF Quiet
  <1> QED  BY <1>1, Invariance, PTL DEF Spec, ReportsAreRare

================================================================================
