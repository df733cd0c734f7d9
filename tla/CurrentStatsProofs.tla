--------------------------- MODULE CurrentStatsProofs ---------------------------
(***************************************************************************)
(* Proofs about CurrentStats, for every set of users and windows, every     *)
(* queue capacity and every bound: type correctness, the inductive          *)
(* invariant, FreshReads and DurableWork, the step simulations of           *)
(* SnapshotCache and SharedWork, and how far the promises reach that the    *)
(* runs LostHint, FailedHint and NoProjection refute.                       *)
(***************************************************************************)
EXTENDS CurrentStats, DirtyMarkersProofs, MaxFacts, FiniteSetTheorems, TLAPS

--------------------------------------------------------------------------------
(***************************************************************************)
(* The inductive invariant.                                                *)
(***************************************************************************)
Refreshing == pc \in {"read", "acknowledge", "publish", "commit"}

\* Mutations are numbered up to db.
TouchedCommitted == \A k \in Key : touched[k] <= db[k[1]]

\* Epochs only grow, so a record is never newer than its user's epoch.
RecordsOld == \A u \in User : record[u].epoch <= epoch[u]

\* FreshReads for the records, whether the worker is healthy or not.
RecordsFresh ==
    \A u \in User : Visible(u) => Missing(record[u].version, u) \subseteq unannounced[u]

\* A user is in hand; it has left the list, and its epoch was read in the past.
UserInHand == Refreshing => user \in User
InHand == Refreshing => user \notin todo /\ expected <= epoch[user]

\* As long as that epoch stands, the statistics read under it would be fresh.
CandidateFresh ==
    pc \in {"acknowledge", "publish"} /\ expected = epoch[user]
        => Missing(version, user) \subseteq unannounced[user]

\* The candidate never claims more than the database holds.
CandidateCommitted ==
    pc \in {"acknowledge", "publish", "commit"} => version <= db[user]

\* An observed marker nobody has acknowledged yet can only have been marked again.
Unacknowledged(k) ==
    \/ pc = "plan"
    \/ pc = "users" /\ k[1] \in todo
    \/ Refreshing /\ k[1] \in todo \cup {user}

ObservedOld == \A k \in Key : Unacknowledged(k) => observed[k] <= marker[k].gen

\* If it was not, the candidate covers every mutation of its window.
ObservedCovered ==
    pc \in {"acknowledge", "publish", "commit"} =>
        \A k \in Held : marker[k].gen = observed[k] => touched[k] <= version

\* Once acknowledged it cannot be marked again before the commit.
AcknowledgedHeld ==
    pc \in {"publish", "commit"} => \A k \in Held : marker[k].gen = observed[k]

\* The commit follows the installation.
CommitCovered == pc = "commit" => version <= covered[user]

FreshInv ==
    /\ TouchedCommitted
    /\ RecordsOld
    /\ RecordsFresh
    /\ InHand
    /\ CandidateFresh
    /\ CandidateCommitted

DurableInv ==
    /\ ObservedOld
    /\ ObservedCovered
    /\ AcknowledgedHeld
    /\ CommitCovered
    /\ DurableWork

IInv == TypeOK /\ UserInHand /\ FreshInv /\ DurableInv

--------------------------------------------------------------------------------
(***************************************************************************)
(* Types.                                                                  *)
(***************************************************************************)
USE DEF Key, Row, Absent, Record, NoRecord, vars, requestVars, storeVars, publisherVars,
        cycleVars, userVars, healthVars, historyVars

LEMMA BatchSizeType == BatchSize \in Nat \ {0}
  BY QueueCapacityAssumption DEF BatchSize

LEMMA DrainedType ==
    ASSUME queue \in Seq(User)
    PROVE  Drained \subseteq User /\ Undrained \in Seq(User)
<1>1. Min2(BatchSize, Len(queue)) \in Nat /\ Min2(BatchSize, Len(queue)) <= Len(queue)
  BY BatchSizeType DEF Min2
<1>2. Drained \subseteq User
  BY <1>1 DEF Drained
<1>3. Undrained \in Seq(User)
  BY BatchSizeType DEF Undrained
<1> QED
  BY <1>2, <1>3

LEMMA PutEventType ==
    ASSUME PublisherTypeOK, NEW u \in User, PutEvent(u)
    PROVE  PublisherTypeOK'
  BY DEF PublisherTypeOK, PutEvent

LEMMA InvalidateUserType ==
    ASSUME StoreTypeOK, NEW u \in User, InvalidateUser(u)
    PROVE  StoreTypeOK'
  BY DEF StoreTypeOK, InvalidateUser

LEMMA EmptyQueueType == << >> \in Seq(User)
  OBVIOUS

LEMMA PageType == Page \subseteq Key /\ {k[1] : k \in Page} \subseteq User
<1>1. Page \subseteq Key
  BY DEF Page, Dirty
<1>2. ASSUME NEW k \in Key PROVE k[1] \in User
  OBVIOUS
<1> QED
  BY <1>1, <1>2

LEMMA TypeInit == Init => TypeOK /\ UserInHand
<1> SUFFICES ASSUME Init PROVE TypeOK /\ UserInHand
  OBVIOUS
<1> USE DEF Init, ProcessInit
<1>1. MarkerTypeOK
  BY DEF NoMarkers, MarkerTypeOK
<1>2. StoreTypeOK
  BY DEF StoreInit, StoreTypeOK
<1>3. PublisherTypeOK
  BY EmptyQueueType DEF PublisherInit, PublisherTypeOK
<1>4. baseline \in Nat
  BY BoundAssumption
<1>5. pc \in Steps /\ UserInHand
  BY DEF Steps, UserInHand, Refreshing
<1> QED
  BY <1>1, <1>2, <1>3, <1>4, <1>5 DEF TypeOK

LEMMA TypeStep == TypeOK /\ UserInHand /\ [Next]_vars => TypeOK' /\ UserInHand'
<1> SUFFICES ASSUME TypeOK, UserInHand, [Next]_vars
             PROVE  TypeOK' /\ UserInHand'
  OBVIOUS
<1> USE DEF TypeOK, UserInHand, Refreshing, Steps
<1>1. ASSUME NEW u \in User, NEW w \in Window, NEW t \in Stamp, Mutate(u, w, t)
      PROVE  TypeOK' /\ UserInHand'
  <2>1. MarkerTypeOK'
    BY <1>1, MarkDirtyType DEF Mutate
  <2>2. StoreTypeOK' /\ PublisherTypeOK'
    BY <1>1 DEF Mutate, StoreTypeOK, PublisherTypeOK
  <2> QED
    BY <1>1, <2>1, <2>2 DEF Mutate
<1>2. ASSUME NEW u \in User, NEW n \in Versions(u), Announce(u, n)
      PROVE  TypeOK' /\ UserInHand'
  <2>1. MarkerTypeOK' /\ PublisherTypeOK'
    BY <1>2 DEF Announce, MarkerTypeOK, PublisherTypeOK
  <2>2. StoreTypeOK'
    BY <1>2, InvalidateUserType DEF Announce
  <2>3. n \in Nat
    BY <1>2 DEF Versions
  <2> QED
    BY <1>2, <2>1, <2>2, <2>3 DEF Announce
<1>3. ASSUME NEW u \in User, NEW n \in Versions(u), Enqueue(u, n)
      PROVE  TypeOK' /\ UserInHand'
  <2>1. MarkerTypeOK' /\ StoreTypeOK'
    BY <1>3 DEF Enqueue, MarkerTypeOK, StoreTypeOK
  <2>2. PublisherTypeOK'
    BY <1>3, PutEventType DEF Enqueue
  <2> QED
    BY <1>3, <2>1, <2>2 DEF Enqueue
<1>4. CASE StartCycle
  <2>1. MarkerTypeOK' /\ StoreTypeOK'
    BY <1>4 DEF StartCycle, MarkerTypeOK, StoreTypeOK
  <2>2. PublisherTypeOK' /\ todo' \in SUBSET User
    BY <1>4, DrainedType DEF StartCycle, PublisherTypeOK
  <2> QED
    BY <1>4, <2>1, <2>2 DEF StartCycle
<1>5. CASE ObserveMarkers
  <2>1. MarkerTypeOK' /\ StoreTypeOK' /\ PublisherTypeOK'
    BY <1>5 DEF ObserveMarkers, MarkerTypeOK, StoreTypeOK, PublisherTypeOK
  <2>2. observed' \in [Key -> Nat]
    BY <1>5 DEF ObserveMarkers, MarkerTypeOK
  <2>3. todo' \in SUBSET User
    BY <1>5, PageType DEF ObserveMarkers
  <2> QED
    BY <1>5, <2>1, <2>2, <2>3 DEF ObserveMarkers
<1>6. CASE PlanUsers
  <2>1. MarkerTypeOK' /\ StoreTypeOK'
    BY <1>6 DEF PlanUsers, MarkerTypeOK, StoreTypeOK
  <2>2. PublisherTypeOK'
    BY <1>6 DEF PlanUsers, TakeState, PublisherTypeOK
  <2>3. page' \in SUBSET User /\ full' \in BOOLEAN
    BY <1>6 DEF PlanUsers, UsersAfter, PublisherTypeOK
  <2> QED
    BY <1>6, <2>1, <2>2, <2>3 DEF PlanUsers
<1>7. ASSUME NEW u \in User, TakeEpoch(u)
      PROVE  TypeOK' /\ UserInHand'
  BY <1>7 DEF TakeEpoch, MarkerTypeOK, StoreTypeOK, PublisherTypeOK
<1>8. CASE ReadStats
  BY <1>8 DEF ReadStats, MarkerTypeOK, StoreTypeOK, PublisherTypeOK
<1>9. CASE Acknowledge
  BY <1>9 DEF Acknowledge, MarkerTypeOK, StoreTypeOK, PublisherTypeOK
<1>10. CASE AcknowledgeStale
  BY <1>10 DEF AcknowledgeStale, GiveUpUser, LeaveUser, MarkerTypeOK, StoreTypeOK,
               PublisherTypeOK
<1>11. CASE PublishSnapshot
  <2>1. MarkerTypeOK' /\ PublisherTypeOK'
    BY <1>11 DEF PublishSnapshot, MarkerTypeOK, PublisherTypeOK
  <2>2. StoreTypeOK'
    BY <1>11 DEF PublishSnapshot, Install, StoreTypeOK
  <2>3. covered' \in [User -> Nat]
    BY <1>11 DEF PublishSnapshot
  <2> QED
    BY <1>11, <2>1, <2>2, <2>3 DEF PublishSnapshot, LeaveUser
<1>12. CASE PublishRejected
  BY <1>12 DEF PublishRejected, GiveUpUser, LeaveUser, MarkerTypeOK, StoreTypeOK,
               PublisherTypeOK
<1>13. CASE CommitUser
  <2>1. MarkerTypeOK'
    BY <1>13, AcknowledgedType DEF CommitUser, MarkerTypeOK
  <2>2. StoreTypeOK' /\ PublisherTypeOK'
    BY <1>13 DEF CommitUser, StoreTypeOK, PublisherTypeOK
  <2> QED
    BY <1>13, <2>1, <2>2 DEF CommitUser, LeaveUser
<1>14. CASE FinishUsers
  <2>1. MarkerTypeOK' /\ StoreTypeOK' /\ PublisherTypeOK'
    BY <1>14 DEF FinishUsers, MarkerTypeOK, StoreTypeOK, PublisherTypeOK
  <2>2. pc' \in Steps /\ UserInHand'
    BY <1>14 DEF FinishUsers
  <2> QED
    BY <1>14, <2>1, <2>2 DEF FinishUsers
<1>15. CASE CountBacklog
  BY <1>15 DEF CountBacklog, MarkerTypeOK, StoreTypeOK, PublisherTypeOK
<1>16. CASE Conclude
  <2>1. MarkerTypeOK' /\ StoreTypeOK'
    BY <1>16 DEF Conclude, MarkerTypeOK, StoreTypeOK
  <2>2. PublisherTypeOK' /\ cursor' \in User \cup {0} /\ fullDue' \in BOOLEAN
    BY <1>16 DEF Conclude, ConcludeFull, ConcludePage, ConcludeRetry, AcknowledgeFull,
                 RequireFull, PublisherTypeOK
  <2> QED
    BY <1>16, <2>1, <2>2 DEF Conclude
<1>17. CASE SkipProjection
  <2>1. baseline' \in Nat
    BY <1>17, ProjectionEnabledAssumption DEF SkipProjection, NoProjection
  <2> QED
    BY <1>17, <2>1 DEF SkipProjection, RecordCycle, Succeeded, MarkerTypeOK, StoreTypeOK,
                       PublisherTypeOK
<1>18. CASE ObserveProjection
  <2>1. observed' \in [Key -> Nat]
    BY <1>18 DEF ObserveProjection, MarkerTypeOK
  <2> QED
    BY <1>18, <2>1 DEF ObserveProjection, MarkerTypeOK, StoreTypeOK, PublisherTypeOK
<1>19. ASSUME NEW k \in Key, ProjectMarker(k)
       PROVE  TypeOK' /\ UserInHand'
  <2>1. MarkerTypeOK'
    BY <1>19, AcknowledgedType DEF ProjectMarker, MarkerTypeOK
  <2>2. StoreTypeOK' /\ PublisherTypeOK'
    BY <1>19 DEF ProjectMarker, StoreTypeOK, PublisherTypeOK
  <2>3. observed' \in [Key -> Nat]
    BY <1>19 DEF ProjectMarker
  <2> QED
    BY <1>19, <2>1, <2>2, <2>3 DEF ProjectMarker
<1>20. CASE FinishProjection
  BY <1>20 DEF FinishProjection, RecordCycle, Succeeded, MarkerTypeOK, StoreTypeOK,
               PublisherTypeOK
<1>21. CASE FullIntervalPasses
  BY <1>21 DEF FullIntervalPasses, MarkerTypeOK, StoreTypeOK, PublisherTypeOK
<1>22. ASSUME NEW u \in User, NEW n \in Versions(u), EnqueueRaises(u, n)
       PROVE  TypeOK' /\ UserInHand'
  <2>1. MarkerTypeOK' /\ StoreTypeOK' /\ PublisherTypeOK'
    BY <1>22 DEF EnqueueRaises, Reject, MarkerTypeOK, StoreTypeOK, PublisherTypeOK
  <2>2. n \in Nat
    BY <1>22 DEF Versions
  <2> QED
    BY <1>22, <2>1, <2>2 DEF EnqueueRaises, Reject, Fault
<1>23. CASE RefreshRaises
  <2>1. MarkerTypeOK' /\ StoreTypeOK' /\ PublisherTypeOK'
    BY <1>23 DEF RefreshRaises, GiveUpUser, MarkerTypeOK, StoreTypeOK, PublisherTypeOK
  <2> QED
    BY <1>23, <2>1 DEF RefreshRaises, Fault, GiveUpUser, LeaveUser
<1>24. CASE CommitRaises
  <2>1. StoreTypeOK'
    BY <1>24, InvalidateUserType DEF CommitRaises
  <2> QED
    BY <1>24, <2>1 DEF CommitRaises, Fault, GiveUpUser, LeaveUser, MarkerTypeOK,
                       PublisherTypeOK
<1>25. CASE CycleRaises
  BY <1>25 DEF CycleRaises, Fault, RequireFull, MarkerTypeOK, StoreTypeOK,
               PublisherTypeOK
<1>26. CASE ProjectionRaises
  <2>1. MarkerTypeOK' /\ StoreTypeOK' /\ PublisherTypeOK'
    BY <1>26 DEF ProjectionRaises, MarkerTypeOK, StoreTypeOK, PublisherTypeOK
  <2>2. faults' \in Nat
    BY <1>26 DEF ProjectionRaises, Fault
  <2>3. failing' \in BOOLEAN /\ initial' \in {"running", "succeeded", "failed"}
    BY <1>26 DEF ProjectionRaises, RecordCycle, Succeeded
  <2> QED
    BY <1>26, <2>1, <2>2, <2>3 DEF ProjectionRaises, RecordCycle
<1>27. CASE Crash
  <2>1. MarkerTypeOK' /\ StoreTypeOK' /\ PublisherTypeOK'
    BY <1>27, EmptyQueueType DEF Crash, MarkerTypeOK, StoreTypeOK, PublisherTypeOK
  <2>2. /\ unannounced' \in [User -> SUBSET Nat]
        /\ unqueued' \in [User -> SUBSET Nat]
        /\ rejected' \in [User -> SUBSET Nat]
        /\ observed' \in [Key -> Nat]
    BY <1>27 DEF Crash
  <2>3. faults' \in Nat
    BY <1>27 DEF Crash, Fault
  <2>4. pc' \in Steps /\ user' \in User \cup {0} /\ UserInHand'
    BY <1>27 DEF Crash
  <2>5. todo' \in SUBSET User /\ failed' \in SUBSET User /\ page' \in SUBSET User
    BY <1>27 DEF Crash
  <2> QED
    BY <1>27, <2>1, <2>2, <2>3, <2>4, <2>5 DEF Crash
<1>28. ASSUME NEW u \in User, NEW n \in Versions(u), Overflow(u, n)
       PROVE  TypeOK' /\ UserInHand'
  <2>1. MarkerTypeOK' /\ StoreTypeOK' /\ PublisherTypeOK'
    BY <1>28 DEF Overflow, Reject, MarkerTypeOK, StoreTypeOK, PublisherTypeOK
  <2>2. n \in Nat
    BY <1>28 DEF Versions
  <2> QED
    BY <1>28, <2>1, <2>2 DEF Overflow, Reject
<1>29. ASSUME NEW u \in User, NEW n \in Versions(u), RecordLoss(u, n)
       PROVE  TypeOK' /\ UserInHand'
  <2>1. MarkerTypeOK' /\ StoreTypeOK'
    BY <1>29 DEF RecordLoss, MarkerTypeOK, StoreTypeOK
  <2>2. PublisherTypeOK'
    BY <1>29 DEF RecordLoss, RequireFull, PublisherTypeOK
  <2> QED
    BY <1>29, <2>1, <2>2 DEF RecordLoss
<1>30. CASE UNCHANGED vars
  BY <1>30 DEF MarkerTypeOK, StoreTypeOK, PublisherTypeOK
<1> HIDE DEF TypeOK, UserInHand, Refreshing, Steps
<1> QED
  BY <1>1, <1>2, <1>3, <1>4, <1>5, <1>6, <1>7, <1>8, <1>9, <1>10, <1>11, <1>12, <1>13,
     <1>14, <1>15, <1>16, <1>17, <1>18, <1>19, <1>20, <1>21, <1>22, <1>23, <1>24, <1>25,
     <1>26, <1>27, <1>28, <1>29, <1>30 DEF Next, Request, Worker, Faults

\* Type correctness of the pipeline: every variable keeps its type, for every set
\* of users and windows.  (It needs that a user is in hand while _refresh_user runs.)
THEOREM TypeCorrect == Spec => []TypeOK
  BY TypeInit, TypeStep, PTL DEF Spec
--------------------------------------------------------------------------------
(***************************************************************************)
(* Fresh answers.                                                          *)
(***************************************************************************)

LEMMA FreshInit == Init => FreshInv
<1> SUFFICES ASSUME Init PROVE FreshInv
  OBVIOUS
<1> USE DEF Init, ProcessInit
<1>1. TouchedCommitted
  BY DEF TouchedCommitted
<1>2. RecordsOld /\ RecordsFresh
  BY DEF RecordsOld, RecordsFresh, StoreInit, Visible
<1>3. InHand /\ CandidateFresh /\ CandidateCommitted
  BY DEF InHand, Refreshing, CandidateFresh, CandidateCommitted
<1> QED
  BY <1>1, <1>2, <1>3 DEF FreshInv

\* A step that touches neither the store nor the requests keeps the invariant if it
\* ends outside _refresh_user,
LEMMA FreshOutside ==
    ASSUME FreshInv, UNCHANGED <<db, unannounced, epoch, record, touched>>, ~Refreshing'
    PROVE  FreshInv'
<1>1. TouchedCommitted' /\ RecordsOld'
  BY DEF FreshInv, TouchedCommitted, RecordsOld
<1>2. RecordsFresh'
  BY DEF FreshInv, RecordsFresh, Visible, Missing
<1>3. InHand' /\ CandidateFresh' /\ CandidateCommitted'
  BY DEF InHand, CandidateFresh, CandidateCommitted, Refreshing
<1> QED
  BY <1>1, <1>2, <1>3 DEF FreshInv

\* or leaves the user in hand alone.
LEMMA FreshElsewhere ==
    ASSUME FreshInv, UNCHANGED <<db, unannounced, epoch, record, touched>>,
           UNCHANGED <<pc, todo, user, expected, version>>
    PROVE  FreshInv'
  BY DEF FreshInv, TouchedCommitted, RecordsOld, RecordsFresh, Visible, Missing, InHand,
         CandidateFresh, CandidateCommitted, Refreshing

LEMMA IntervalGrows ==
    ASSUME NEW a \in Int, NEW b \in Int
    PROVE  a..(b + 1) \subseteq (a..b) \cup {b + 1}
<1> SUFFICES ASSUME NEW i \in a..(b + 1), i # b + 1 PROVE i \in a..b
  OBVIOUS
<1> QED
  OBVIOUS

LEMMA FreshMutate ==
    ASSUME TypeOK, UserInHand, FreshInv,
           NEW u \in User, NEW w \in Window, NEW t \in Stamp, Mutate(u, w, t)
    PROVE  FreshInv'
<1> USE DEF TypeOK, UserInHand, FreshInv, Mutate
<1>1. \A v \in User : db[v] \in Nat /\ db'[v] \in Nat /\ db[v] <= db'[v]
  OBVIOUS
<1>2. ASSUME NEW v \in User, NEW x \in Nat, Missing(x, v) \subseteq unannounced[v]
      PROVE  Missing(x, v)' \subseteq unannounced'[v]
  <2>1. CASE v = u
    <3>1. db'[u] = db[u] + 1 /\ unannounced'[u] = unannounced[u] \cup {db[u] + 1}
      OBVIOUS
    <3>2. Missing(x, u)' \subseteq Missing(x, u) \cup {db[u] + 1}
      <4>1. db[u] \in Nat
        BY <1>1
      <4>2. (x + 1)..(db[u] + 1) \subseteq ((x + 1)..db[u]) \cup {db[u] + 1}
        <5>1. x + 1 \in Int /\ db[u] \in Int
          BY <4>1
        <5> QED
          BY ONLY <5>1, IntervalGrows
      <4>3. Missing(x, u) = (x + 1)..db[u] /\ Missing(x, u)' = (x + 1)..(db[u] + 1)
        BY <3>1 DEF Missing
      <4> QED
        BY <4>2, <4>3
    <3> QED
      BY <2>1, <3>1, <3>2, <1>2
  <2>2. CASE v # u
    BY <2>2, <1>2 DEF Missing
  <2> QED
    BY <2>1, <2>2
<1>3. TouchedCommitted'
  BY <1>1 DEF TouchedCommitted
<1>4. RecordsOld'
  BY DEF RecordsOld
<1>5. RecordsFresh'
  <2> SUFFICES ASSUME NEW v \in User, Visible(v)
               PROVE  Missing(record[v].version, v)' \subseteq unannounced'[v]
    BY DEF RecordsFresh, Visible
  <2>1. record[v].version \in Nat
    BY DEF StoreTypeOK
  <2> QED
    BY <2>1, <1>2 DEF RecordsFresh, Missing
<1>6. InHand'
  BY DEF InHand, Refreshing
<1>7. CandidateFresh'
  BY <1>2 DEF CandidateFresh, Refreshing, Missing
<1>8. CandidateCommitted'
  BY <1>1 DEF CandidateCommitted, Refreshing
<1> QED
  BY <1>3, <1>4, <1>5, <1>6, <1>7, <1>8

LEMMA FreshAnnounce ==
    ASSUME TypeOK, UserInHand, FreshInv, NEW u \in User, NEW n \in Versions(u), Announce(u, n)
    PROVE  FreshInv'
<1> USE DEF TypeOK, UserInHand, FreshInv, Announce, InvalidateUser, StoreTypeOK
<1>1. TouchedCommitted'
  BY DEF TouchedCommitted
<1>2. RecordsOld'
  BY DEF RecordsOld
<1>3. RecordsFresh'
  <2> SUFFICES ASSUME NEW v \in User, Visible(v)'
               PROVE  Missing(record[v].version, v)' \subseteq unannounced'[v]
    BY DEF RecordsFresh
  <2>1. v # u
    BY DEF Visible, RecordsOld
  <2> QED
    BY <2>1 DEF RecordsFresh, Visible, Missing
<1>4. InHand'
  BY DEF InHand, Refreshing
<1>5. CandidateFresh'
  BY DEF CandidateFresh, InHand, Refreshing, Missing
<1>6. CandidateCommitted'
  BY DEF CandidateCommitted
<1> QED
  BY <1>1, <1>2, <1>3, <1>4, <1>5, <1>6

LEMMA FreshTakeEpoch ==
    ASSUME TypeOK, FreshInv, NEW u \in User, TakeEpoch(u)
    PROVE  FreshInv'
<1> USE DEF TypeOK, FreshInv, TakeEpoch
<1>1. TouchedCommitted' /\ RecordsOld'
  BY DEF TouchedCommitted, RecordsOld
<1>2. RecordsFresh'
  BY DEF RecordsFresh, Visible, Missing
<1>3. InHand'
  BY DEF InHand, Refreshing, StoreTypeOK
<1>4. CandidateFresh' /\ CandidateCommitted'
  BY DEF CandidateFresh, CandidateCommitted
<1> QED
  BY <1>1, <1>2, <1>3, <1>4

LEMMA FreshReadStats ==
    ASSUME TypeOK, UserInHand, FreshInv, ReadStats
    PROVE  FreshInv'
<1> USE DEF TypeOK, UserInHand, Refreshing, FreshInv, ReadStats
<1>1. TouchedCommitted' /\ RecordsOld'
  BY DEF TouchedCommitted, RecordsOld
<1>2. RecordsFresh'
  BY DEF RecordsFresh, Visible, Missing
<1>3. InHand'
  BY DEF InHand
<1>4. CandidateFresh' /\ CandidateCommitted'
  BY DEF CandidateFresh, CandidateCommitted, Missing
<1> QED
  BY <1>1, <1>2, <1>3, <1>4

LEMMA FreshAcknowledge ==
    ASSUME FreshInv, Acknowledge
    PROVE  FreshInv'
  BY DEF FreshInv, Acknowledge, TouchedCommitted, RecordsOld, RecordsFresh, Visible,
         Missing, InHand, CandidateFresh, CandidateCommitted, Refreshing

LEMMA FreshPublish ==
    ASSUME TypeOK, UserInHand, FreshInv, PublishSnapshot
    PROVE  FreshInv'
<1> USE DEF TypeOK, UserInHand, Refreshing, FreshInv, PublishSnapshot, Install, Installable
<1>1. TouchedCommitted'
  BY DEF TouchedCommitted
<1>2. RecordsOld'
  BY DEF RecordsOld, StoreTypeOK
<1>3. RecordsFresh'
  BY DEF RecordsFresh, Visible, Missing, CandidateFresh, StoreTypeOK
<1>4. InHand' /\ CandidateFresh' /\ CandidateCommitted'
  BY DEF InHand, CandidateFresh, CandidateCommitted, LeaveUser
<1> QED
  BY <1>1, <1>2, <1>3, <1>4

LEMMA FreshCommitRaises ==
    ASSUME TypeOK, UserInHand, FreshInv, CommitRaises
    PROVE  FreshInv'
<1> USE DEF TypeOK, UserInHand, Refreshing, FreshInv, CommitRaises, InvalidateUser,
            GiveUpUser, LeaveUser
<1>1. TouchedCommitted'
  BY DEF TouchedCommitted
<1>2. RecordsOld'
  BY DEF RecordsOld, StoreTypeOK
<1>3. RecordsFresh'
  <2> SUFFICES ASSUME NEW v \in User, Visible(v)'
               PROVE  Missing(record[v].version, v)' \subseteq unannounced'[v]
    BY DEF RecordsFresh
  <2>1. v # user
    BY DEF Visible, RecordsOld, StoreTypeOK
  <2> QED
    BY <2>1 DEF RecordsFresh, Visible, Missing, StoreTypeOK
<1>4. InHand' /\ CandidateFresh' /\ CandidateCommitted'
  BY DEF InHand, CandidateFresh, CandidateCommitted
<1> QED
  BY <1>1, <1>2, <1>3, <1>4

LEMMA FreshCrash ==
    ASSUME TypeOK, FreshInv, Crash
    PROVE  FreshInv'
<1> USE DEF TypeOK, FreshInv, Crash
<1>1. TouchedCommitted'
  BY DEF TouchedCommitted
<1>2. RecordsOld' /\ RecordsFresh'
  BY DEF RecordsOld, RecordsFresh, Visible
<1>3. InHand' /\ CandidateFresh' /\ CandidateCommitted'
  BY DEF InHand, CandidateFresh, CandidateCommitted, Refreshing
<1> QED
  BY <1>1, <1>2, <1>3

LEMMA FreshStep == TypeOK /\ UserInHand /\ FreshInv /\ [Next]_vars => FreshInv'
<1> SUFFICES ASSUME TypeOK, UserInHand, FreshInv, [Next]_vars
             PROVE  FreshInv'
  OBVIOUS
<1>1. ASSUME NEW u \in User, NEW w \in Window, NEW t \in Stamp, Mutate(u, w, t)
      PROVE  FreshInv'
  BY <1>1, FreshMutate
<1>2. ASSUME NEW u \in User, NEW n \in Versions(u), Announce(u, n)
      PROVE  FreshInv'
  BY <1>2, FreshAnnounce
<1>3. ASSUME NEW u \in User, NEW n \in Versions(u), Enqueue(u, n)
      PROVE  FreshInv'
  BY <1>3, FreshElsewhere DEF Enqueue
<1>4. CASE StartCycle
  BY <1>4, FreshOutside DEF StartCycle, Refreshing
<1>5. CASE ObserveMarkers
  BY <1>5, FreshOutside DEF ObserveMarkers, Refreshing
<1>6. CASE PlanUsers
  BY <1>6, FreshOutside DEF PlanUsers, Refreshing
<1>7. ASSUME NEW u \in User, TakeEpoch(u)
      PROVE  FreshInv'
  BY <1>7, FreshTakeEpoch
<1>8. CASE ReadStats
  BY <1>8, FreshReadStats
<1>9. CASE Acknowledge
  BY <1>9, FreshAcknowledge
<1>10. CASE AcknowledgeStale
  BY <1>10, FreshOutside DEF AcknowledgeStale, GiveUpUser, LeaveUser, Refreshing
<1>11. CASE PublishSnapshot
  BY <1>11, FreshPublish
<1>12. CASE PublishRejected
  BY <1>12, FreshOutside DEF PublishRejected, GiveUpUser, LeaveUser, Refreshing
<1>13. CASE CommitUser
  BY <1>13, FreshOutside DEF CommitUser, LeaveUser, Refreshing
<1>14. CASE FinishUsers
  BY <1>14, FreshOutside DEF FinishUsers, Refreshing
<1>15. CASE CountBacklog
  BY <1>15, FreshOutside DEF CountBacklog, Refreshing
<1>16. CASE Conclude
  BY <1>16, FreshOutside DEF Conclude, Refreshing
<1>17. CASE SkipProjection
  BY <1>17, FreshOutside DEF SkipProjection, RecordCycle, Refreshing
<1>18. CASE ObserveProjection
  BY <1>18, FreshOutside DEF ObserveProjection, Refreshing
<1>19. ASSUME NEW k \in Key, ProjectMarker(k)
       PROVE  FreshInv'
  BY <1>19, FreshOutside DEF ProjectMarker, Refreshing
<1>20. CASE FinishProjection
  BY <1>20, FreshOutside DEF FinishProjection, RecordCycle, Refreshing
<1>21. CASE FullIntervalPasses
  BY <1>21, FreshElsewhere DEF FullIntervalPasses
<1>22. ASSUME NEW u \in User, NEW n \in Versions(u), EnqueueRaises(u, n)
       PROVE  FreshInv'
  BY <1>22, FreshElsewhere DEF EnqueueRaises, Reject
<1>23. CASE RefreshRaises
  BY <1>23, FreshOutside DEF RefreshRaises, GiveUpUser, LeaveUser, Refreshing
<1>24. CASE CommitRaises
  BY <1>24, FreshCommitRaises
<1>25. CASE CycleRaises
  BY <1>25, FreshOutside DEF CycleRaises, Refreshing
<1>26. CASE ProjectionRaises
  BY <1>26, FreshOutside DEF ProjectionRaises, RecordCycle, Refreshing
<1>27. CASE Crash
  BY <1>27, FreshCrash
<1>28. ASSUME NEW u \in User, NEW n \in Versions(u), Overflow(u, n)
       PROVE  FreshInv'
  BY <1>28, FreshElsewhere DEF Overflow, Reject
<1>29. ASSUME NEW u \in User, NEW n \in Versions(u), RecordLoss(u, n)
       PROVE  FreshInv'
  BY <1>29, FreshElsewhere DEF RecordLoss
<1>30. CASE UNCHANGED vars
  BY <1>30, FreshElsewhere
<1> QED
  BY <1>1, <1>2, <1>3, <1>4, <1>5, <1>6, <1>7, <1>8, <1>9, <1>10, <1>11, <1>12, <1>13,
     <1>14, <1>15, <1>16, <1>17, <1>18, <1>19, <1>20, <1>21, <1>22, <1>23, <1>24, <1>25,
     <1>26, <1>27, <1>28, <1>29, <1>30 DEF Next, Request, Worker, Faults

\* Read your writes, for every number of users, windows, requests and faults: an
\* answer misses only mutations whose request has not reached invalidate.
THEOREM AnswersAreFresh == Spec => []FreshReads
<1>1. TypeOK /\ FreshInv => FreshReads
  <2> SUFFICES ASSUME TypeOK, FreshInv, NEW u \in User, NEW v \in Answers(u)
               PROVE  Missing(v, u) \subseteq unannounced[u]
    BY DEF FreshReads
  <2>1. CASE v = db[u]
    BY <2>1 DEF TypeOK, Missing
  <2>2. CASE Visible(u) /\ v = record[u].version
    BY <2>2 DEF FreshInv, RecordsFresh
  <2> QED
    BY <2>1, <2>2 DEF Answers
<1> QED
  BY <1>1, TypeInit, TypeStep, FreshInit, FreshStep, PTL DEF Spec
--------------------------------------------------------------------------------
(***************************************************************************)
(* Durable work.                                                           *)
(***************************************************************************)

LEMMA DurableInit == Init => DurableInv
<1> SUFFICES ASSUME Init PROVE DurableInv
  OBVIOUS
<1> USE DEF Init, ProcessInit
<1>1. ObservedOld
  BY DEF ObservedOld, NoMarkers
<1>2. ObservedCovered /\ AcknowledgedHeld /\ CommitCovered
  BY DEF ObservedCovered, AcknowledgedHeld, CommitCovered
<1>3. DurableWork
  BY DEF DurableWork
<1> QED
  BY <1>1, <1>2, <1>3 DEF DurableInv

\* A step that touches neither the markers nor the history keeps the invariant if it
\* leaves the cycle where it is,
LEMMA DurableElsewhere ==
    ASSUME DurableInv, UNCHANGED <<marker, touched, covered>>,
           UNCHANGED <<pc, todo, observed, user, version>>
    PROVE  DurableInv'
  BY DEF DurableInv, ObservedOld, Unacknowledged, ObservedCovered, AcknowledgedHeld,
         CommitCovered, DurableWork, CurrentPending, Held, Refreshing

\* ends outside the part that holds on to observed markers,
LEMMA DurableOutside ==
    ASSUME DurableInv, UNCHANGED <<marker, touched, covered>>,
           ~Refreshing', pc' \notin {"plan", "users"}
    PROVE  DurableInv'
<1>1. ObservedOld'
  BY DEF ObservedOld, Unacknowledged
<1>2. ObservedCovered' /\ AcknowledgedHeld' /\ CommitCovered'
  BY DEF Refreshing, ObservedCovered, AcknowledgedHeld, CommitCovered
<1>3. DurableWork'
  BY DEF DurableInv, DurableWork, CurrentPending
<1> QED
  BY <1>1, <1>2, <1>3 DEF DurableInv

\* or gives the user in hand up.
LEMMA DurableLeave ==
    ASSUME DurableInv, UNCHANGED <<marker, touched, covered>>,
           Refreshing, LeaveUser, UNCHANGED <<todo, observed>>
    PROVE  DurableInv'
<1>1. ObservedOld'
  BY DEF DurableInv, ObservedOld, Unacknowledged, LeaveUser, Refreshing
<1>2. ObservedCovered' /\ AcknowledgedHeld' /\ CommitCovered'
  BY DEF LeaveUser, ObservedCovered, AcknowledgedHeld, CommitCovered
<1>3. DurableWork'
  BY DEF DurableInv, DurableWork, CurrentPending
<1> QED
  BY <1>1, <1>2, <1>3 DEF DurableInv

LEMMA DurableMutate ==
    ASSUME TypeOK, UserInHand, FreshInv, DurableInv,
           NEW u \in User, NEW w \in Window, NEW t \in Stamp, Mutate(u, w, t)
    PROVE  DurableInv'
<1> DEFINE k == <<u, w>>
<1> USE DEF TypeOK, MarkerTypeOK, DurableInv, Mutate, MarkDirty, Marked
<1>1. /\ k \in Key
      /\ marker'[k] = [gen |-> marker[k].gen + 1, cur |-> 0, proj |-> 0, marked |-> t]
      /\ touched'[k] = db[u] + 1
  OBVIOUS
<1>2. ASSUME NEW j \in Key, j # k
      PROVE  marker'[j] = marker[j] /\ touched'[j] = touched[j]
  BY <1>2
<1>3. marker[k].gen \in Nat /\ observed[k] \in Nat
  BY <1>1
<1> HIDE DEF k, TypeOK, MarkerTypeOK, MarkDirty, Marked
<1>4. ObservedOld'
  <2> SUFFICES ASSUME NEW j \in Key, Unacknowledged(j)
               PROVE  observed[j] <= marker'[j].gen
    BY DEF ObservedOld, Unacknowledged, Refreshing
  <2>1. CASE j = k
    BY <2>1, <1>1, <1>3 DEF ObservedOld
  <2>2. CASE j # k
    BY <2>2, <1>2 DEF ObservedOld
  <2> QED
    BY <2>1, <2>2
<1>5. ObservedCovered'
  <2> SUFFICES ASSUME pc \in {"acknowledge", "publish", "commit"}, NEW j \in Held,
                      marker'[j].gen = observed[j]
               PROVE  touched'[j] <= version
    BY DEF ObservedCovered, Held
  <2>1. j \in Key /\ Unacknowledged(j)
    BY DEF Held, Unacknowledged, Refreshing
  <2>2. j # k
    BY <2>1, <1>1, <1>3 DEF ObservedOld
  <2> QED
    BY <2>1, <2>2, <1>2 DEF ObservedCovered
<1>6. AcknowledgedHeld'
  BY DEF AcknowledgedHeld, WriteLocked, Held
<1>7. CommitCovered'
  BY DEF CommitCovered
<1>8. DurableWork'
  <2> SUFFICES ASSUME NEW j \in Key, touched'[j] > covered[j[1]]
               PROVE  CurrentPending(j)'
    BY DEF DurableWork
  <2>1. CASE j = k
    BY <2>1, <1>1, <1>3 DEF CurrentPending
  <2>2. CASE j # k
    BY <2>2, <1>2 DEF DurableWork, CurrentPending
  <2> QED
    BY <2>1, <2>2
<1> QED
  BY <1>4, <1>5, <1>6, <1>7, <1>8

LEMMA DurableObserve ==
    ASSUME TypeOK, DurableInv, ObserveMarkers
    PROVE  DurableInv'
<1> USE DEF TypeOK, MarkerTypeOK, DurableInv, ObserveMarkers
<1>1. ObservedOld'
  BY DEF ObservedOld
<1>2. ObservedCovered' /\ AcknowledgedHeld' /\ CommitCovered'
  BY DEF ObservedCovered, AcknowledgedHeld, CommitCovered
<1>3. DurableWork'
  BY DEF DurableWork, CurrentPending
<1> QED
  BY <1>1, <1>2, <1>3

LEMMA DurablePlan ==
    ASSUME DurableInv, PlanUsers
    PROVE  DurableInv'
<1> USE DEF DurableInv, PlanUsers
<1>1. ObservedOld'
  BY DEF ObservedOld, Unacknowledged
<1>2. ObservedCovered' /\ AcknowledgedHeld' /\ CommitCovered'
  BY DEF ObservedCovered, AcknowledgedHeld, CommitCovered
<1>3. DurableWork'
  BY DEF DurableWork, CurrentPending
<1> QED
  BY <1>1, <1>2, <1>3

LEMMA DurableTakeEpoch ==
    ASSUME DurableInv, NEW u \in User, TakeEpoch(u)
    PROVE  DurableInv'
<1> USE DEF DurableInv, TakeEpoch
<1>1. ObservedOld'
  BY DEF ObservedOld, Unacknowledged, Refreshing
<1>2. ObservedCovered' /\ AcknowledgedHeld' /\ CommitCovered'
  BY DEF ObservedCovered, AcknowledgedHeld, CommitCovered
<1>3. DurableWork'
  BY DEF DurableWork, CurrentPending
<1> QED
  BY <1>1, <1>2, <1>3

\* The read covers every mutation there is, so also those of the observed windows.
LEMMA DurableRead ==
    ASSUME TypeOK, FreshInv, DurableInv, ReadStats
    PROVE  DurableInv'
<1> USE DEF DurableInv, ReadStats
<1>1. ObservedOld'
  BY DEF ObservedOld, Unacknowledged, Refreshing
<1>2. ObservedCovered'
  BY DEF ObservedCovered, Held, FreshInv, TouchedCommitted
<1>3. AcknowledgedHeld' /\ CommitCovered'
  BY DEF AcknowledgedHeld, CommitCovered
<1>4. DurableWork'
  BY DEF DurableWork, CurrentPending
<1> QED
  BY <1>1, <1>2, <1>3, <1>4

LEMMA DurableAcknowledge ==
    ASSUME DurableInv, Acknowledge
    PROVE  DurableInv'
<1> USE DEF DurableInv, Acknowledge
<1>1. ObservedOld'
  BY DEF ObservedOld, Unacknowledged, Refreshing
<1>2. ObservedCovered'
  BY DEF ObservedCovered, Held
<1>3. AcknowledgedHeld' /\ CommitCovered'
  BY DEF AcknowledgedHeld, Held, Stale, CommitCovered
<1>4. DurableWork'
  BY DEF DurableWork, CurrentPending
<1> QED
  BY <1>1, <1>2, <1>3, <1>4

LEMMA DurablePublish ==
    ASSUME TypeOK, UserInHand, DurableInv, PublishSnapshot
    PROVE  DurableInv'
<1> USE DEF TypeOK, UserInHand, Refreshing, DurableInv, PublishSnapshot
<1>1. /\ covered'[user] >= version
      /\ \A u \in User : covered'[u] >= covered[u]
  OBVIOUS
<1>2. ObservedOld'
  BY DEF ObservedOld, Unacknowledged, LeaveUser
<1>3. ObservedCovered' /\ AcknowledgedHeld'
  BY DEF ObservedCovered, AcknowledgedHeld, Held, LeaveUser
<1>4. CommitCovered'
  BY <1>1 DEF CommitCovered, LeaveUser
<1>5. DurableWork'
  <2> SUFFICES ASSUME NEW k \in Key, touched[k] > covered'[k[1]]
               PROVE  CurrentPending(k)
    BY DEF DurableWork, CurrentPending
  <2>1. k[1] \in User /\ touched[k] \in Nat /\ covered[k[1]] \in Nat /\ covered'[k[1]] \in Nat
    OBVIOUS
  <2> QED
    BY <2>1, <1>1 DEF DurableWork
<1> QED
  BY <1>2, <1>3, <1>4, <1>5

\* The commit acknowledges windows whose mutations the installed snapshot has.
LEMMA DurableCommit ==
    ASSUME TypeOK, UserInHand, FreshInv, DurableInv, CommitUser
    PROVE  DurableInv'
<1> USE DEF TypeOK, UserInHand, Refreshing, DurableInv, CommitUser, LeaveUser
<1>1. ASSUME NEW k \in Key, k \notin Held
      PROVE  marker'[k] = marker[k]
  BY <1>1
<1>2. ObservedOld'
  <2> SUFFICES ASSUME NEW k \in Key, k[1] \in todo
               PROVE  observed[k] <= marker'[k].gen
    BY DEF ObservedOld, Unacknowledged
  <2>1. k \notin Held
    BY DEF Held, FreshInv, InHand
  <2> QED
    BY <2>1, <1>1 DEF ObservedOld, Unacknowledged
<1>3. ObservedCovered' /\ AcknowledgedHeld' /\ CommitCovered'
  BY DEF ObservedCovered, AcknowledgedHeld, CommitCovered
<1>4. DurableWork'
  <2> SUFFICES ASSUME NEW k \in Key, touched[k] > covered[k[1]]
               PROVE  CurrentPending(k)'
    BY DEF DurableWork
  <2>1. k \notin Held
    <3> SUFFICES ASSUME k \in Held PROVE FALSE
      OBVIOUS
    <3>1. touched[k] <= version /\ version <= covered[user] /\ k[1] = user
      BY DEF ObservedCovered, AcknowledgedHeld, CommitCovered, Held
    <3>2. touched[k] \in Nat /\ version \in Nat /\ covered[user] \in Nat
      OBVIOUS
    <3> QED
      BY <3>1, <3>2
  <2> QED
    BY <2>1, <1>1 DEF DurableWork, CurrentPending
<1> QED
  BY <1>2, <1>3, <1>4

\* The projection's acknowledgement deletes only rows the other consumer completed.
LEMMA DurableProject ==
    ASSUME TypeOK, DurableInv, NEW k \in Key, ProjectMarker(k)
    PROVE  DurableInv'
<1> USE DEF TypeOK, MarkerTypeOK, DurableInv, ProjectMarker
<1>1. ObservedOld'
  BY DEF ObservedOld, Unacknowledged, Refreshing
<1>2. ObservedCovered' /\ AcknowledgedHeld' /\ CommitCovered'
  BY DEF ObservedCovered, AcknowledgedHeld, CommitCovered
<1>3. ASSUME NEW j \in Key, CurrentPending(j)
      PROVE  CurrentPending(j)'
  BY <1>3 DEF CurrentPending, ProjectionAcknowledged, Settled
<1>4. DurableWork'
  BY <1>3 DEF DurableWork
<1> QED
  BY <1>1, <1>2, <1>4

LEMMA DurableStep ==
    TypeOK /\ UserInHand /\ FreshInv /\ DurableInv /\ [Next]_vars => DurableInv'
<1> SUFFICES ASSUME TypeOK, UserInHand, FreshInv, DurableInv, [Next]_vars
             PROVE  DurableInv'
  OBVIOUS
<1>1. ASSUME NEW u \in User, NEW w \in Window, NEW t \in Stamp, Mutate(u, w, t)
      PROVE  DurableInv'
  BY <1>1, DurableMutate
<1>2. ASSUME NEW u \in User, NEW n \in Versions(u), Announce(u, n)
      PROVE  DurableInv'
  BY <1>2, DurableElsewhere DEF Announce
<1>3. ASSUME NEW u \in User, NEW n \in Versions(u), Enqueue(u, n)
      PROVE  DurableInv'
  BY <1>3, DurableElsewhere DEF Enqueue
<1>4. CASE StartCycle
  BY <1>4, DurableOutside DEF StartCycle, Refreshing
<1>5. CASE ObserveMarkers
  BY <1>5, DurableObserve
<1>6. CASE PlanUsers
  BY <1>6, DurablePlan
<1>7. ASSUME NEW u \in User, TakeEpoch(u)
      PROVE  DurableInv'
  BY <1>7, DurableTakeEpoch
<1>8. CASE ReadStats
  BY <1>8, DurableRead
<1>9. CASE Acknowledge
  BY <1>9, DurableAcknowledge
<1>10. CASE AcknowledgeStale
  BY <1>10, DurableLeave DEF AcknowledgeStale, GiveUpUser, Refreshing
<1>11. CASE PublishSnapshot
  BY <1>11, DurablePublish
<1>12. CASE PublishRejected
  BY <1>12, DurableLeave DEF PublishRejected, GiveUpUser, Refreshing
<1>13. CASE CommitUser
  BY <1>13, DurableCommit
<1>14. CASE FinishUsers
  BY <1>14, DurableOutside DEF FinishUsers, Refreshing
<1>15. CASE CountBacklog
  BY <1>15, DurableOutside DEF CountBacklog, Refreshing
<1>16. CASE Conclude
  BY <1>16, DurableOutside DEF Conclude, Refreshing
<1>17. CASE SkipProjection
  BY <1>17, DurableOutside DEF SkipProjection, RecordCycle, Refreshing
<1>18. CASE ObserveProjection
  BY <1>18, DurableOutside DEF ObserveProjection, Refreshing
<1>19. ASSUME NEW k \in Key, ProjectMarker(k)
       PROVE  DurableInv'
  BY <1>19, DurableProject
<1>20. CASE FinishProjection
  BY <1>20, DurableOutside DEF FinishProjection, RecordCycle, Refreshing
<1>21. CASE FullIntervalPasses
  BY <1>21, DurableElsewhere DEF FullIntervalPasses
<1>22. ASSUME NEW u \in User, NEW n \in Versions(u), EnqueueRaises(u, n)
       PROVE  DurableInv'
  BY <1>22, DurableElsewhere DEF EnqueueRaises, Reject
<1>23. CASE RefreshRaises
  BY <1>23, DurableLeave DEF RefreshRaises, GiveUpUser, Refreshing
<1>24. CASE CommitRaises
  BY <1>24, DurableLeave DEF CommitRaises, GiveUpUser, Refreshing
<1>25. CASE CycleRaises
  BY <1>25, DurableOutside DEF CycleRaises, Refreshing
<1>26. CASE ProjectionRaises
  BY <1>26, DurableOutside DEF ProjectionRaises, RecordCycle, Refreshing
<1>27. CASE Crash
  BY <1>27, DurableOutside DEF Crash, Refreshing
<1>28. ASSUME NEW u \in User, NEW n \in Versions(u), Overflow(u, n)
       PROVE  DurableInv'
  BY <1>28, DurableElsewhere DEF Overflow, Reject
<1>29. ASSUME NEW u \in User, NEW n \in Versions(u), RecordLoss(u, n)
       PROVE  DurableInv'
  BY <1>29, DurableElsewhere DEF RecordLoss
<1>30. CASE UNCHANGED vars
  BY <1>30, DurableElsewhere
<1> QED
  BY <1>1, <1>2, <1>3, <1>4, <1>5, <1>6, <1>7, <1>8, <1>9, <1>10, <1>11, <1>12, <1>13,
     <1>14, <1>15, <1>16, <1>17, <1>18, <1>19, <1>20, <1>21, <1>22, <1>23, <1>24, <1>25,
     <1>26, <1>27, <1>28, <1>29, <1>30 DEF Next, Request, Worker, Faults

\* The strengthening is inductive.
THEOREM InvariantHolds == Spec => []IInv
<1>1. Init => IInv
  BY TypeInit, FreshInit, DurableInit DEF IInv
<1>2. IInv /\ [Next]_vars => IInv'
  BY TypeStep, FreshStep, DurableStep DEF IInv
<1> QED
  BY <1>1, <1>2, PTL DEF Spec

\* The dirty table is the recovery authority, whatever the number of users, windows
\* and faults: a mutation no installed snapshot ever had still has its marker
\* pending for the current consumer.
THEOREM WorkIsDurable == Spec => []DurableWork
<1>1. IInv => DurableWork
  BY DEF IInv, DurableInv
<1> QED
  BY <1>1, InvariantHolds, PTL
--------------------------------------------------------------------------------
(***************************************************************************)
(* The pipeline implements SnapshotCache.                                  *)
(***************************************************************************)

LEMMA CacheInit == Init => Cache!Init
<1> SUFFICES ASSUME Init PROVE Cache!Init
  OBVIOUS
<1>1. ASSUME NEW u \in User PROVE ~Visible(u)
  <2>1. epoch[u] = 0 /\ record[u].epoch = -1
    BY DEF Init, ProcessInit, StoreInit
  <2> QED
    BY <2>1 DEF Visible
<1>2. Served = Cache!Empty
  BY <1>1 DEF Served, Cache!Empty, Cache!None
<1> QED
  BY <1>2 DEF Init, ProcessInit, Cache!Init

\* Whatever leaves the store, the database and the announcements alone stutters.
LEMMA CacheStutters ==
    ASSUME UNCHANGED <<db, unannounced, epoch, record>>
    PROVE  UNCHANGED Cache!vars
  BY DEF Served, Visible, Cache!vars

LEMMA CacheCommits ==
    ASSUME NEW u \in User, NEW w \in Window, NEW t \in Stamp, Mutate(u, w, t)
    PROVE  Cache!Commit(u)
<1>1. Served' = Served
  BY DEF Mutate, Served, Visible
<1> QED
  BY <1>1 DEF Mutate, Cache!Commit

LEMMA CacheAnnounces ==
    ASSUME TypeOK, FreshInv, NEW u \in User, NEW n \in Versions(u), Announce(u, n)
    PROVE  Cache!Announce(u)
<1> USE DEF TypeOK, StoreTypeOK, FreshInv, Announce, InvalidateUser
<1>1. ~Visible(u)'
  BY DEF RecordsOld, Visible
<1>2. ASSUME NEW v \in User, v # u
      PROVE  Visible(v)' = Visible(v) /\ record'[v] = record[v]
  BY <1>2 DEF Visible
<1>3. Served' = [Served EXCEPT ![u] = -1]
  BY <1>1, <1>2 DEF Served
<1> QED
  BY <1>3 DEF Cache!Announce, Cache!None

LEMMA CacheFills ==
    ASSUME TypeOK, FreshInv, PublishSnapshot, NEW u \in User, u = user
    PROVE  Cache!Fill(u)
<1> USE DEF TypeOK, StoreTypeOK, FreshInv, PublishSnapshot, Install, Installable
<1>1. Visible(u)' /\ record'[u].version = version
  BY DEF Visible
<1>2. ASSUME NEW v \in User, v # u
      PROVE  Visible(v)' = Visible(v) /\ record'[v] = record[v]
  BY <1>2 DEF Visible
<1>3. Served' = [Served EXCEPT ![u] = version]
  BY <1>1, <1>2 DEF Served
<1>4. version \in 0..db[u]
  BY DEF CandidateCommitted
<1>5. Cache!Lag(u, version) \subseteq unannounced[u]
  BY DEF CandidateFresh, Missing, Cache!Lag
<1> QED
  BY <1>3, <1>4, <1>5 DEF Cache!Fill

LEMMA CacheDrops ==
    ASSUME TypeOK, FreshInv, CommitRaises, NEW u \in User, u = user
    PROVE  Cache!Drop(u)
<1> USE DEF TypeOK, StoreTypeOK, FreshInv, CommitRaises, InvalidateUser, GiveUpUser
<1>1. ~Visible(u)'
  BY DEF RecordsOld, Visible
<1>2. ASSUME NEW v \in User, v # u
      PROVE  Visible(v)' = Visible(v) /\ record'[v] = record[v]
  BY <1>2 DEF Visible
<1>3. Served' = [Served EXCEPT ![u] = -1]
  BY <1>1, <1>2 DEF Served
<1> QED
  BY <1>3 DEF Cache!Drop, Cache!None

LEMMA CacheRestarts ==
    ASSUME Crash
    PROVE  Cache!Restart
<1>1. ASSUME NEW u \in User PROVE ~Visible(u)'
  <2>1. epoch'[u] = 0 /\ record'[u].epoch = -1
    BY DEF Crash
  <2> QED
    BY <2>1 DEF Visible
<1>2. Served' = Cache!Empty
  BY <1>1 DEF Served, Cache!Empty, Cache!None
<1> QED
  BY <1>2 DEF Crash, Cache!Restart

LEMMA CacheStep == IInv /\ [Next]_vars => [Cache!Next]_Cache!vars
<1> SUFFICES ASSUME TypeOK, UserInHand, FreshInv, [Next]_vars
             PROVE  [Cache!Next]_Cache!vars
  BY DEF IInv
<1>1. ASSUME NEW u \in User, NEW w \in Window, NEW t \in Stamp, Mutate(u, w, t)
      PROVE  Cache!Next
  BY <1>1, CacheCommits DEF Cache!Next
<1>2. ASSUME NEW u \in User, NEW n \in Versions(u), Announce(u, n)
      PROVE  Cache!Next
  BY <1>2, CacheAnnounces DEF Cache!Next
<1>3. ASSUME NEW u \in User, NEW n \in Versions(u), Enqueue(u, n)
      PROVE  UNCHANGED Cache!vars
  BY <1>3, CacheStutters DEF Enqueue
<1>4. CASE StartCycle \/ ObserveMarkers \/ PlanUsers
  BY <1>4, CacheStutters DEF StartCycle, ObserveMarkers, PlanUsers
<1>5. ASSUME NEW u \in User, TakeEpoch(u)
      PROVE  UNCHANGED Cache!vars
  BY <1>5, CacheStutters DEF TakeEpoch
<1>6. CASE ReadStats \/ Acknowledge \/ AcknowledgeStale
  BY <1>6, CacheStutters DEF ReadStats, Acknowledge, AcknowledgeStale, GiveUpUser
<1>7. CASE PublishSnapshot
  <2>1. user \in User
    BY <1>7 DEF PublishSnapshot, UserInHand, Refreshing
  <2> QED
    BY <1>7, <2>1, CacheFills DEF Cache!Next
<1>8. CASE PublishRejected \/ CommitUser
  BY <1>8, CacheStutters DEF PublishRejected, CommitUser, GiveUpUser
<1>9. CASE FinishUsers \/ CountBacklog \/ Conclude
  BY <1>9, CacheStutters DEF FinishUsers, CountBacklog, Conclude
<1>10. CASE SkipProjection \/ ObserveProjection \/ FinishProjection
  BY <1>10, CacheStutters DEF SkipProjection, ObserveProjection, FinishProjection
<1>11. ASSUME NEW k \in Key, ProjectMarker(k)
       PROVE  UNCHANGED Cache!vars
  BY <1>11, CacheStutters DEF ProjectMarker
<1>12. CASE FullIntervalPasses
  BY <1>12, CacheStutters DEF FullIntervalPasses
<1>13. ASSUME NEW u \in User, NEW n \in Versions(u), EnqueueRaises(u, n)
       PROVE  UNCHANGED Cache!vars
  BY <1>13, CacheStutters DEF EnqueueRaises, Reject
<1>14. CASE RefreshRaises \/ CycleRaises \/ ProjectionRaises
  BY <1>14, CacheStutters DEF RefreshRaises, GiveUpUser, CycleRaises, ProjectionRaises
<1>15. CASE CommitRaises
  <2>1. user \in User
    BY <1>15 DEF CommitRaises, UserInHand, Refreshing
  <2> QED
    BY <1>15, <2>1, CacheDrops DEF Cache!Next
<1>16. CASE Crash
  BY <1>16, CacheRestarts DEF Cache!Next
<1>17. ASSUME NEW u \in User, NEW n \in Versions(u), Overflow(u, n)
       PROVE  UNCHANGED Cache!vars
  BY <1>17, CacheStutters DEF Overflow, Reject
<1>18. ASSUME NEW u \in User, NEW n \in Versions(u), RecordLoss(u, n)
       PROVE  UNCHANGED Cache!vars
  BY <1>18, CacheStutters DEF RecordLoss
<1>19. CASE UNCHANGED vars
  BY <1>19, CacheStutters
<1> QED
  BY <1>1, <1>2, <1>3, <1>4, <1>5, <1>6, <1>7, <1>8, <1>9, <1>10, <1>11, <1>12, <1>13,
     <1>14, <1>15, <1>16, <1>17, <1>18, <1>19 DEF Next, Request, Worker, Faults

\* Every behaviour of the pipeline is one of SnapshotCache: the endpoint never sees
\* the markers, the queue, the epochs or the worker's steps.
THEOREM PipelineIsACache == Spec => ImplementsSnapshotCache
  BY CacheInit, CacheStep, InvariantHolds, PTL DEF Spec, Cache!Spec, ImplementsSnapshotCache

--------------------------------------------------------------------------------
(***************************************************************************)
(* The markers implement the work shared with the projection.              *)
(***************************************************************************)
LEMMA StepShares == ASSUME TypeOK, [Next]_vars PROVE Shares
<1>1. ASSUME NEW u \in User, NEW w \in Window, NEW t \in Stamp, Mutate(u, w, t)
      PROVE  Shares
  <2> DEFINE k == <<u, w>>
  <2>1. k \in Key /\ MarkDirty(k, t)
    BY <1>1 DEF Mutate
  <2> HIDE DEF Key, k
  <2> QED
    BY <2>1 DEF Shares
<1> HIDE DEF Key
<1>2. CASE CommitUser
  <2>1. Held \in SUBSET Key
    BY DEF Held
  <2>2. marker' = [k \in Key |->
                     IF k \in Held THEN CurrentAcknowledged(marker[k]) ELSE marker[k]]
    BY <1>2 DEF CommitUser
  <2> QED
    BY <2>1, <2>2 DEF Shares
<1>3. ASSUME NEW k \in Key, ProjectMarker(k) PROVE Shares
  BY <1>3 DEF ProjectMarker, Shares
<1>4. ASSUME UNCHANGED marker PROVE Shares
  BY <1>4 DEF Shares
<1>5. ASSUME NEW u \in User, NEW n \in Versions(u),
             Announce(u, n) \/ Enqueue(u, n) \/ Overflow(u, n) \/ RecordLoss(u, n)
               \/ EnqueueRaises(u, n)
      PROVE  UNCHANGED marker
  BY <1>5 DEF Announce, Enqueue, Overflow, RecordLoss, EnqueueRaises, Reject
<1>6. ASSUME NEW u \in User, TakeEpoch(u) PROVE UNCHANGED marker
  BY <1>6 DEF TakeEpoch
<1>7. CASE StartCycle \/ ObserveMarkers \/ PlanUsers \/ ReadStats \/ Acknowledge
             \/ AcknowledgeStale \/ PublishSnapshot \/ PublishRejected
  BY <1>4, <1>7 DEF StartCycle, ObserveMarkers, PlanUsers, ReadStats, Acknowledge,
     AcknowledgeStale, PublishSnapshot, PublishRejected, GiveUpUser
<1>8. CASE FinishUsers \/ CountBacklog \/ Conclude \/ SkipProjection \/ ObserveProjection
             \/ FinishProjection \/ FullIntervalPasses
  BY <1>4, <1>8 DEF FinishUsers, CountBacklog, Conclude, SkipProjection,
     ObserveProjection, FinishProjection, FullIntervalPasses
<1>9. CASE RefreshRaises \/ CommitRaises \/ CycleRaises \/ ProjectionRaises \/ Crash
             \/ UNCHANGED vars
  BY <1>4, <1>9 DEF RefreshRaises, GiveUpUser, CommitRaises, CycleRaises,
     ProjectionRaises, Crash
<1> QED
  BY <1>1, <1>2, <1>3, <1>4, <1>5, <1>6, <1>7, <1>8, <1>9
     DEF Next, Request, Worker, Faults

\* The current consumer never takes work off the projection, and drops its own only by
\* a committed acknowledgement (refresher._refresh_user, dirty._acknowledge).
THEOREM SharesWithProjection == Spec => ImplementsSharedWork
<1>1. Init => Work!Init
  BY NothingOwed DEF Init
<1>2. TypeOK /\ [Next]_vars => [Work!Next]_Owed
  BY StepShares, SharesWork DEF TypeOK
<1> QED
  BY <1>1, <1>2, TypeCorrect, PTL DEF Spec, ImplementsSharedWork, Work!Spec

--------------------------------------------------------------------------------
(***************************************************************************)
(* What a full cycle recovers, and what a failed refresh leaves behind.    *)
(***************************************************************************)

\* Somebody is about to tell the worker of the user, or has told it.
Hinted(u) ==
    \/ \E i \in 1..Len(queue) : queue[i] = u
    \/ unannounced[u] # {} \/ unqueued[u] # {} \/ rejected[u] # {}

Accounted(u) == Visible(u) \/ Pending(u)

\* A full cycle takes its page in hand.
InPage == pc \in {"users", "backlog", "conclude"} \/ Refreshing

\* Until the commit, the installed snapshot is visible or its user hinted again.
CommitVisible == pc = "commit" /\ ~moved => Visible(user) \/ Hinted(user)

\* Unless a loss was recorded meanwhile, whoever of the page is through, and was not
\* given up, is accounted for.
PageAccounted ==
    InPage /\ ~moved => \A u \in page \ (todo \cup failed) :
        (Refreshing /\ u = user) \/ Accounted(u)

NoneLeft == pc \in {"backlog", "conclude"} => todo = {} /\ full

\* The page starts at the cursor.
PageOfCursor == InPage /\ full => page = UsersAfter(cursor)

RecoveryInv == CommitVisible /\ PageAccounted /\ NoneLeft /\ PageOfCursor

\* A user is given up once in a cycle, and after it was taken.
GivenUpOnce ==
    /\ pc \in {"observe", "plan"} => failed = {}
    /\ pc = "users" \/ Refreshing => failed \cap todo = {}
    /\ Refreshing => user \notin failed

\* An observed marker that was marked again waits for the current consumer.
OvertakenPending ==
    \A k \in Key : Unacknowledged(k) /\ observed[k] > 0 /\ marker[k].gen # observed[k]
        => CurrentPending(k)

\* Where nothing has failed yet: who moved the epoch of the user in hand hints it,
EpochHinted == faults = 0 /\ Refreshing /\ expected # epoch[user] => required \/ Hinted(user)

\* and a user that was given up is not forgotten.
GivenUpPending == faults = 0 => \A u \in failed : required \/ fullDue \/ Pending(u)

RetryInv == GivenUpOnce /\ OvertakenPending /\ EpochHinted /\ GivenUpPending

LEMMA PendingHints ==
    ASSUME NEW u
    PROVE  Pending(u) <=> (\E w \in Window : CurrentPending(<<u, w>>)) \/ Hinted(u)
  BY DEF Pending, Hinted

\* A request passes its hint on; only recording its loss ends that, and it demands
\* a reconciliation.
RequestStep ==
    \/ \E u \in User, w \in Window, t \in Stamp : Mutate(u, w, t)
    \/ \E u \in User : \E n \in Versions(u) :
          Announce(u, n) \/ Enqueue(u, n) \/ Overflow(u, n) \/ EnqueueRaises(u, n)

LEMMA AppendKeeps ==
    ASSUME NEW q \in Seq(User), NEW u \in User
    PROVE  LET r == Append(q, u)
           IN  /\ \A i \in 1..Len(q) : i \in 1..Len(r) /\ r[i] = q[i]
               /\ \E i \in 1..Len(r) : r[i] = u
<1> DEFINE r == Append(q, u)
<1>1. Len(q) \in Nat /\ Len(r) = Len(q) + 1
  OBVIOUS
<1>2. \A i \in 1..Len(q) : i \in 1..Len(r) /\ r[i] = q[i]
  BY <1>1
<1>3. Len(r) \in 1..Len(r) /\ r[Len(r)] = u
  BY <1>1
<1> QED
  BY <1>2, <1>3

LEMMA RequestsHint ==
    ASSUME TypeOK, RequestStep, NEW v \in User
    PROVE  /\ Hinted(v) => Hinted(v)'
           /\ Visible(v) => Visible(v)' \/ Hinted(v)'
           /\ epoch'[v] # epoch[v] => Hinted(v)'
<1> USE DEF TypeOK, PublisherTypeOK, StoreTypeOK
<1>1. ASSUME NEW u \in User, NEW w \in Window, NEW t \in Stamp, Mutate(u, w, t)
      PROVE  /\ Hinted(v) => Hinted(v)'
             /\ Visible(v) => Visible(v)'
             /\ epoch'[v] = epoch[v]
  BY <1>1 DEF Mutate, Hinted, Visible
<1>2. ASSUME NEW u \in User, NEW n \in Versions(u), Announce(u, n)
      PROVE  /\ Hinted(v) => Hinted(v)'
             /\ Visible(v) => Visible(v)' \/ Hinted(v)'
             /\ epoch'[v] # epoch[v] => Hinted(v)'
  <2>1. CASE v = u
    <3>1. n \in unqueued'[v]
      BY <1>2, <2>1 DEF Announce
    <3> QED
      BY <3>1 DEF Hinted
  <2>2. CASE v # u
    BY <1>2, <2>2 DEF Announce, InvalidateUser, Hinted, Visible
  <2> QED
    BY <2>1, <2>2
<1>3. ASSUME NEW u \in User, NEW n \in Versions(u), Enqueue(u, n)
      PROVE  /\ Hinted(v) => Hinted(v)'
             /\ Visible(v) => Visible(v)'
             /\ epoch'[v] = epoch[v]
  <2>1. queue' = Append(queue, u)
    BY <1>3 DEF Enqueue, PutEvent
  <2>2. /\ \A i \in 1..Len(queue) : i \in 1..Len(queue') /\ queue'[i] = queue[i]
        /\ \E i \in 1..Len(queue') : queue'[i] = u
    BY <2>1, AppendKeeps
  <2>3. CASE v = u
    BY <1>3, <2>2, <2>3 DEF Enqueue, Hinted, Visible
  <2>4. CASE v # u
    BY <1>3, <2>2, <2>4 DEF Enqueue, Hinted, Visible
  <2> QED
    BY <2>3, <2>4
<1>4. ASSUME NEW u \in User, NEW n \in Versions(u), Reject(u, n)
      PROVE  /\ Hinted(v) => Hinted(v)'
             /\ Visible(v) => Visible(v)'
             /\ epoch'[v] = epoch[v]
  <2>1. CASE v = u
    <3>1. n \in rejected'[v]
      BY <1>4, <2>1 DEF Reject
    <3> QED
      BY <1>4, <3>1 DEF Hinted, Reject, Visible
  <2>2. CASE v # u
    BY <1>4, <2>2 DEF Reject, Hinted, Visible
  <2> QED
    BY <2>1, <2>2
<1> QED
  BY <1>1, <1>2, <1>3, <1>4 DEF RequestStep, Overflow, EnqueueRaises

\* Nor does one take a marker's work away.
LEMMA RequestsKeepMarkers ==
    ASSUME TypeOK, RequestStep, NEW k \in Key, CurrentPending(k)
    PROVE  CurrentPending(k)'
<1>1. ASSUME NEW u \in User, NEW w \in Window, NEW t \in Stamp, Mutate(u, w, t)
      PROVE  CurrentPending(k)'
  <2> DEFINE j == <<u, w>>
  <2>1. /\ j \in Key /\ marker' = [marker EXCEPT ![j] = Marked(marker[j], t)]
        /\ marker[j].gen \in Nat /\ marker \in [Key -> Row]
    BY <1>1 DEF Mutate, MarkDirty, TypeOK, MarkerTypeOK
  <2> HIDE DEF j
  <2>2. CASE k = j
    BY <2>1, <2>2 DEF CurrentPending, Marked
  <2>3. CASE k # j
    BY <2>1, <2>3 DEF CurrentPending
  <2> QED
    BY <2>2, <2>3
<1>2. CASE UNCHANGED marker
  BY <1>2 DEF CurrentPending
<1> QED
  BY <1>1, <1>2 DEF RequestStep, Announce, Enqueue, Overflow, EnqueueRaises, Reject

LEMMA RequestsAccount ==
    ASSUME TypeOK, RequestStep, NEW u \in User
    PROVE  (Pending(u) => Pending(u)') /\ (Accounted(u) => Accounted(u)')
<1>1. ASSUME NEW w \in Window, CurrentPending(<<u, w>>) PROVE CurrentPending(<<u, w>>)'
  BY <1>1, RequestsKeepMarkers
<1>2. Pending(u)' <=> (\E w \in Window : CurrentPending(<<u, w>>)') \/ Hinted(u)'
  BY DEF Pending, Hinted
<1> QED
  BY <1>1, <1>2, RequestsHint, PendingHints DEF Accounted

\* What the accounts are kept in.
accountVars == <<marker, queue, unannounced, unqueued, rejected, epoch, record>>

LEMMA AccountsStay ==
    ASSUME UNCHANGED accountVars, NEW u \in User
    PROVE  /\ Hinted(u)' <=> Hinted(u)
           /\ Visible(u)' <=> Visible(u)
           /\ Pending(u)' <=> Pending(u)
           /\ Accounted(u)' <=> Accounted(u)
  BY DEF accountVars, Hinted, Visible, Pending, Accounted, CurrentPending

\* It leaves the worker alone.
LEMMA RequestsFrame ==
    ASSUME TypeOK, RequestStep
    PROVE  /\ UNCHANGED <<pc, todo, failed, full, page, cursor, user, expected>>
           /\ UNCHANGED <<required, moved, fullDue>>
           /\ faults' = 0 => faults = 0
<1>1. /\ UNCHANGED <<pc, todo, failed, full, page, cursor, user, expected>>
      /\ UNCHANGED <<required, moved, fullDue>>
  BY DEF RequestStep, Mutate, Announce, Enqueue, PutEvent, Overflow, EnqueueRaises, Reject
<1>2. faults' = faults \/ faults' = faults + 1
  BY DEF RequestStep, Mutate, Announce, Enqueue, Overflow, EnqueueRaises, Fault
<1>3. faults \in Nat
  BY DEF TypeOK
<1> QED
  BY <1>1, <1>2, <1>3

LEMMA RecoveryRequest ==
    ASSUME TypeOK, UserInHand, RecoveryInv, RequestStep
    PROVE  RecoveryInv'
<1>1. UNCHANGED <<pc, todo, failed, full, page, cursor, user, moved>>
  BY RequestsFrame
<1>2. CommitVisible'
  <2> SUFFICES ASSUME pc = "commit", ~moved, NEW u, u = user
               PROVE  Visible(u)' \/ Hinted(u)'
    BY <1>1 DEF CommitVisible, Visible, Hinted
  <2>1. u \in User /\ (Visible(u) \/ Hinted(u))
    BY DEF UserInHand, Refreshing, RecoveryInv, CommitVisible
  <2> QED
    BY <2>1, RequestsHint
<1>3. PageAccounted'
  <2> SUFFICES ASSUME InPage, ~moved, NEW u \in page \ (todo \cup failed),
                      ~(Refreshing /\ u = user)
               PROVE  Accounted(u)'
    BY <1>1 DEF PageAccounted, InPage, Refreshing
  <2>1. u \in User /\ Accounted(u)
    BY DEF TypeOK, RecoveryInv, PageAccounted
  <2> QED
    BY <2>1, RequestsAccount
<1>4. NoneLeft' /\ PageOfCursor'
  BY <1>1 DEF RecoveryInv, NoneLeft, PageOfCursor, InPage, Refreshing, UsersAfter
<1> QED
  BY <1>2, <1>3, <1>4 DEF RecoveryInv

\* A step that ends outside the page, or after a new loss, claims nothing.
LEMMA RecoveryOutside ==
    ASSUME pc' \in {"idle", "observe", "plan", "project", "projecting"}
    PROVE  RecoveryInv'
  BY DEF RecoveryInv, CommitVisible, PageAccounted, NoneLeft, PageOfCursor, InPage,
         Refreshing

\* The user in hand stays there.
LEMMA RecoveryElsewhere ==
    ASSUME TypeOK, UserInHand, RecoveryInv, UNCHANGED accountVars,
           UNCHANGED <<todo, failed, full, page, cursor, user, moved>>,
           \/ UNCHANGED pc
           \/ pc = "read" /\ pc' = "acknowledge"
           \/ pc = "acknowledge" /\ pc' = "publish"
    PROVE  RecoveryInv'
<1>1. CommitVisible'
  <2> SUFFICES ASSUME pc = "commit", ~moved, NEW u, u = user
               PROVE  Visible(u)' \/ Hinted(u)'
    BY DEF CommitVisible, Visible, Hinted
  <2>1. u \in User /\ (Visible(u) \/ Hinted(u))
    BY DEF UserInHand, Refreshing, RecoveryInv, CommitVisible
  <2> QED
    BY <2>1, AccountsStay
<1>2. PageAccounted'
  <2> SUFFICES ASSUME InPage, ~moved, NEW u \in page \ (todo \cup failed),
                      ~(Refreshing /\ u = user)
               PROVE  Accounted(u)'
    BY DEF PageAccounted, InPage, Refreshing
  <2>1. u \in User /\ Accounted(u)
    BY DEF TypeOK, RecoveryInv, PageAccounted
  <2> QED
    BY <2>1, AccountsStay
<1>3. NoneLeft' /\ PageOfCursor'
  BY DEF RecoveryInv, NoneLeft, PageOfCursor, InPage, Refreshing, UsersAfter
<1> QED
  BY <1>1, <1>2, <1>3 DEF RecoveryInv

\* It is given up, and whatever becomes of its own snapshot, the others keep theirs.
LEMMA RecoveryGiveUp ==
    ASSUME TypeOK, UserInHand, RecoveryInv, Refreshing, GiveUpUser,
           \A v \in User : v # user => record'[v] = record[v] /\ epoch'[v] = epoch[v]
    PROVE  RecoveryInv'
<1>1. CommitVisible' /\ NoneLeft' /\ PageOfCursor'
  BY DEF GiveUpUser, LeaveUser, CommitVisible, NoneLeft, RecoveryInv, PageOfCursor, InPage,
         UsersAfter
<1>2. PageAccounted'
  <2> SUFFICES ASSUME ~moved, NEW u \in page \ (todo \cup failed), u # user
               PROVE  Accounted(u)'
    BY DEF PageAccounted, GiveUpUser, LeaveUser
  <2>1. u \in User /\ Accounted(u)
    BY DEF TypeOK, RecoveryInv, PageAccounted, InPage
  <2> QED
    BY <2>1 DEF GiveUpUser, Accounted, Visible, Pending, CurrentPending
<1> QED
  BY <1>1, <1>2 DEF RecoveryInv

\* The commit touches the observed markers of the user in hand only.
LEMMA CommitKeeps ==
    ASSUME CommitUser, NEW u \in User, u # user, NEW w \in Window, CurrentPending(<<u, w>>)
    PROVE  CurrentPending(<<u, w>>)'
<1> DEFINE k == <<u, w>>
<1>1. k \in Key /\ k \notin Held
  BY DEF Held
<1> HIDE DEF k
<1>2. marker'[k] = marker[k]
  BY <1>1 DEF CommitUser
<1>3. CurrentPending(k) => CurrentPending(k)'
  BY <1>2 DEF CurrentPending
<1> QED
  BY <1>3 DEF k

LEMMA RecoveryTakeEpoch ==
    ASSUME TypeOK, RecoveryInv, NEW u \in User, TakeEpoch(u)
    PROVE  RecoveryInv'
<1>1. CommitVisible' /\ NoneLeft' /\ PageOfCursor'
  BY DEF TakeEpoch, CommitVisible, NoneLeft, RecoveryInv, PageOfCursor, InPage, UsersAfter
<1>2. PageAccounted'
  <2> SUFFICES ASSUME ~moved, NEW v \in page \ (todo \cup failed), v # u
               PROVE  Accounted(v)'
    BY DEF PageAccounted, TakeEpoch, Refreshing
  <2>1. v \in User /\ Accounted(v)
    BY DEF TypeOK, RecoveryInv, PageAccounted, InPage, Refreshing, TakeEpoch
  <2> QED
    BY <2>1, AccountsStay DEF TakeEpoch, accountVars
<1> QED
  BY <1>1, <1>2 DEF RecoveryInv

LEMMA RecoveryPublish ==
    ASSUME TypeOK, UserInHand, RecoveryInv, PublishSnapshot
    PROVE  RecoveryInv'
<1> SUFFICES ASSUME NEW h \in User, h = user PROVE RecoveryInv'
  BY DEF UserInHand, Refreshing, PublishSnapshot
<1>1. pc = "publish" /\ pc' \in {"users", "commit"} /\ (pc' = "commit" => user' = user)
  BY DEF PublishSnapshot, LeaveUser
<1>2. Visible(h)'
  <2>1. record'[h].epoch = expected /\ epoch'[h] = expected
    BY DEF PublishSnapshot, Install, Installable, TypeOK, StoreTypeOK
  <2> QED
    BY <2>1 DEF Visible
<1>3. CommitVisible'
  <2>1. CASE pc' = "commit"
    <3>1. user' = h
      BY <1>1, <2>1
    <3> QED
      BY <1>2, <3>1 DEF CommitVisible, Visible
  <2>2. CASE pc' = "users"
    BY <2>2 DEF CommitVisible
  <2> QED
    BY <1>1, <2>1, <2>2
<1>4. PageAccounted'
  <2> SUFFICES ASSUME ~moved, NEW u \in page \ (todo \cup failed)
               PROVE  Accounted(u)'
    BY DEF PageAccounted, PublishSnapshot
  <2>1. CASE u = h
    BY <1>2, <2>1 DEF Accounted
  <2>2. CASE u # h
    <3>1. u \in User /\ Accounted(u)
      BY <1>1, <2>2 DEF TypeOK, RecoveryInv, PageAccounted, InPage, Refreshing
    <3>2. record'[u] = record[u] /\ epoch' = epoch
      BY <2>2, <3>1 DEF PublishSnapshot, Install
    <3> QED
      BY <3>1, <3>2 DEF PublishSnapshot, Accounted, Visible, Pending, CurrentPending
  <2> QED
    BY <2>1, <2>2
<1>5. NoneLeft' /\ PageOfCursor'
  BY <1>1 DEF PublishSnapshot, NoneLeft, RecoveryInv, PageOfCursor, InPage, Refreshing,
     UsersAfter
<1> QED
  BY <1>3, <1>4, <1>5 DEF RecoveryInv

\* The commit follows a visible installation, and acknowledges nobody else's work.
LEMMA RecoveryCommit ==
    ASSUME TypeOK, UserInHand, RecoveryInv, CommitUser
    PROVE  RecoveryInv'
<1>1. pc = "commit" /\ pc' = "users" /\ user \in User
  BY DEF CommitUser, LeaveUser, UserInHand, Refreshing
<1>2. CommitVisible' /\ NoneLeft' /\ PageOfCursor'
  BY <1>1 DEF CommitUser, CommitVisible, NoneLeft, RecoveryInv, PageOfCursor, InPage,
     Refreshing, UsersAfter
<1>3. PageAccounted'
  <2> SUFFICES ASSUME ~moved, NEW u \in page \ (todo \cup failed)
               PROVE  Accounted(u)'
    BY DEF PageAccounted, CommitUser
  <2>1. u \in User
    BY DEF TypeOK
  <2>2. (Visible(u)' <=> Visible(u)) /\ (Hinted(u)' <=> Hinted(u))
    BY DEF CommitUser, Visible, Hinted
  <2>3. CASE u = user
    <3>1. Visible(u) \/ Hinted(u)
      BY <1>1, <2>3 DEF RecoveryInv, CommitVisible
    <3> QED
      BY <2>2, <3>1 DEF Accounted, Pending, Hinted
  <2>4. CASE u # user
    <3>1. Accounted(u)
      BY <1>1, <2>4 DEF RecoveryInv, PageAccounted, InPage, Refreshing
    <3>2. ASSUME NEW w \in Window, CurrentPending(<<u, w>>)
          PROVE  CurrentPending(<<u, w>>)'
      BY <2>1, <2>4, <3>2, CommitKeeps
    <3> QED
      BY <2>2, <3>1, <3>2 DEF Accounted, Pending, Hinted
  <2> QED
    BY <2>3, <2>4
<1> QED
  BY <1>2, <1>3 DEF RecoveryInv

LEMMA RecoveryFinish ==
    ASSUME TypeOK, RecoveryInv, FinishUsers \/ CountBacklog
    PROVE  RecoveryInv'
<1>1. /\ UNCHANGED accountVars /\ UNCHANGED <<todo, failed, full, page, cursor, moved>>
      /\ pc \in {"users", "backlog"} /\ pc' \in {"backlog", "project", "conclude"}
      /\ todo = {} /\ (pc' # "project" => full)
  BY DEF FinishUsers, CountBacklog, accountVars, RecoveryInv, NoneLeft
<1>2. CommitVisible' /\ NoneLeft' /\ PageOfCursor'
  BY <1>1 DEF CommitVisible, NoneLeft, RecoveryInv, PageOfCursor, InPage, UsersAfter
<1>3. PageAccounted'
  <2> SUFFICES ASSUME ~moved, NEW u \in page \ (todo \cup failed)
               PROVE  Accounted(u)'
    BY <1>1 DEF PageAccounted
  <2>1. u \in User /\ Accounted(u)
    BY <1>1 DEF TypeOK, RecoveryInv, PageAccounted, InPage, Refreshing
  <2> QED
    BY <1>1, <2>1, AccountsStay
<1> QED
  BY <1>2, <1>3 DEF RecoveryInv

LEMMA RecoveryInit == Init => RecoveryInv
  BY DEF Init, ProcessInit, RecoveryInv, CommitVisible, PageAccounted, NoneLeft,
         PageOfCursor, InPage, Refreshing

LEMMA RecoveryStep == IInv /\ RecoveryInv /\ [Next]_vars => RecoveryInv'
<1> SUFFICES ASSUME TypeOK, UserInHand, RecoveryInv, [Next]_vars PROVE RecoveryInv'
  BY DEF IInv
<1>1. CASE RequestStep
  BY <1>1, RecoveryRequest
<1>2. ASSUME NEW u \in User, NEW n \in Versions(u), RecordLoss(u, n)
      PROVE  RecoveryInv'
  BY <1>2 DEF RecordLoss, RequireFull, RecoveryInv, CommitVisible, PageAccounted, NoneLeft,
     PageOfCursor, InPage, Refreshing, UsersAfter
<1>3. CASE StartCycle \/ ObserveMarkers
  BY <1>3, RecoveryOutside DEF StartCycle, ObserveMarkers
<1>4. CASE PlanUsers
  BY <1>4 DEF PlanUsers, RecoveryInv, CommitVisible, PageAccounted, NoneLeft, PageOfCursor,
     Refreshing, UsersAfter
<1>5. ASSUME NEW u \in User, TakeEpoch(u)
      PROVE  RecoveryInv'
  BY <1>5, RecoveryTakeEpoch
<1>6. CASE ReadStats \/ Acknowledge \/ FullIntervalPasses \/ UNCHANGED vars
  BY <1>6, RecoveryElsewhere
     DEF ReadStats, Acknowledge, FullIntervalPasses, accountVars
<1>7. CASE AcknowledgeStale \/ PublishRejected \/ RefreshRaises
  BY <1>7, RecoveryGiveUp DEF AcknowledgeStale, PublishRejected, RefreshRaises, Refreshing
<1>8. CASE PublishSnapshot
  BY <1>8, RecoveryPublish
<1>9. CASE CommitUser
  BY <1>9, RecoveryCommit
<1>10. CASE CommitRaises
  BY <1>10, RecoveryGiveUp DEF CommitRaises, InvalidateUser, Refreshing, TypeOK, StoreTypeOK
<1>11. CASE FinishUsers \/ CountBacklog
  BY <1>11, RecoveryFinish
<1>12. CASE Conclude \/ SkipProjection \/ ObserveProjection \/ FinishProjection
  BY <1>12, RecoveryOutside
     DEF Conclude, SkipProjection, ObserveProjection, FinishProjection, RecordCycle
<1>13. ASSUME NEW k \in Key, ProjectMarker(k)
       PROVE  RecoveryInv'
  BY <1>13, RecoveryOutside DEF ProjectMarker
<1>14. CASE CycleRaises \/ ProjectionRaises \/ Crash
  BY <1>14, RecoveryOutside DEF CycleRaises, ProjectionRaises, RecordCycle, Crash
<1> QED
  BY <1>1, <1>2, <1>3, <1>4, <1>5, <1>6, <1>7, <1>8, <1>9, <1>10, <1>11, <1>12, <1>13, <1>14
     DEF Next, Request, Worker, Faults, RequestStep

\* A page that is not full is the last: no user comes after it.
LEMMA LastPage ==
    ASSUME NEW c \in Nat, Cardinality(UsersAfter(c)) < BatchSize, NEW u \in User, u > c
    PROVE  u \in UsersAfter(c)
<1> DEFINE Before(x) == {v \in User : c < v /\ v < x}
           Missed == {x \in User : x > c /\ x \notin UsersAfter(c)}
<1>1. User \subseteq Nat /\ Missed \subseteq Nat /\ BatchSize \in Nat
  BY UserAssumption, BatchSizeType
<1>2. ASSUME NEW x \in Nat
      PROVE  IsFiniteSet(Before(x)) /\ Cardinality(Before(x)) \in Nat
  <2>1. ASSUME NEW v \in Before(x) PROVE v \in 0..x
    <3>1. v \in Nat /\ v < x
      BY <1>1
    <3> QED
      BY <3>1
  <2>2. Before(x) \subseteq 0..x
    BY ONLY <2>1
  <2>3. IsFiniteSet(0..x)
    BY FS_Interval
  <2> QED
    BY <2>2, <2>3, FS_Subset, FS_CardinalityType
<1>3. \A x \in User : x \in UsersAfter(c) <=> x > c /\ Cardinality(Before(x)) < BatchSize
  BY DEF UsersAfter
<1> SUFFICES ASSUME Missed # {} PROVE FALSE
  OBVIOUS
<1>4. PICK m \in Missed : \A x \in Missed : m <= x
  BY <1>1, LeastElement
<1>5. m \in Nat /\ m \in User /\ m > c /\ ~(Cardinality(Before(m)) < BatchSize)
  BY <1>1, <1>3, <1>4
<1>6. Before(m) \subseteq UsersAfter(c)
  BY <1>1, <1>4, <1>5
<1>7. ASSUME NEW x \in UsersAfter(c) PROVE x \in Before(m)
  <2>1. x \in User /\ x \in Nat /\ x > c /\ Cardinality(Before(x)) < BatchSize
    BY <1>1, <1>3 DEF UsersAfter
  <2>2. CASE x < m
    BY <2>1, <2>2
  <2>3. CASE x >= m
    <3>1. Before(m) \subseteq Before(x)
      <4> SUFFICES ASSUME NEW v \in Before(m) PROVE v \in Before(x)
        OBVIOUS
      <4>1. v \in Nat /\ v \in User /\ c < v /\ v < m
        BY <1>1
      <4>2. v < x
        BY <4>1, <1>5, <2>1, <2>3
      <4> QED
        BY <4>1, <4>2
    <3>2. Cardinality(Before(m)) <= Cardinality(Before(x))
      BY <1>2, <2>1, <3>1, FS_Subset
    <3> HIDE DEF Before
    <3>3. Cardinality(Before(m)) \in Nat /\ Cardinality(Before(x)) \in Nat
      BY <1>2, <1>5, <2>1
    <3> QED
      BY <1>1, <1>5, <2>1, <3>2, <3>3
  <2> QED
    BY <1>5, <2>1, <2>2, <2>3
<1>8. UsersAfter(c) = Before(m)
  BY <1>6, <1>7
<1> QED
  BY <1>5, <1>8

\* When a cycle clears the demand for a full reconciliation (refresher.run_cycle,
\* events.acknowledge_full_reconciliation), every user the scan had not passed when the
\* cycle began has a current snapshot or is pending.  ClearedMeansRecovered asks it of all
\* users: a hint can be lost behind the scan, for a user of an earlier page, and nowhere
\* else.
ScanRecovered ==
    [][Conclude /\ required /\ ~required'
        => \A u \in User : u > cursor => Visible(u) \/ Pending(u)]_vars

\* What a demand for a full reconciliation asked for is there when it is cleared, for
\* every user from the last page's cursor on.
THEOREM ScanRecovers == Spec => ScanRecovered
<1>1. TypeOK /\ RecoveryInv /\ [Next]_vars
        => [Conclude /\ required /\ ~required'
              => \A u \in User : u > cursor => Visible(u) \/ Pending(u)]_vars
  <2> SUFFICES ASSUME TypeOK, RecoveryInv, Conclude, required, ~required',
                      NEW u \in User, u > cursor
               PROVE  Visible(u) \/ Pending(u)
    OBVIOUS
  <2>1. ConcludeFull
    BY DEF Conclude, ConcludePage, ConcludeRetry, RequireFull
  <2>2. ~moved /\ failed = {} /\ PageComplete
    BY <2>1 DEF ConcludeFull, AcknowledgeFull, Succeeded
  <2>3. todo = {} /\ full /\ InPage /\ ~Refreshing
    BY DEF Conclude, RecoveryInv, NoneLeft, InPage, Refreshing
  <2>4. cursor \in Nat
    BY UserAssumption DEF TypeOK
  <2>5. u \in page
    BY <2>2, <2>3, <2>4, LastPage DEF RecoveryInv, PageOfCursor, PageComplete
  <2> QED
    BY <2>2, <2>3, <2>5 DEF RecoveryInv, PageAccounted, Accounted
<1> QED
  BY <1>1, RecoveryInit, RecoveryStep, TypeCorrect, InvariantHolds, PTL
     DEF Spec, ScanRecovered

--------------------------------------------------------------------------------
LEMMA RetryInit == Init => RetryInv
  BY DEF Init, ProcessInit, RetryInv, GivenUpOnce, OvertakenPending, EpochHinted,
         GivenUpPending, Unacknowledged, Refreshing

LEMMA GivenUpOnceStep ==
    ASSUME TypeOK, FreshInv, GivenUpOnce, [Next]_vars
    PROVE  GivenUpOnce'
<1> USE DEF GivenUpOnce, Refreshing
<1>1. CASE UNCHANGED <<pc, todo, failed, user>>
  BY <1>1
<1>2. CASE pc' \in {"idle", "project", "projecting", "backlog", "conclude"}
  BY <1>2
<1>3. CASE StartCycle \/ ObserveMarkers \/ PlanUsers
  BY <1>3 DEF StartCycle, ObserveMarkers, PlanUsers
<1>4. ASSUME NEW u \in User, TakeEpoch(u) PROVE GivenUpOnce'
  BY <1>4 DEF TakeEpoch
<1>5. CASE ReadStats \/ Acknowledge
  BY <1>5 DEF ReadStats, Acknowledge
<1>6. CASE GiveUpUser /\ Refreshing
  BY <1>6 DEF GiveUpUser, LeaveUser, FreshInv, InHand
<1>7. CASE PublishSnapshot \/ CommitUser
  BY <1>7 DEF PublishSnapshot, CommitUser, LeaveUser
<1>8. CASE RequestStep
  <2>1. UNCHANGED <<pc, todo, failed, user>>
    BY <1>8, RequestsFrame
  <2> QED
    BY <1>1, <2>1
<1>9. ASSUME NEW u \in User, NEW n \in Versions(u), RecordLoss(u, n) PROVE GivenUpOnce'
  BY <1>1, <1>9 DEF RecordLoss
<1>10. CASE AcknowledgeStale \/ PublishRejected \/ RefreshRaises \/ CommitRaises
  BY <1>6, <1>10 DEF AcknowledgeStale, PublishRejected, RefreshRaises, CommitRaises
<1>11. CASE FinishUsers \/ CountBacklog \/ Conclude \/ SkipProjection \/ ObserveProjection
              \/ FinishProjection \/ CycleRaises \/ ProjectionRaises \/ Crash
  BY <1>2, <1>11 DEF FinishUsers, CountBacklog, Conclude, SkipProjection, ObserveProjection,
     FinishProjection, RecordCycle, CycleRaises, ProjectionRaises, Crash
<1>12. ASSUME NEW k \in Key, ProjectMarker(k) PROVE GivenUpOnce'
  BY <1>2, <1>12 DEF ProjectMarker
<1>13. CASE FullIntervalPasses \/ UNCHANGED vars
  BY <1>1, <1>13 DEF FullIntervalPasses
<1> QED
  BY <1>3, <1>4, <1>5, <1>7, <1>8, <1>9, <1>10, <1>11, <1>12, <1>13
     DEF Next, Request, Worker, Faults, RequestStep

\* A mutation changes one row, and leaves it pending.
LEMMA MutationPends ==
    ASSUME TypeOK, NEW u \in User, NEW w \in Window, NEW t \in Stamp, Mutate(u, w, t),
           NEW k \in Key
    PROVE  marker'[k] = marker[k] \/ CurrentPending(k)'
<1> DEFINE j == <<u, w>>
<1>1. /\ j \in Key /\ marker' = [marker EXCEPT ![j] = Marked(marker[j], t)]
      /\ marker[j].gen \in Nat /\ marker \in [Key -> Row]
  BY DEF Mutate, MarkDirty, TypeOK, MarkerTypeOK
<1> HIDE DEF j
<1>2. CASE k = j
  BY <1>1, <1>2 DEF CurrentPending, Marked
<1>3. CASE k # j
  BY <1>1, <1>3
<1> QED
  BY <1>2, <1>3

LEMMA OvertakenStep ==
    ASSUME TypeOK, UserInHand, FreshInv, OvertakenPending, [Next]_vars
    PROVE  OvertakenPending'
<1> USE DEF OvertakenPending, CurrentPending
<1>1. CASE /\ UNCHANGED <<marker, observed>>
           /\ \A k \in Key : Unacknowledged(k)' => Unacknowledged(k)
  BY <1>1
<1>2. CASE \A k \in Key : ~Unacknowledged(k)'
  BY <1>2
<1>3. ASSUME NEW u \in User, NEW w \in Window, NEW t \in Stamp, Mutate(u, w, t)
      PROVE  OvertakenPending'
  <2> SUFFICES ASSUME NEW k \in Key, Unacknowledged(k)', observed[k] > 0,
                      marker'[k].gen # observed[k]
               PROVE  CurrentPending(k)'
    BY <1>3 DEF Mutate
  <2>1. Unacknowledged(k)
    BY <1>3 DEF Mutate, Unacknowledged, Refreshing
  <2> QED
    BY <1>3, <2>1, MutationPends
<1>4. CASE RequestStep
  <2>1. ASSUME NEW u \in User, NEW n \in Versions(u),
               Announce(u, n) \/ Enqueue(u, n) \/ Reject(u, n)
        PROVE  OvertakenPending'
    BY <1>1, <2>1 DEF Announce, Enqueue, Reject, Unacknowledged, Refreshing
  <2> QED
    BY <1>3, <1>4, <2>1 DEF RequestStep, Overflow, EnqueueRaises
<1>5. ASSUME NEW u \in User, NEW n \in Versions(u), RecordLoss(u, n)
      PROVE  OvertakenPending'
  BY <1>1, <1>5 DEF RecordLoss, Unacknowledged, Refreshing
<1>6. CASE ObserveMarkers
  BY <1>6 DEF ObserveMarkers
<1>7. CASE PlanUsers
  BY <1>1, <1>7 DEF PlanUsers, Unacknowledged, Refreshing
<1>8. ASSUME NEW u \in User, TakeEpoch(u) PROVE OvertakenPending'
  BY <1>1, <1>8 DEF TakeEpoch, Unacknowledged, Refreshing
<1>9. CASE ReadStats \/ Acknowledge \/ FullIntervalPasses \/ UNCHANGED vars
  BY <1>1, <1>9 DEF ReadStats, Acknowledge, FullIntervalPasses, Unacknowledged, Refreshing
<1>10. CASE GiveUpUser /\ Refreshing
  BY <1>1, <1>10 DEF GiveUpUser, LeaveUser, Unacknowledged, Refreshing
<1>11. CASE PublishSnapshot
  BY <1>1, <1>11 DEF PublishSnapshot, LeaveUser, Unacknowledged, Refreshing
<1>12. CASE CommitUser
  <2> SUFFICES ASSUME NEW k \in Key, k[1] \in todo, observed[k] > 0,
                      marker'[k].gen # observed[k]
               PROVE  CurrentPending(k)'
    BY <1>12 DEF CommitUser, LeaveUser, Unacknowledged, Refreshing
  <2>1. k \notin Held /\ Unacknowledged(k)
    BY <1>12 DEF Held, FreshInv, InHand, CommitUser, Unacknowledged, Refreshing
  <2>2. marker'[k] = marker[k]
    BY <1>12, <2>1 DEF CommitUser
  <2> QED
    BY <2>1, <2>2
<1>13. CASE AcknowledgeStale \/ PublishRejected \/ RefreshRaises \/ CommitRaises
  BY <1>10, <1>13
     DEF AcknowledgeStale, PublishRejected, RefreshRaises, CommitRaises, Refreshing
<1>14. CASE StartCycle \/ FinishUsers \/ CountBacklog \/ Conclude \/ SkipProjection
              \/ ObserveProjection \/ FinishProjection \/ CycleRaises \/ ProjectionRaises
              \/ Crash
  BY <1>2, <1>14 DEF StartCycle, FinishUsers, CountBacklog, Conclude, SkipProjection,
     ObserveProjection, FinishProjection, RecordCycle, CycleRaises, ProjectionRaises,
     Crash, Unacknowledged, Refreshing
<1>15. ASSUME NEW k \in Key, ProjectMarker(k) PROVE OvertakenPending'
  BY <1>2, <1>15 DEF ProjectMarker, Unacknowledged, Refreshing
<1> HIDE DEF OvertakenPending
<1> QED
  BY <1>4, <1>5, <1>6, <1>7, <1>8, <1>9, <1>11, <1>12, <1>13, <1>14, <1>15
     DEF Next, Request, Worker, Faults, RequestStep

\* Who moved the epoch of the user in hand since it was read: an announcement, which
\* still has its hint to give, or a commit that raised, which is a fault.
LEMMA EpochStep ==
    ASSUME TypeOK, UserInHand, EpochHinted, [Next]_vars
    PROVE  EpochHinted'
<1> USE DEF EpochHinted
<1>1. CASE ~Refreshing'
  BY <1>1
<1>2. CASE faults' # 0
  BY <1>2
<1>3. CASE /\ UNCHANGED <<faults, epoch, user, expected, required>> /\ UNCHANGED accountVars
           /\ Refreshing' => Refreshing
  <2> SUFFICES ASSUME faults = 0, Refreshing, NEW u, u = user, expected # epoch[u], ~required
               PROVE  Hinted(u)'
    BY <1>3 DEF Hinted
  <2>1. u \in User /\ Hinted(u)
    BY DEF UserInHand
  <2> QED
    BY <1>3, <2>1, AccountsStay
<1>4. CASE RequestStep /\ faults' = 0
  <2>1. UNCHANGED <<pc, user, expected, required>> /\ faults = 0
    BY <1>4, RequestsFrame
  <2> SUFFICES ASSUME Refreshing, NEW u, u = user, expected # epoch'[u], ~required
               PROVE  Hinted(u)'
    BY <2>1 DEF Hinted, Refreshing
  <2>2. u \in User
    BY DEF UserInHand
  <2>3. CASE epoch'[u] # epoch[u]
    BY <1>4, <2>2, <2>3, RequestsHint
  <2>4. CASE epoch'[u] = epoch[u]
    BY <1>4, <2>1, <2>2, <2>4, RequestsHint
  <2> QED
    BY <2>3, <2>4
<1>5. ASSUME NEW u \in User, NEW n \in Versions(u), RecordLoss(u, n) PROVE EpochHinted'
  BY <1>5 DEF RecordLoss, RequireFull
<1>6. ASSUME NEW u \in User, TakeEpoch(u) PROVE EpochHinted'
  BY <1>6 DEF TakeEpoch
<1>7. CASE ReadStats \/ Acknowledge \/ FullIntervalPasses \/ UNCHANGED vars
  BY <1>3, <1>7 DEF ReadStats, Acknowledge, FullIntervalPasses, accountVars, Refreshing
<1>8. CASE PublishSnapshot
  <2>1. CASE pc' = "commit"
    <3> SUFFICES ASSUME faults = 0, NEW u, u = user, expected # epoch[u], ~required
                 PROVE  Hinted(u)'
      BY <1>8, <2>1 DEF PublishSnapshot, Install, LeaveUser, Hinted
    <3> QED
      BY <1>8 DEF PublishSnapshot, Installable
  <2> QED
    BY <1>1, <1>8, <2>1 DEF PublishSnapshot, LeaveUser, Refreshing
<1>9. CASE StartCycle \/ ObserveMarkers \/ PlanUsers \/ AcknowledgeStale \/ PublishRejected
             \/ CommitUser \/ FinishUsers \/ CountBacklog \/ Conclude
  BY <1>1, <1>9 DEF StartCycle, ObserveMarkers, PlanUsers, AcknowledgeStale,
     PublishRejected, GiveUpUser, CommitUser, LeaveUser, FinishUsers, CountBacklog,
     Conclude, Refreshing
<1>10. CASE SkipProjection \/ ObserveProjection \/ FinishProjection
  BY <1>1, <1>10
     DEF SkipProjection, ObserveProjection, FinishProjection, RecordCycle, Refreshing
<1>11. ASSUME NEW k \in Key, ProjectMarker(k) PROVE EpochHinted'
  BY <1>1, <1>11 DEF ProjectMarker, Refreshing
<1>12. CASE RefreshRaises \/ CommitRaises \/ CycleRaises \/ ProjectionRaises \/ Crash
  BY <1>2, <1>12
     DEF RefreshRaises, CommitRaises, CycleRaises, ProjectionRaises, Crash, Fault, TypeOK
<1> HIDE DEF EpochHinted
<1>13. CASE RequestStep
  BY <1>2, <1>4, <1>13
<1> QED
  BY <1>5, <1>6, <1>7, <1>8, <1>9, <1>10, <1>11, <1>12, <1>13
     DEF Next, Request, Worker, Faults, RequestStep

\* A user given up stays pending, or a full reconciliation does.
LEMMA ProjectionKeeps ==
    ASSUME TypeOK, NEW k \in Key, ProjectMarker(k), NEW j \in Key, CurrentPending(j)
    PROVE  CurrentPending(j)'
  BY DEF TypeOK, MarkerTypeOK, ProjectMarker, CurrentPending, ProjectionAcknowledged, Settled

LEMMA GivenUpStep ==
    ASSUME TypeOK, UserInHand, RetryInv, [Next]_vars
    PROVE  GivenUpPending'
<1> USE DEF GivenUpPending
<1>1. CASE UNCHANGED accountVars /\ UNCHANGED <<failed, required, fullDue, faults>>
  <2> SUFFICES ASSUME faults = 0, NEW u \in failed, ~required, ~fullDue PROVE Pending(u)'
    BY <1>1
  <2>1. u \in User /\ Pending(u)
    BY <1>1 DEF TypeOK, RetryInv
  <2> QED
    BY <1>1, <2>1, AccountsStay
<1>2. CASE faults' # 0
  BY <1>2
<1>3. CASE failed' = {} \/ required' = TRUE \/ fullDue' = TRUE
  BY <1>3
<1>4. CASE RequestStep
  <2>1. UNCHANGED <<failed, required, fullDue>> /\ (faults' = 0 => faults = 0)
    BY <1>4, RequestsFrame
  <2> SUFFICES ASSUME faults = 0, NEW u \in failed, ~required, ~fullDue PROVE Pending(u)'
    BY <2>1
  <2>2. u \in User /\ Pending(u)
    BY <2>1 DEF TypeOK, RetryInv
  <2> QED
    BY <1>4, <2>2, RequestsAccount
<1>5. ASSUME NEW u \in User, NEW n \in Versions(u), RecordLoss(u, n) PROVE GivenUpPending'
  BY <1>3, <1>5 DEF RecordLoss, RequireFull
<1>6. CASE StartCycle
  BY <1>3, <1>6 DEF StartCycle
<1>7. CASE ObserveMarkers \/ PlanUsers
  BY <1>7 DEF ObserveMarkers, PlanUsers, RetryInv, GivenUpOnce
<1>8. ASSUME NEW u \in User, TakeEpoch(u) PROVE GivenUpPending'
  BY <1>1, <1>8 DEF TakeEpoch, accountVars
<1>9. CASE ReadStats \/ Acknowledge \/ FinishUsers \/ CountBacklog \/ UNCHANGED vars
  BY <1>1, <1>9 DEF ReadStats, Acknowledge, FinishUsers, CountBacklog, accountVars
<1>10. CASE AcknowledgeStale \/ PublishRejected
  <2>1. /\ UNCHANGED accountVars /\ UNCHANGED <<required, fullDue, faults>>
        /\ failed' = failed \cup {user} /\ Refreshing /\ user \in User
    BY <1>10 DEF AcknowledgeStale, PublishRejected, GiveUpUser, accountVars, Refreshing,
       UserInHand
  <2>2. faults = 0 => required \/ fullDue \/ Pending(user)
    <3>1. CASE AcknowledgeStale
      <4>1. PICK k \in Held : Stale(k, observed[k])
        BY <3>1 DEF AcknowledgeStale
      <4>2. /\ k \in Key /\ k[1] = user /\ observed[k] > 0
            /\ marker[k].gen # observed[k] /\ Unacknowledged(k)
        BY <2>1, <4>1 DEF Held, Stale, Unacknowledged
      <4>3. CurrentPending(k) /\ k[2] \in Window /\ k = <<user, k[2]>>
        BY <4>2 DEF RetryInv, OvertakenPending
      <4> QED
        BY <4>3 DEF Pending
    <3>2. CASE PublishRejected
      <4>1. expected # epoch[user]
        BY <3>2 DEF PublishRejected, Installable
      <4> QED
        BY <2>1, <4>1 DEF RetryInv, EpochHinted, Pending, Hinted
    <3> QED
      BY <1>10, <3>1, <3>2
  <2> SUFFICES ASSUME faults = 0, NEW u \in failed', ~required, ~fullDue PROVE Pending(u)'
    BY <2>1
  <2>3. u \in User /\ Pending(u)
    BY <2>1, <2>2 DEF TypeOK, RetryInv
  <2> QED
    BY <2>1, <2>3, AccountsStay
<1>11. CASE PublishSnapshot
  <2> SUFFICES ASSUME faults = 0, NEW u \in failed, ~required, ~fullDue PROVE Pending(u)'
    BY <1>11 DEF PublishSnapshot
  <2> QED
    BY <1>11 DEF PublishSnapshot, RetryInv, Pending, CurrentPending
<1>12. CASE CommitUser
  <2> SUFFICES ASSUME faults = 0, NEW u \in failed, ~required, ~fullDue PROVE Pending(u)'
    BY <1>12 DEF CommitUser
  <2>1. u \in User /\ u # user /\ Pending(u)
    BY <1>12 DEF CommitUser, TypeOK, RetryInv, GivenUpOnce, Refreshing
  <2>2. ASSUME NEW w \in Window, CurrentPending(<<u, w>>)
        PROVE  CurrentPending(<<u, w>>)'
    BY <1>12, <2>1, <2>2, CommitKeeps
  <2> QED
    BY <1>12, <2>1, <2>2 DEF CommitUser, Pending
<1>13. CASE Conclude
  BY <1>3, <1>13 DEF Conclude, ConcludeFull, ConcludePage, ConcludeRetry, RequireFull,
     Succeeded
<1>14. CASE SkipProjection \/ ObserveProjection \/ FinishProjection
  BY <1>1, <1>14
     DEF SkipProjection, ObserveProjection, FinishProjection, RecordCycle, accountVars
<1>15. ASSUME NEW k \in Key, ProjectMarker(k) PROVE GivenUpPending'
  <2> SUFFICES ASSUME faults = 0, NEW u \in failed, ~required, ~fullDue PROVE Pending(u)'
    BY <1>15 DEF ProjectMarker
  <2>1. u \in User /\ Pending(u)
    BY DEF TypeOK, RetryInv
  <2>2. ASSUME NEW w \in Window, CurrentPending(<<u, w>>)
        PROVE  CurrentPending(<<u, w>>)'
    BY <1>15, <2>1, <2>2, ProjectionKeeps
  <2> QED
    BY <1>15, <2>1, <2>2 DEF ProjectMarker, Pending
<1>16. CASE FullIntervalPasses
  BY <1>3, <1>16 DEF FullIntervalPasses
<1>17. CASE RefreshRaises \/ CommitRaises \/ CycleRaises \/ ProjectionRaises \/ Crash
  BY <1>2, <1>17
     DEF RefreshRaises, CommitRaises, CycleRaises, ProjectionRaises, Crash, Fault, TypeOK
<1> HIDE DEF GivenUpPending
<1> QED
  BY <1>4, <1>5, <1>6, <1>7, <1>8, <1>9, <1>10, <1>11, <1>12, <1>13, <1>14, <1>15, <1>16,
     <1>17 DEF Next, Request, Worker, Faults, RequestStep

LEMMA RetryStep == IInv /\ RetryInv /\ [Next]_vars => RetryInv'
  BY GivenUpOnceStep, OvertakenStep, EpochStep, GivenUpStep DEF IInv, RetryInv

\* ADR-004's promise as far as the code keeps it: as long as nothing has raised and the
\* process has not died, a user whose refresh lost a race (a stale acknowledgement, a
\* rejected publication) is still pending when the next cycle begins, or a full
\* reconciliation is.  FailedUsersStayPending asks it of every failure.
RacesKeepPending == faults = 0 => FailedUsersStayPending

\* A user given up to a race in _refresh_user is not forgotten.
THEOREM RacesAreRetried == Spec => []RacesKeepPending
<1>1. RetryInv => RacesKeepPending
  BY DEF RetryInv, GivenUpPending, RacesKeepPending, FailedUsersStayPending
<1> QED
  BY <1>1, RetryInit, RetryStep, InvariantHolds, PTL DEF Spec

--------------------------------------------------------------------------------
(***************************************************************************)
(* Snapshots only advance.                                                 *)
(***************************************************************************)

\* No snapshot ever installed is newer than the database, nor newer than the
\* statistics in hand: only the worker installs, and it reads for each candidate anew.
NewestInv ==
    /\ \A u \in User : covered[u] <= db[u]
    /\ pc \in {"acknowledge", "publish", "commit"} => covered[user] <= version

LEMMA NewestInit == Init => NewestInv
  BY DEF Init, ProcessInit, NewestInv

LEMMA NewestStep == IInv /\ NewestInv /\ [Next]_vars => NewestInv'
<1> SUFFICES ASSUME TypeOK, UserInHand, CandidateCommitted, NewestInv, [Next]_vars
             PROVE  NewestInv'
  BY DEF IInv, FreshInv
<1> USE DEF NewestInv
<1>1. CASE UNCHANGED <<pc, covered, user, version>>
           /\ \A u \in User : db'[u] \in Nat /\ db'[u] >= db[u]
  <2>1. ASSUME NEW u \in User PROVE covered'[u] <= db'[u]
    <3>1. covered[u] \in Nat /\ db[u] \in Nat
      BY DEF TypeOK
    <3> QED
      BY <1>1, <3>1
  <2> QED
    BY <1>1, <2>1
<1>2. CASE UNCHANGED <<covered, db>> /\ pc' \notin {"acknowledge", "publish", "commit"}
  BY <1>2
<1>3. ASSUME NEW u \in User, NEW w \in Window, NEW t \in Stamp, Mutate(u, w, t)
      PROVE  NewestInv'
  <2>1. \A v \in User : db'[v] \in Nat /\ db'[v] >= db[v]
    BY <1>3 DEF Mutate, TypeOK
  <2> QED
    BY <1>1, <1>3, <2>1 DEF Mutate
<1>4. ASSUME NEW u \in User, NEW n \in Versions(u),
             Announce(u, n) \/ Enqueue(u, n) \/ Reject(u, n) \/ RecordLoss(u, n)
      PROVE  NewestInv'
  BY <1>4 DEF Announce, Enqueue, Reject, RecordLoss
<1>5. CASE StartCycle \/ ObserveMarkers \/ PlanUsers \/ FinishUsers \/ CountBacklog \/ Conclude
  BY <1>2, <1>5
     DEF StartCycle, ObserveMarkers, PlanUsers, FinishUsers, CountBacklog, Conclude
<1>6. ASSUME NEW u \in User, TakeEpoch(u) PROVE NewestInv'
  BY <1>2, <1>6 DEF TakeEpoch
<1>7. CASE ReadStats
  BY <1>7 DEF ReadStats, UserInHand, Refreshing
<1>8. CASE Acknowledge \/ FullIntervalPasses \/ UNCHANGED vars
  BY <1>8 DEF Acknowledge, FullIntervalPasses
<1>9. CASE PublishSnapshot
  <2>1. user \in User /\ version <= db[user] /\ covered[user] <= version
    BY <1>9 DEF PublishSnapshot, UserInHand, Refreshing, CandidateCommitted
  <2>2. \A u \in User : covered'[u] = IF u = user THEN version ELSE covered[u]
    <3>1. version \in Nat /\ covered[user] \in Nat /\ covered \in [User -> Nat]
      BY <2>1 DEF TypeOK
    <3> QED
      BY <1>9, <2>1, <3>1 DEF PublishSnapshot
  <2>3. UNCHANGED db /\ (pc' = "commit" => user' = user /\ version' = version)
        /\ pc' \in {"users", "commit"}
    BY <1>9 DEF PublishSnapshot, LeaveUser
  <2> QED
    BY <2>1, <2>2, <2>3 DEF TypeOK
<1>10. CASE AcknowledgeStale \/ PublishRejected \/ CommitUser \/ RefreshRaises \/ CommitRaises
  BY <1>2, <1>10 DEF AcknowledgeStale, PublishRejected, CommitUser, RefreshRaises,
     CommitRaises, GiveUpUser, LeaveUser
<1>11. CASE SkipProjection \/ ObserveProjection \/ FinishProjection \/ CycleRaises
              \/ ProjectionRaises \/ Crash
  BY <1>2, <1>11 DEF SkipProjection, ObserveProjection, FinishProjection, RecordCycle,
     CycleRaises, ProjectionRaises, Crash
<1>12. ASSUME NEW k \in Key, ProjectMarker(k) PROVE NewestInv'
  BY <1>12 DEF ProjectMarker
<1> HIDE DEF NewestInv
<1> QED
  BY <1>3, <1>4, <1>5, <1>6, <1>7, <1>8, <1>9, <1>10, <1>11, <1>12
     DEF Next, Request, Worker, Faults, Overflow, EnqueueRaises

\* The store holds one record per user and publish replaces it without comparing versions
\* (snapshots.publish): the epoch alone guards it.  A snapshot is nevertheless never
\* replaced by one that misses a mutation an earlier one had, not even after a crash.
SnapshotsAdvance ==
    [][\A u \in User : record'[u] # record[u] /\ record'[u] # NoRecord
            => record'[u].version >= covered[u]]_vars

\* An epoch guards as well as a comparison of versions would.
THEOREM SnapshotsOnlyAdvance == Spec => SnapshotsAdvance
<1>1. TypeOK /\ NewestInv /\ [Next]_vars
        => [\A u \in User : record'[u] # record[u] /\ record'[u] # NoRecord
                => record'[u].version >= covered[u]]_vars
  <2> SUFFICES ASSUME TypeOK, NewestInv, Next, NEW u \in User,
                      record'[u] # record[u], record'[u] # NoRecord
               PROVE  record'[u].version >= covered[u]
    OBVIOUS
  <2>1. CASE PublishSnapshot
    BY <2>1 DEF PublishSnapshot, Install, NewestInv, TypeOK, StoreTypeOK
  <2>2. CASE Crash
    BY <2>2 DEF Crash
  <2>3. CASE UNCHANGED record
    BY <2>3
  <2>4. ASSUME NEW v \in User, NEW n \in Versions(v),
               Announce(v, n) \/ Enqueue(v, n) \/ Overflow(v, n) \/ RecordLoss(v, n)
                 \/ EnqueueRaises(v, n)
        PROVE  UNCHANGED record
    BY <2>4
       DEF Announce, InvalidateUser, Enqueue, Overflow, RecordLoss, EnqueueRaises, Reject
  <2>5. ASSUME NEW v \in User, NEW w \in Window, NEW t \in Stamp, Mutate(v, w, t)
        PROVE  UNCHANGED record
    BY <2>5 DEF Mutate
  <2>6. ASSUME StartCycle \/ ObserveMarkers \/ PlanUsers \/ ReadStats \/ Acknowledge
                 \/ AcknowledgeStale \/ PublishRejected \/ CommitUser \/ FinishUsers
                 \/ CountBacklog \/ Conclude
        PROVE  UNCHANGED record
    BY <2>6 DEF StartCycle, ObserveMarkers, PlanUsers, ReadStats, Acknowledge,
       AcknowledgeStale, PublishRejected, CommitUser, FinishUsers, CountBacklog, Conclude
  <2>7. ASSUME SkipProjection \/ ObserveProjection \/ FinishProjection \/ FullIntervalPasses
                 \/ RefreshRaises \/ CommitRaises \/ CycleRaises \/ ProjectionRaises
        PROVE  UNCHANGED record
    BY <2>7 DEF SkipProjection, ObserveProjection, FinishProjection, FullIntervalPasses,
       RefreshRaises, CommitRaises, InvalidateUser, CycleRaises, ProjectionRaises
  <2>8. ASSUME NEW k \in Key, ProjectMarker(k) PROVE UNCHANGED record
    BY <2>8 DEF ProjectMarker
  <2>9. ASSUME NEW v \in User, TakeEpoch(v) PROVE UNCHANGED record
    BY <2>9 DEF TakeEpoch
  <2> QED
    BY <2>1, <2>2, <2>3, <2>4, <2>5, <2>6, <2>7, <2>8, <2>9
       DEF Next, Request, Worker, Faults
<1> QED
  BY <1>1, NewestInit, NewestStep, TypeCorrect, InvariantHolds, PTL
     DEF Spec, SnapshotsAdvance

--------------------------------------------------------------------------------
(***************************************************************************)
(* Without the projection.                                                 *)
(***************************************************************************)
NeverProjected == pc # "projecting" /\ \A k \in Key : marker[k].proj = 0

LEMMA NeverProjectedInit == Init => NeverProjected
  BY DEF Init, ProcessInit, NoMarkers, NeverProjected

\* With STATS_PROJECTION_ENABLED=false no row is completed by both consumers, so that
\* none is deleted.
LEMMA RowsStay ==
    ASSUME ~ProjectionEnabled, TypeOK, NeverProjected, [Next]_vars
    PROVE  NeverProjected' /\ \A k \in Key : marker[k].gen > 0 => marker'[k].gen > 0
<1> USE DEF NeverProjected
<1>1. CASE UNCHANGED marker /\ pc' # "projecting"
  BY <1>1
<1>2. ASSUME NEW u \in User, NEW w \in Window, NEW t \in Stamp, Mutate(u, w, t)
      PROVE  NeverProjected' /\ \A k \in Key : marker[k].gen > 0 => marker'[k].gen > 0
  <2> DEFINE j == <<u, w>>
  <2>1. /\ j \in Key /\ marker' = [marker EXCEPT ![j] = Marked(marker[j], t)]
        /\ marker \in [Key -> Row] /\ UNCHANGED pc
    BY <1>2 DEF Mutate, MarkDirty, TypeOK, MarkerTypeOK
  <2> HIDE DEF j
  <2>2. marker[j].gen \in Nat
    BY <2>1
  <2> QED
    BY <2>1, <2>2 DEF Marked
<1>3. CASE CommitUser
  <2>1. \A k \in Key : marker'[k] = marker[k] \/ marker'[k] = CurrentAcknowledged(marker[k])
    BY <1>3 DEF CommitUser
  <2>2. ASSUME NEW row \in Row, row.proj = 0
        PROVE  /\ CurrentAcknowledged(row).proj = 0
               /\ row.gen > 0 => CurrentAcknowledged(row).gen > 0
    BY <2>2 DEF CurrentAcknowledged, Settled
  <2>3. \A k \in Key : marker[k] \in Row
    BY DEF TypeOK, MarkerTypeOK
  <2> HIDE DEF Row
  <2> QED
    BY <1>3, <2>1, <2>2, <2>3 DEF CommitUser, LeaveUser
<1>4. ASSUME NEW u \in User, NEW n \in Versions(u),
             Announce(u, n) \/ Enqueue(u, n) \/ Reject(u, n) \/ RecordLoss(u, n)
      PROVE  UNCHANGED <<marker, pc>>
  BY <1>4 DEF Announce, Enqueue, Reject, RecordLoss
<1>5. CASE StartCycle \/ ObserveMarkers \/ PlanUsers \/ FinishUsers \/ CountBacklog \/ Conclude
             \/ ReadStats \/ Acknowledge \/ FullIntervalPasses
  BY <1>1, <1>5 DEF StartCycle, ObserveMarkers, PlanUsers, FinishUsers, CountBacklog,
     Conclude, ReadStats, Acknowledge, FullIntervalPasses
<1>6. ASSUME NEW u \in User, TakeEpoch(u) PROVE UNCHANGED marker /\ pc' # "projecting"
  BY <1>6 DEF TakeEpoch
<1>7. CASE PublishSnapshot \/ AcknowledgeStale \/ PublishRejected \/ RefreshRaises
             \/ CommitRaises
  BY <1>1, <1>7 DEF PublishSnapshot, AcknowledgeStale, PublishRejected, RefreshRaises,
     CommitRaises, GiveUpUser, LeaveUser
<1>8. CASE SkipProjection \/ FinishProjection \/ ProjectionRaises \/ CycleRaises \/ Crash
  BY <1>1, <1>8
     DEF SkipProjection, FinishProjection, ProjectionRaises, RecordCycle, CycleRaises, Crash
<1>9. ~ObserveProjection
  BY DEF ObserveProjection, NoProjection
<1>10. ASSUME NEW k \in Key PROVE ~ProjectMarker(k)
  BY DEF ProjectMarker
<1>11. CASE UNCHANGED vars
  BY <1>1, <1>11
<1> QED
  BY <1>1, <1>2, <1>3, <1>4, <1>5, <1>6, <1>7, <1>8, <1>9, <1>10, <1>11
     DEF Next, Request, Worker, Faults, Overflow, EnqueueRaises

\* A full reconciliation is due, work was ever marked and the backlog is not known to be
\* empty.
Unfinished == Dirty # {} /\ ~drained /\ (required \/ fullDue)

\* Then without the projection a full reconciliation is due for ever, whatever the worker
\* does and however often the process restarts: the backlog it waits for
\* (refresher.run_cycle) is never empty again.  This is why the scan's cursor stays
\* parked behind the last user.
NeverReconciled == [][Unfinished => Unfinished']_vars

\* With STATS_PROJECTION_ENABLED=false, a full reconciliation that is due beside a backlog
\* of markers never ends.
THEOREM NoProjectionNoEnd == ~ProjectionEnabled => (Spec => NeverReconciled)
<1> SUFFICES ASSUME ~ProjectionEnabled PROVE Spec => NeverReconciled
  OBVIOUS
<1>1. TypeOK /\ NeverProjected /\ [Next]_vars => NeverProjected'
  BY RowsStay
<1>2. TypeOK /\ NeverProjected /\ [Next]_vars => [Unfinished => Unfinished']_vars
  <2> SUFFICES ASSUME TypeOK, NeverProjected, Next, Unfinished PROVE Unfinished'
    OBVIOUS
  <2>1. Dirty' # {}
    <3>1. PICK k \in Key : marker[k].gen > 0
      BY DEF Unfinished, Dirty
    <3>2. marker'[k].gen > 0
      BY <3>1, RowsStay
    <3> QED
      BY <3>2 DEF Dirty
  <2>2. CASE UNCHANGED <<drained, required, fullDue>>
    BY <2>1, <2>2 DEF Unfinished
  <2>3. ASSUME NEW u \in User, NEW n \in Versions(u),
               Announce(u, n) \/ Enqueue(u, n) \/ Reject(u, n) \/ RecordLoss(u, n)
        PROVE  Unfinished'
    BY <2>1, <2>3
       DEF Announce, Enqueue, PutEvent, Reject, RecordLoss, RequireFull, Unfinished
  <2>4. ASSUME NEW u \in User, NEW w \in Window, NEW t \in Stamp, Mutate(u, w, t)
        PROVE  Unfinished'
    BY <2>2, <2>4 DEF Mutate
  <2>5. ASSUME NEW u \in User, TakeEpoch(u) PROVE Unfinished'
    BY <2>2, <2>5 DEF TakeEpoch
  <2>6. CASE StartCycle \/ ObserveMarkers \/ PlanUsers \/ ReadStats \/ Acknowledge
               \/ AcknowledgeStale \/ PublishSnapshot \/ PublishRejected \/ CommitUser
               \/ FinishUsers \/ ObserveProjection \/ RefreshRaises \/ CommitRaises
    BY <2>2, <2>6 DEF StartCycle, ObserveMarkers, PlanUsers, ReadStats, Acknowledge,
       AcknowledgeStale, PublishSnapshot, PublishRejected, CommitUser, GiveUpUser,
       FinishUsers, ObserveProjection, RefreshRaises, CommitRaises
  <2>7. CASE CountBacklog \/ FullIntervalPasses
    <3>1. drained' = FALSE
      BY <2>7 DEF CountBacklog, FullIntervalPasses, Unfinished, TypeOK
    <3>2. required' \/ fullDue'
      BY <2>7 DEF CountBacklog, FullIntervalPasses, Unfinished
    <3> QED
      BY <2>1, <3>1, <3>2 DEF Unfinished
  <2>8. CASE Conclude
    BY <2>1, <2>8 DEF Conclude, ConcludeFull, ConcludePage, ConcludeRetry, RequireFull,
       Unfinished
  <2>9. CASE SkipProjection \/ FinishProjection \/ ProjectionRaises
    BY <2>1, <2>9
       DEF SkipProjection, FinishProjection, ProjectionRaises, RecordCycle, Unfinished
  <2>10. CASE CycleRaises \/ Crash
    BY <2>1, <2>10 DEF CycleRaises, RequireFull, Crash, Unfinished
  <2>11. ASSUME NEW k \in Key, ProjectMarker(k) PROVE Unfinished'
    BY <2>2, <2>11 DEF ProjectMarker
  <2> QED
    BY <2>3, <2>4, <2>5, <2>6, <2>7, <2>8, <2>9, <2>10, <2>11
       DEF Next, Request, Worker, Faults, Overflow, EnqueueRaises
<1> QED
  BY <1>1, <1>2, NeverProjectedInit, TypeCorrect, PTL DEF Spec, NeverReconciled

================================================================================
