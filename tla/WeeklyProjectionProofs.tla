-------------------------- MODULE WeeklyProjectionProofs --------------------------
(***************************************************************************)
(* Proofs about WeeklyProjection, for every set of users, weeks, payloads  *)
(* and versions and every bound: type correctness, Faithful and            *)
(* OneLifecycle by an inductive invariant, the two action properties, and  *)
(* the step simulation of DevelopedHistory.                                *)
(***************************************************************************)
EXTENDS WeeklyProjection, DirtyMarkersProofs, TLAPS

--------------------------------------------------------------------------------
(***************************************************************************)
(* The inductive invariant.                                                *)
(***************************************************************************)

\* A transaction's clock never runs ahead, and while one runs it has its item.
ClockRead == at <= now
ItemInHand == pc \in {"apply", "finalize"} => item \in Key

\* Only weeks closed by then are developed or finalised.
PointsClosed == \A k \in Key : points[k] # << >> => Closed(k, at)
OverdueClosed ==
    /\ \A k \in overdue : Closed(k, now)
    /\ pc = "finalize" => Closed(item, at)

\* The state row is written by the first step, and a page persisted by the process
\* that read it.
StateWritten ==
    /\ status = "absent" => version = NoVersion
    /\ pc = "persist" => status = "running" /\ Compatible

\* Until the baseline is over nothing is stored ahead of its cursor,
AheadEmpty ==
    \A k \in Key : status # "active" /\ Before(checkpoint, k)
        => points[k] = << >> /\ working[k] = NoRow

\* its page lies ahead of the cursor,
PageAhead == pc = "persist" => \A k \in candidates : Before(checkpoint, k)

\* and a window the page passes over has no bookmark, or got one that marked it or
\* should have.
PassedBy(k) == ~more \/ \E j \in candidates : Before(k, j)

PageComplete ==
    pc = "persist" => \A k \in Key \ candidates :
        Before(checkpoint, k) /\ PassedBy(k)
            => content[k] = Empty \/ ProjectionPending(k) \/ k \in missed

ClockInv == ClockRead /\ ItemInHand /\ PointsClosed /\ OverdueClosed /\ StateWritten

BaselineInv == AheadEmpty /\ PageAhead /\ PageComplete

IInv == TypeOK /\ ClockInv /\ BaselineInv /\ OneLifecycle /\ Faithful

--------------------------------------------------------------------------------
(***************************************************************************)
(* Requests: what they change is marked from then on, or known as missed.  *)
(***************************************************************************)
USE DEF Key, Row, Absent, Empty, NoRow, NoVersion, vars, requestVars, stateVars,
        rowVars, baselineVars, pageVars, processVars

LEMMA MarkDirtyEffect ==
    ASSUME MarkerTypeOK, NEW k \in Key, NEW t \in Stamp, MarkDirty(k, t)
    PROVE  /\ ProjectionPending(k)'
           /\ \A j \in Key : j # k => marker'[j] = marker[j]
<1>1. marker[k] \in Row
  BY DEF MarkerTypeOK
<1>2. marker'[k] = Marked(marker[k], t)
  BY DEF MarkDirty, MarkerTypeOK
<1>3. marker'[k].gen = marker[k].gen + 1 /\ marker'[k].proj = 0 /\ marker[k].gen \in Nat
  BY <1>1, <1>2 DEF Marked
<1> QED
  BY <1>3 DEF ProjectionPending, MarkDirty, MarkerTypeOK

\* Whatever a step marks or acknowledges, other windows' markers keep their pending
\* projection.
LEMMA SamePending ==
    ASSUME NEW k \in Key, marker'[k] = marker[k]
    PROVE  ProjectionPending(k)' <=> ProjectionPending(k)
  BY DEF ProjectionPending

\* What a request or a seed leaves alone.
Elsewhere == <<now, stateVars, rowVars, pc, at, baselineVars, pageVars, item, processVars>>

\* Every request is one change, with the windows that it marks.
LEMMA RequestForms ==
    ASSUME Request
    PROVE  \E S, W \in SUBSET Key : \E f \in [S -> Payload] :
              /\ Change(f, W)
              /\ \/ W = {} /\ UNCHANGED marker
                 \/ \E k \in Key, t \in Stamp : W = {k} /\ MarkDirty(k, t)
<1> HIDE DEF Key
<1>1. ASSUME NEW k \in Key, NEW p \in Payload, NEW t \in Stamp, Mutate(k, p, t)
      PROVE  \E S, W \in SUBSET Key : \E f \in [S -> Payload] :
                /\ Change(f, W)
                /\ \E j \in Key, u \in Stamp : W = {j} /\ MarkDirty(j, u)
  <2>1. Change([i \in {k} |-> p], {k}) /\ MarkDirty(k, t)
    BY <1>1 DEF Mutate
  <2>2. {k} \in SUBSET Key /\ [i \in {k} |-> p] \in [{k} -> Payload]
    OBVIOUS
  <2> QED
    BY <2>1, <2>2
<1>2. ASSUME NEW k \in Key, NEW j \in Key, NEW p \in Payload, NEW t \in Stamp,
             MutateReplaced(k, j, p, t)
      PROVE  \E S, W \in SUBSET Key : \E f \in [S -> Payload] :
                /\ Change(f, W)
                /\ \E i \in Key, u \in Stamp : W = {i} /\ MarkDirty(i, u)
  <2>1. Change([i \in {k} |-> p], {j}) /\ MarkDirty(j, t)
    BY <1>2 DEF MutateReplaced
  <2>2. {k} \in SUBSET Key /\ {j} \in SUBSET Key /\ [i \in {k} |-> p] \in [{k} -> Payload]
    OBVIOUS
  <2> QED
    BY <2>1, <2>2
<1>3. ASSUME NEW u \in User, NEW S \in SUBSET Key, NEW f \in [S -> Payload \ {Empty}],
             Seed(u, f)
      PROVE  \E T, W \in SUBSET Key : \E g \in [T -> Payload] :
                Change(g, W) /\ W = {} /\ UNCHANGED marker
  <2>1. Change(f, {}) /\ UNCHANGED marker
    BY <1>3 DEF Seed
  <2>2. f \in [S -> Payload] /\ {} \in SUBSET Key
    OBVIOUS
  <2> QED
    BY <2>1, <2>2
<1> QED
  BY <1>1, <1>2, <1>3 DEF Request

LEMMA RequestEffect ==
    ASSUME TypeOK, Request
    PROVE  /\ MarkerTypeOK' /\ content' \in [Key -> Payload]
           /\ missed' \in SUBSET Key /\ changes' \in Nat
           /\ UNCHANGED Elsewhere
           /\ \A k \in Key : ProjectionPending(k) => ProjectionPending(k)'
           /\ \A k \in Key :
                 \/ ProjectionPending(k)'
                 \/ k \in missed'
                 \/ content'[k] = content[k] /\ k \notin missed
<1> HIDE DEF Key
<1>0. PICK S \in SUBSET Key, W \in SUBSET Key : \E f \in [S -> Payload] :
         /\ Change(f, W)
         /\ \/ W = {} /\ UNCHANGED marker
            \/ \E k \in Key, t \in Stamp : W = {k} /\ MarkDirty(k, t)
  BY RequestForms
<1>1. PICK f \in [S -> Payload] :
         /\ Change(f, W)
         /\ \/ W = {} /\ UNCHANGED marker
            \/ \E k \in Key, t \in Stamp : W = {k} /\ MarkDirty(k, t)
  BY <1>0
<1>m. MarkerTypeOK
  BY DEF TypeOK
<1>2. MarkerTypeOK'
  <2>1. CASE UNCHANGED marker
    BY <1>m, <2>1 DEF MarkerTypeOK
  <2>2. ASSUME NEW k \in Key, NEW t \in Stamp, MarkDirty(k, t) PROVE MarkerTypeOK'
    BY <1>m, <2>2, MarkDirtyType
  <2> QED
    BY <1>1, <2>1, <2>2
<1>3. /\ content' = [k \in Key |-> IF k \in S THEN f[k] ELSE content[k]]
      /\ missed' = (missed \cup {k \in S : f[k] # content[k]}) \ W
      /\ changes' = changes + 1
      /\ UNCHANGED Elsewhere
  BY <1>1 DEF Change, Elsewhere
<1>4. content' \in [Key -> Payload] /\ missed' \in SUBSET Key /\ changes' \in Nat
  BY <1>3 DEF TypeOK
<1>5. /\ \A k \in W : ProjectionPending(k)'
      /\ \A k \in Key \ W : marker'[k] = marker[k]
  BY <1>1, <1>m, MarkDirtyEffect
<1>6. \A k \in Key : ProjectionPending(k) => ProjectionPending(k)'
  BY <1>5, SamePending
<1>7. \A k \in Key \ W : k \in missed' \/ (content'[k] = content[k] /\ k \notin missed)
  BY <1>3
<1> QED
  BY <1>2, <1>3, <1>4, <1>5, <1>6, <1>7

--------------------------------------------------------------------------------
(***************************************************************************)
(* Types.                                                                  *)
(***************************************************************************)
LEMMA RevisedType ==
    ASSUME NEW h \in Seq(Payload), NEW p \in Payload
    PROVE  /\ Revised(h, p) \in Seq(Payload)
           /\ Revised(h, p) # << >>
           /\ Revised(h, p)[Len(Revised(h, p))] = p
<1>1. CASE h # << >> /\ h[Len(h)] = p
  BY <1>1 DEF Revised
<1>2. CASE ~(h # << >> /\ h[Len(h)] = p)
  <2>1. Revised(h, p) = Append(h, p)
    BY <1>2 DEF Revised
  <2>2. Append(h, p) \in Seq(Payload) /\ Len(Append(h, p)) = Len(h) + 1
        /\ Append(h, p)[Len(h) + 1] = p
    OBVIOUS
  <2> QED
    BY <2>1, <2>2
<1> QED
  BY <1>1, <1>2

\* A window the transaction believes current is a key of its user.
LEMMA CurrentKey ==
    ASSUME TypeOK, NEW k \in Key
    PROVE  <<k[1], at>> \in Key
  BY DEF TypeOK

LEMMA DevelopType ==
    ASSUME TypeOK, NEW k \in Key, Develop(k)
    PROVE  /\ points' \in [Key -> Seq(Payload)]
           /\ working' \in [Key -> Payload \cup {NoRow}]
<1>1. points' \in [Key -> Seq(Payload)]
  BY RevisedType DEF TypeOK, Develop
<1>2. [working EXCEPT ![k] = NoRow] \in [Key -> Payload \cup {NoRow}]
  BY DEF TypeOK
<1>3. <<k[1], at>> \in Key /\ content[<<k[1], at>>] \in Payload
  BY CurrentKey DEF TypeOK
<1> QED
  BY <1>1, <1>2, <1>3 DEF Develop, WithSuccessor

LEMMA PersistType ==
    ASSUME TypeOK, NEW page \in SUBSET Key, NEW hasMore \in BOOLEAN,
           PersistPage(page, hasMore)
    PROVE  /\ points' \in [Key -> Seq(Payload)]
           /\ working' \in [Key -> Payload \cup {NoRow}]
           /\ checkpoint' \in Key \cup {Start}
           /\ status' \in {"absent", "running", "active"}
<1>1. points' \in [Key -> Seq(Payload)]
  BY DEF TypeOK, PersistPage
<1>2. working' \in [Key -> Payload \cup {NoRow}]
  BY DEF TypeOK, PersistPage
<1>3. checkpoint' \in Key \cup {Start}
  BY DEF TypeOK, PersistPage, IsLast
<1> QED
  BY <1>1, <1>2, <1>3 DEF PersistPage, StatusAfter

LEMMA PageType == Page \subseteq Key
  BY DEF Page, Dirty

LEMMA TypeInit == Init => TypeOK
<1> SUFFICES ASSUME Init PROVE TypeOK
  OBVIOUS
<1>1. MarkerTypeOK
  BY DEF Init, NoMarkers, MarkerTypeOK
<1>2. points \in [Key -> Seq(Payload)]
  <2>1. << >> \in Seq(Payload)
    OBVIOUS
  <2> QED
    BY <2>1 DEF Init
<1> QED
  BY <1>1, <1>2 DEF Init, TypeOK, Start, NoItem

LEMMA EndPhaseType ==
    ASSUME EndPhase
    PROVE  /\ pc' = "idle"
           /\ candidates' \in SUBSET Key /\ more' \in BOOLEAN
           /\ observed' \in [Key -> Nat] /\ overdue' \in SUBSET Key
           /\ item' \in Key \cup {NoItem}
  BY DEF EndPhase

LEMMA AcknowledgeCurrentType ==
    ASSUME TypeOK, NEW done \in SUBSET Key, AcknowledgeCurrent(done), faults' \in Nat
    PROVE  TypeOK'
<1>1. MarkerTypeOK'
  BY AcknowledgedType DEF AcknowledgeCurrent, TypeOK, MarkerTypeOK
<1> QED
  BY <1>1 DEF AcknowledgeCurrent, TypeOK

LEMMA FaultType == ASSUME TypeOK, Fault PROVE faults' \in Nat
  BY DEF TypeOK, Fault

LEMMA TypeStep == TypeOK /\ ItemInHand /\ [Next]_vars => TypeOK' /\ ItemInHand'
<1> SUFFICES ASSUME TypeOK, ItemInHand, [Next]_vars
             PROVE  TypeOK' /\ ItemInHand'
  OBVIOUS
<1> USE DEF ItemInHand
<1>1. CASE Request
  BY <1>1, RequestEffect DEF Elsewhere, TypeOK
<1>2. CASE ClockAdvances
  <2>1. MarkerTypeOK'
    BY <1>2 DEF ClockAdvances, TypeOK, MarkerTypeOK
  <2> QED
    BY <1>2, <2>1 DEF ClockAdvances, TypeOK
<1>3. CASE RefreshCurrent
  <2>1. faults' \in Nat
    BY <1>3 DEF RefreshCurrent, TypeOK
  <2> QED
    BY <1>3, <2>1, PageType, AcknowledgeCurrentType DEF RefreshCurrent, AcknowledgeCurrent
<1>4. CASE StartBaseline
  <2>1. PICK page \in SUBSET Surviving(checkpoint) :
           /\ PersistPage(page, page # Surviving(checkpoint))
           /\ EnterPhase(page # Surviving(checkpoint))
    BY <1>4 DEF StartBaseline
  <2>2. page \in SUBSET Key
    BY DEF Surviving
  <2>3. MarkerTypeOK'
    BY <1>4 DEF StartBaseline, TypeOK, MarkerTypeOK
  <2> HIDE DEF Key
  <2> QED
    BY <1>4, <2>1, <2>2, <2>3, PersistType DEF StartBaseline, EnterPhase, TypeOK
<1>5. CASE ReadCandidates
  <2>1. MarkerTypeOK'
    BY <1>5 DEF ReadCandidates, TypeOK, MarkerTypeOK
  <2>2. candidates' \in SUBSET Key
    BY <1>5 DEF ReadCandidates, Surviving
  <2> QED
    BY <1>5, <2>1, <2>2 DEF ReadCandidates, TypeOK
<1>6. CASE PersistCandidates
  <2>1. MarkerTypeOK'
    BY <1>6 DEF PersistCandidates, TypeOK, MarkerTypeOK
  <2>2. candidates \in SUBSET Key /\ more \in BOOLEAN
    BY DEF TypeOK
  <2> HIDE DEF Key
  <2> QED
    BY <1>6, <2>1, <2>2, PersistType DEF PersistCandidates, EnterPhase, TypeOK
<1>7. CASE FutureCandidate
  <2>1. MarkerTypeOK'
    BY <1>7 DEF FutureCandidate, TypeOK, MarkerTypeOK
  <2> QED
    BY <1>7, <2>1, EndPhaseType DEF FutureCandidate, TypeOK
<1>8. CASE VersionMismatch
  <2>1. MarkerTypeOK'
    BY <1>8 DEF VersionMismatch, TypeOK, MarkerTypeOK
  <2> QED
    BY <1>8, <2>1, EndPhaseType DEF VersionMismatch, TypeOK
<1>9. CASE AlreadyActive
  <2>1. MarkerTypeOK'
    BY <1>9 DEF AlreadyActive, TypeOK, MarkerTypeOK
  <2> QED
    BY <1>9, <2>1 DEF AlreadyActive, TypeOK
<1>10. CASE ObserveWork
  <2>1. MarkerTypeOK'
    BY <1>10 DEF ObserveWork, TypeOK, MarkerTypeOK
  <2>2. observed' \in [Key -> Nat] /\ overdue' \in SUBSET Key
    BY <1>10 DEF ObserveWork, OverduePage, TypeOK, MarkerTypeOK
  <2> QED
    BY <1>10, <2>1, <2>2 DEF ObserveWork, TypeOK
<1>11. ASSUME NEW k \in Key, TakeMarker(k)
       PROVE  TypeOK' /\ ItemInHand'
  <2>1. MarkerTypeOK'
    BY <1>11 DEF TakeMarker, TypeOK, MarkerTypeOK
  <2> QED
    BY <1>11, <2>1 DEF TakeMarker, TypeOK
<1>12. CASE ApplyMarker
  <2>1. item \in Key
    BY <1>12 DEF ApplyMarker
  <2>2. MarkerTypeOK'
    BY <1>12, <2>1, AcknowledgedType DEF ApplyMarker, TypeOK, MarkerTypeOK
  <2>3. points' \in [Key -> Seq(Payload)] /\ working' \in [Key -> Payload \cup {NoRow}]
    BY <1>12, <2>1, DevelopType DEF ApplyMarker, TypeOK
  <2>4. observed' \in [Key -> Nat]
    BY <1>12, <2>1 DEF ApplyMarker, MarkerDone, TypeOK
  <2> HIDE DEF Key
  <2> QED
    BY <1>12, <2>2, <2>3, <2>4 DEF ApplyMarker, MarkerDone, TypeOK
<1>13. CASE MarkerStale
  <2>1. item \in Key
    BY <1>13 DEF MarkerStale
  <2>2. MarkerTypeOK'
    BY <1>13 DEF MarkerStale, TypeOK, MarkerTypeOK
  <2>3. observed' \in [Key -> Nat]
    BY <1>13, <2>1 DEF MarkerStale, MarkerDone, TypeOK
  <2> HIDE DEF Key
  <2> QED
    BY <1>13, <2>2, <2>3 DEF MarkerStale, MarkerDone, TypeOK
<1>14. ASSUME NEW k \in Key, TakeOverdue(k)
       PROVE  TypeOK' /\ ItemInHand'
  <2>1. MarkerTypeOK'
    BY <1>14 DEF TakeOverdue, TypeOK, MarkerTypeOK
  <2>2. pc' \in {"process", "finalize"} /\ item' \in Key \cup {NoItem}
        /\ (pc' = "finalize" => item' \in Key)
    BY <1>14 DEF TakeOverdue, TypeOK
  <2> HIDE DEF Key
  <2> QED
    BY <1>14, <2>1, <2>2 DEF TakeOverdue, TypeOK
<1>15. CASE Finalize
  <2>1. item \in Key
    BY <1>15 DEF Finalize
  <2>2. MarkerTypeOK'
    BY <1>15 DEF Finalize, TypeOK, MarkerTypeOK
  <2> HIDE DEF Key
  <2> QED
    BY <1>15, <2>1, <2>2, DevelopType DEF Finalize, TypeOK
<1>16. CASE FinishPhase
  <2>1. MarkerTypeOK'
    BY <1>16 DEF FinishPhase, TypeOK, MarkerTypeOK
  <2> QED
    BY <1>16, <2>1, EndPhaseType DEF FinishPhase, TypeOK
<1>17. CASE RefreshFails
  <2>1. PICK done \in SUBSET Dirty : AcknowledgeCurrent(done) /\ Fault
    BY <1>17 DEF RefreshFails
  <2>2. done \in SUBSET Key
    BY DEF Dirty
  <2> QED
    BY <2>1, <2>2, FaultType, AcknowledgeCurrentType DEF AcknowledgeCurrent
<1>18. CASE PhaseRaises
  <2>1. MarkerTypeOK'
    BY <1>18 DEF PhaseRaises, TypeOK, MarkerTypeOK
  <2> QED
    BY <1>18, <2>1, EndPhaseType, FaultType DEF PhaseRaises, TypeOK
<1>19. CASE Restart
  <2>1. MarkerTypeOK'
    BY <1>19 DEF Restart, TypeOK, MarkerTypeOK
  <2> QED
    BY <1>19, <2>1, EndPhaseType, FaultType DEF Restart, TypeOK
<1>20. CASE UNCHANGED vars
  <2>1. MarkerTypeOK'
    BY <1>20 DEF TypeOK, MarkerTypeOK
  <2> QED
    BY <1>20, <2>1 DEF TypeOK
<1> QED
  BY <1>1, <1>2, <1>3, <1>4, <1>5, <1>6, <1>7, <1>8, <1>9, <1>10, <1>11, <1>12, <1>13,
     <1>14, <1>15, <1>16, <1>17, <1>18, <1>19, <1>20 DEF Next, Worker, Faults

\* Markers, state row, working rows, points and the phase's locals keep their types,
\* and a transaction has a key in hand.
THEOREM TypeCorrect == Spec => []TypeOK
<1>1. Init => ItemInHand
  BY DEF Init, ItemInHand
<1> QED
  BY <1>1, TypeInit, TypeStep, PTL DEF Spec

--------------------------------------------------------------------------------
(***************************************************************************)
(* What the two writing transactions do to the rows.                       *)
(***************************************************************************)
LEMMA WeekType == ASSUME NEW k \in Key PROVE k[1] \in Nat \ {0} /\ k[2] \in Nat
  BY UserAssumption, WindowAssumption

LEMMA ClockType == ASSUME TypeOK PROVE at \in Nat /\ now \in Nat
  BY WindowAssumption DEF TypeOK

\* Only k and the week believed current change; k ends as a point.
LEMMA DevelopEffect ==
    ASSUME TypeOK, NEW k \in Key, Closed(k, at), Develop(k)
    PROVE  /\ <<k[1], at>> \in Key /\ k # <<k[1], at>>
           /\ points'[k] # << >> /\ points'[k][Len(points'[k])] = content[k]
           /\ \A j \in Key : j # k => points'[j] = points[j]
           /\ working'[k] = NoRow
           /\ working'[<<k[1], at>>] # NoRow
           /\ \A j \in Key : j # k =>
                 \/ working'[j] = working[j]
                 \/ j = <<k[1], at>> /\ working[j] = NoRow /\ working'[j] = content[j]
<1> DEFINE current == <<k[1], at>>
           rows == [working EXCEPT ![k] = NoRow]
<1>1. current \in Key /\ k # current
  <2>1. k[2] < at /\ k[2] \in Nat /\ at \in Nat
    BY WeekType, ClockType DEF Closed
  <2> QED
    BY <2>1, CurrentKey
<1>2. points[k] \in Seq(Payload) /\ content[k] \in Payload /\ content[current] \in Payload
  BY <1>1 DEF TypeOK
<1>3. points'[k] = Revised(points[k], content[k])
  BY DEF Develop, TypeOK
<1>4. points'[k] # << >> /\ points'[k][Len(points'[k])] = content[k]
  BY <1>2, <1>3, RevisedType
<1>5. \A j \in Key : j # k => points'[j] = points[j]
  BY DEF Develop, TypeOK
<1>6. working' = IF rows[current] = NoRow
                 THEN [rows EXCEPT ![current] = content[current]] ELSE rows
  BY DEF Develop, WithSuccessor
<1>7. content[current] # NoRow
  BY <1>2, PayloadAssumption
<1>8. rows \in [Key -> Payload \cup {NoRow}] /\ rows[k] = NoRow
      /\ \A j \in Key : j # k => rows[j] = working[j]
  BY DEF TypeOK
<1> HIDE DEF rows, current, Key
<1>9. /\ working'[k] = NoRow
      /\ working'[current] # NoRow
      /\ \A j \in Key : j # k =>
            \/ working'[j] = working[j]
            \/ j = current /\ working[j] = NoRow /\ working'[j] = content[j]
  <2>1. CASE rows[current] = NoRow
    BY <1>1, <1>6, <1>7, <1>8, <2>1
  <2>2. CASE rows[current] # NoRow
    BY <1>1, <1>6, <1>7, <1>8, <2>2
  <2> QED
    BY <2>1, <2>2
<1> QED
  BY <1>1, <1>4, <1>5, <1>9 DEF current

\* Only the page's keys change; ahead of the cursor they had nothing.
LEMMA PersistEffect ==
    ASSUME TypeOK, NEW page \in SUBSET Key, NEW hasMore \in BOOLEAN,
           PersistPage(page, hasMore), \A k \in page : points[k] = << >> /\ working[k] = NoRow
    PROVE  /\ \A k \in Key \ page : points'[k] = points[k] /\ working'[k] = working[k]
           /\ \A k \in page : IF Closed(k, at)
                              THEN points'[k] = <<content[k]>> /\ working'[k] = NoRow
                              ELSE points'[k] = << >> /\ working'[k] = content[k]
  BY DEF TypeOK, PersistPage

--------------------------------------------------------------------------------
(***************************************************************************)
(* The clock and the control state.                                        *)
(***************************************************************************)
LEMMA ClockInit == Init => ClockInv
<1> SUFFICES ASSUME Init PROVE ClockInv
  OBVIOUS
<1>1. now \in Nat
  BY WindowAssumption DEF Init
<1> QED
  BY <1>1 DEF Init, ClockInv, ClockRead, ItemInHand, PointsClosed, OverdueClosed,
     StateWritten

\* A later reading of the clock finds no fewer weeks closed.
LEMMA ClosedLater ==
    ASSUME NEW k \in Key, NEW t \in Nat, NEW u \in Nat, t <= u, Closed(k, t)
    PROVE  Closed(k, u)
  BY WeekType DEF Closed

LEMMA ClockStep == TypeOK /\ ClockInv /\ AheadEmpty /\ PageAhead /\ [Next]_vars => ClockInv'
<1> SUFFICES ASSUME TypeOK, ClockInv, AheadEmpty, PageAhead, [Next]_vars
             PROVE  ClockInv'
  OBVIOUS
<1>0. TypeOK' /\ ItemInHand'
  BY TypeStep DEF ClockInv
<1>t. at \in Nat /\ now \in Nat /\ at <= now
  BY ClockType DEF ClockInv, ClockRead
<1>c. \A k \in Key : Closed(k, at) => Closed(k, now)
  BY <1>t, ClosedLater
<1>o. overdue \in SUBSET Key
  BY DEF TypeOK
<1> USE DEF ClockRead, PointsClosed, OverdueClosed, StateWritten
<1>1. CASE Request
  <2>1. UNCHANGED Elsewhere
    BY <1>1, RequestEffect
  <2> QED
    BY <1>0, <2>1, <1>t DEF Elsewhere, ClockInv, Compatible
<1>2. CASE ClockAdvances
  <2>1. now' \in Nat /\ now' > now
    BY <1>2, WindowAssumption DEF ClockAdvances
  <2>2. \A k \in Key : Closed(k, now) => Closed(k, now')
    BY <2>1, <1>t, ClosedLater
  <2>3. \A k \in overdue' : Closed(k, now')
    BY <1>2, <1>o, <2>2 DEF ClockAdvances, ClockInv
  <2> QED
    BY <1>0, <1>2, <1>t, <2>1, <2>3 DEF ClockAdvances, ClockInv, Compatible, Closed
<1>3. ASSUME NEW done, AcknowledgeCurrent(done)
      PROVE  ClockInv'
  <2>1. \A k \in Key : points'[k] # << >> => Closed(k, at')
    BY <1>3, <1>c DEF AcknowledgeCurrent, ClockInv
  <2> QED
    BY <1>0, <1>3, <1>t, <2>1 DEF AcknowledgeCurrent, ClockInv, Compatible
<1>4. ASSUME NEW page \in SUBSET Key, NEW hasMore \in BOOLEAN, PersistPage(page, hasMore),
             at' = at, \A k \in page : points[k] = << >> /\ working[k] = NoRow
      PROVE  PointsClosed'
  <2>1. \A k \in Key : points'[k] # << >> => Closed(k, at)
    BY <1>4, PersistEffect DEF ClockInv
  <2> QED
    BY <1>4, <2>1
<1>5. CASE StartBaseline
  <2>1. PICK page \in SUBSET Surviving(checkpoint) :
           /\ PersistPage(page, page # Surviving(checkpoint))
           /\ EnterPhase(page # Surviving(checkpoint))
    BY <1>5 DEF StartBaseline
  <2>2. page \in SUBSET Key /\ \A k \in page : points[k] = << >> /\ working[k] = NoRow
    BY <1>5 DEF StartBaseline, Surviving, AheadEmpty
  <2>3. PointsClosed'
    BY <1>4, <1>5, <2>1, <2>2 DEF StartBaseline
  <2>4. status' # "absent" /\ pc' \in {"idle", "observe"} /\ UNCHANGED <<now, at, overdue>>
    BY <1>5, <2>1 DEF StartBaseline, EnterPhase, PersistPage, StatusAfter
  <2> QED
    BY <1>0, <1>t, <2>3, <2>4 DEF ClockInv, Closed
<1>6. CASE ReadCandidates
  BY <1>0, <1>6, <1>t DEF ReadCandidates, ClockInv, Compatible
<1>7. CASE PersistCandidates
  <2>1. candidates \in SUBSET Key /\ \A k \in candidates : points[k] = << >> /\ working[k] = NoRow
    BY <1>7 DEF PersistCandidates, TypeOK, PageAhead, AheadEmpty, ClockInv
  <2>2. more \in BOOLEAN
    BY DEF TypeOK
  <2>3. PointsClosed'
    BY <1>4, <1>7, <2>1, <2>2 DEF PersistCandidates
  <2>4. status' # "absent" /\ pc' \in {"idle", "observe"} /\ UNCHANGED <<now, at, overdue>>
    BY <1>7 DEF PersistCandidates, EnterPhase, PersistPage, StatusAfter
  <2> QED
    BY <1>0, <1>t, <2>3, <2>4 DEF ClockInv, Closed
<1>8. CASE FutureCandidate \/ VersionMismatch \/ FinishPhase \/ PhaseRaises \/ Restart
  <2>1. EndPhase /\ UNCHANGED <<now, stateVars, rowVars, at>>
    BY <1>8 DEF FutureCandidate, VersionMismatch, FinishPhase, PhaseRaises, Restart
  <2> QED
    BY <1>0, <1>t, <2>1 DEF EndPhase, ClockInv
<1>9. CASE AlreadyActive
  BY <1>0, <1>9, <1>t DEF AlreadyActive, ClockInv
<1>10. CASE ObserveWork
  <2>1. \A k \in overdue' : Closed(k, now)
    BY <1>10 DEF ObserveWork, OverduePage, Overdue
  <2> QED
    BY <1>0, <1>10, <1>t, <2>1 DEF ObserveWork, ClockInv, Closed
<1>11. ASSUME NEW k \in Key, TakeMarker(k)
       PROVE  ClockInv'
  <2>1. \A j \in Key : points'[j] # << >> => Closed(j, at')
    BY <1>11, <1>c DEF TakeMarker, ClockInv
  <2> QED
    BY <1>0, <1>11, <1>t, <2>1 DEF TakeMarker, ClockInv, Closed
<1>12. CASE ApplyMarker
  <2>1. item \in Key
    BY <1>12 DEF ApplyMarker, ClockInv, ItemInHand
  <2>2. \A j \in Key : points'[j] # << >> => Closed(j, at)
    <3>1. CASE Closed(item, at)
      <4>1. Develop(item)
        BY <1>12, <3>1 DEF ApplyMarker
      <4>2. \A j \in Key : j # item => points'[j] = points[j]
        BY <2>1, <3>1, <4>1, DevelopEffect
      <4> QED
        BY <3>1, <4>2 DEF ClockInv
    <3>2. CASE ~Closed(item, at)
      BY <1>12, <3>2 DEF ApplyMarker, ClockInv
    <3> QED
      BY <3>1, <3>2
  <2> QED
    BY <1>0, <1>12, <1>t, <2>2 DEF ApplyMarker, MarkerDone, ClockInv, Closed
<1>13. CASE MarkerStale
  BY <1>0, <1>13, <1>t DEF MarkerStale, MarkerDone, ClockInv, Closed
<1>14. ASSUME NEW k \in Key, TakeOverdue(k)
       PROVE  ClockInv'
  <2>1. \A j \in Key : points'[j] # << >> => Closed(j, at')
    BY <1>14, <1>c DEF TakeOverdue, ClockInv
  <2>2. Closed(k, at')
    BY <1>14 DEF TakeOverdue, ClockInv
  <2>3. pc' = "finalize" => item' = k
    BY <1>14 DEF TakeOverdue
  <2>4. \A j \in overdue' : Closed(j, now')
    BY <1>14 DEF TakeOverdue, ClockInv
  <2>5. pc' \in {"process", "finalize"} /\ UNCHANGED <<now, stateVars>> /\ at' = now
    BY <1>14 DEF TakeOverdue
  <2> QED
    BY <1>0, <1>t, <2>1, <2>2, <2>3, <2>4, <2>5 DEF ClockInv
<1>15. CASE Finalize
  <2>1. item \in Key /\ Closed(item, at)
    BY <1>15 DEF Finalize, ClockInv, ItemInHand
  <2>2. \A j \in Key : points'[j] # << >> => Closed(j, at)
    <3>1. Develop(item)
      BY <1>15 DEF Finalize
    <3>2. \A j \in Key : j # item => points'[j] = points[j]
      BY <2>1, <3>1, DevelopEffect
    <3> QED
      BY <2>1, <3>2 DEF ClockInv
  <2> QED
    BY <1>0, <1>15, <1>t, <2>2 DEF Finalize, ClockInv, Closed
<1>16. CASE UNCHANGED vars
  BY <1>0, <1>16, <1>t DEF ClockInv, Compatible
<1> QED
  BY <1>1, <1>2, <1>3, <1>5, <1>6, <1>7, <1>8, <1>9, <1>10, <1>11, <1>12, <1>13,
     <1>14, <1>15, <1>16 DEF Next, Worker, Faults, RefreshCurrent, RefreshFails

--------------------------------------------------------------------------------
(***************************************************************************)
(* Markers: who may complete one for the projection.                       *)
(***************************************************************************)
LEMMA AcknowledgeKeeps ==
    ASSUME MarkerTypeOK, NEW done, AcknowledgeCurrent(done),
           NEW k \in Key, ProjectionPending(k)
    PROVE  ProjectionPending(k)'
<1>1. marker[k] \in Row /\ marker[k].gen > 0 /\ marker[k].proj # marker[k].gen
  BY DEF MarkerTypeOK, ProjectionPending
<1>2. CurrentAcknowledged(marker[k]) = [marker[k] EXCEPT !.cur = marker[k].gen]
  BY <1>1 DEF CurrentAcknowledged, Settled
<1>3. marker'[k] = marker[k] \/ marker'[k] = [marker[k] EXCEPT !.cur = marker[k].gen]
  BY <1>2 DEF AcknowledgeCurrent
<1> QED
  BY <1>1, <1>3 DEF ProjectionPending

--------------------------------------------------------------------------------
(***************************************************************************)
(* The order of the pairs, and the page the baseline reads in it.          *)
(***************************************************************************)
Pair == Nat \X Nat

LEMMA KeyIsPair == Key \cup {Start} \subseteq Pair
<1>1. Key \subseteq Pair
  BY UserAssumption, WindowAssumption DEF Pair
<1>2. Start \in Pair
  BY DEF Pair, Start
<1> HIDE DEF Key
<1> QED
  BY <1>1, <1>2

LEMMA BeforeOrder ==
    ASSUME NEW i \in Pair, NEW j \in Pair, NEW k \in Pair
    PROVE  /\ ~Before(i, i)
           /\ Before(i, j) => ~Before(j, i)
           /\ Before(i, j) /\ Before(j, k) => Before(i, k)
           /\ i = j \/ Before(i, j) \/ Before(j, i)
  BY DEF Pair, Before

\* A page passes over no window that has a bookmark.
LEMMA PageFacts ==
    ASSUME NEW page \in SUBSET Surviving(checkpoint), IsPage(page, Surviving(checkpoint))
    PROVE  /\ page \subseteq Key
           /\ \A k \in page : Before(checkpoint, k)
           /\ \A k \in Key \ page :
                 /\ Before(checkpoint, k)
                 /\ page = Surviving(checkpoint) \/ \E j \in page : Before(k, j)
                 => content[k] = Empty
<1> HIDE DEF Key
<1>1. page \subseteq Key /\ \A k \in page : Before(checkpoint, k)
  BY DEF Surviving
<1>2. ASSUME NEW k \in Key \ page, Before(checkpoint, k),
             page = Surviving(checkpoint) \/ \E j \in page : Before(k, j)
      PROVE  content[k] = Empty
  <2>1. SUFFICES ASSUME content[k] # Empty PROVE FALSE
    OBVIOUS
  <2>2. k \in Surviving(checkpoint)
    BY <1>2, <2>1 DEF Surviving
  <2>3. \A j \in page : Before(k, j) => k \in page
    BY <2>2 DEF IsPage
  <2> QED
    BY <1>2, <2>2, <2>3
<1> QED
  BY <1>1, <1>2

--------------------------------------------------------------------------------
(***************************************************************************)
(* Faithful, OneLifecycle and AheadEmpty together: RowsInv.                *)
(***************************************************************************)
RowsInv == Faithful /\ OneLifecycle /\ AheadEmpty

\* Steps outside the writing transactions.
LEMMA OutsideKeeps ==
    ASSUME RowsInv, UNCHANGED <<content, missed, working, points, status, checkpoint>>,
           \A k \in Key : ProjectionPending(k) => ProjectionPending(k)'
    PROVE  RowsInv'
<1> HIDE DEF Key
<1>1. \A k \in Key : Right(k) => Right(k)'
  BY DEF Right, Effective
<1>2. \A k \in Key : Ahead(k) => Ahead(k)'
  BY DEF Ahead
<1>3. Faithful'
  BY <1>1, <1>2 DEF RowsInv, Faithful
<1>4. OneLifecycle' /\ AheadEmpty'
  BY DEF RowsInv, OneLifecycle, AheadEmpty
<1> QED
  BY <1>3, <1>4 DEF RowsInv

\* A transaction of the baseline.
LEMMA PersistKeeps ==
    ASSUME TypeOK, RowsInv, status # "active", UNCHANGED <<marker, content, missed>>,
           NEW page \in SUBSET Key, NEW hasMore \in BOOLEAN, PersistPage(page, hasMore),
           \A k \in page : Before(checkpoint, k),
           \A k \in Key \ page :
              Before(checkpoint, k) /\ (~hasMore \/ \E j \in page : Before(k, j))
                 => content[k] = Empty \/ ProjectionPending(k) \/ k \in missed
    PROVE  RowsInv'
<1> HIDE DEF Key
<1>1. \A k \in page : points[k] = << >> /\ working[k] = NoRow
  BY DEF RowsInv, AheadEmpty
<1>2. /\ \A k \in Key \ page : points'[k] = points[k] /\ working'[k] = working[k]
      /\ \A k \in page : IF Closed(k, at)
                         THEN points'[k] = <<content[k]>> /\ working'[k] = NoRow
                         ELSE points'[k] = << >> /\ working'[k] = content[k]
  BY <1>1, PersistEffect
<1>3. checkpoint \in Pair /\ \A k \in Key : k \in Pair
  BY KeyIsPair DEF TypeOK
<1>4. \/ page = {} /\ checkpoint' = checkpoint
      \/ checkpoint' \in page /\ \A j \in page : j = checkpoint' \/ Before(j, checkpoint')
  BY DEF PersistPage, IsLast
<1>5. status' # "active" <=> hasMore
  BY DEF PersistPage, StatusAfter
<1>6. ASSUME NEW k \in Key, Before(checkpoint', k), hasMore
      PROVE  points'[k] = << >> /\ working'[k] = NoRow
  <2>1. Before(checkpoint, k) /\ k \notin page
    <3>1. CASE page = {} /\ checkpoint' = checkpoint
      BY <1>6, <3>1
    <3>2. CASE checkpoint' \in page /\ \A j \in page : j = checkpoint' \/ Before(j, checkpoint')
      <4>1. checkpoint' \in Pair /\ k \in Pair /\ Before(checkpoint, checkpoint')
        BY <1>3, <3>2
      <4>2. Before(checkpoint, k) /\ k # checkpoint' /\ ~Before(k, checkpoint')
        BY <1>3, <1>6, <4>1, BeforeOrder
      <4> QED
        BY <3>2, <4>2
    <3> QED
      BY <1>4, <3>1, <3>2
  <2>2. points[k] = << >> /\ working[k] = NoRow
    BY <2>1 DEF RowsInv, AheadEmpty
  <2> QED
    BY <1>2, <2>1, <2>2
<1>7. AheadEmpty'
  BY <1>5, <1>6 DEF AheadEmpty
<1>8. OneLifecycle'
  <2>1. \A k \in Key \ page : points[k] = << >> \/ working[k] = NoRow
    BY DEF RowsInv, OneLifecycle
  <2> QED
    BY <1>2, <2>1 DEF OneLifecycle
<1>9. ASSUME NEW k \in Key \ missed
      PROVE  ProjectionPending(k)' \/ Right(k)' \/ Ahead(k)'
  <2>1. CASE k \in page
    <3>1. CASE Closed(k, at)
      <4>1. points'[k] = <<content[k]>>
        BY <1>2, <2>1, <3>1
      <4>2. Effective(k)' = content[k]
        BY <4>1 DEF Effective
      <4> QED
        BY <4>2 DEF Right
    <3>2. CASE ~Closed(k, at)
      <4>1. points'[k] = << >> /\ working'[k] = content[k]
        BY <1>2, <2>1, <3>2
      <4> QED
        BY <4>1 DEF Right, Effective
    <3> QED
      BY <3>1, <3>2
  <2>2. CASE k \notin page
    <3>1. points'[k] = points[k] /\ working'[k] = working[k]
      BY <1>2, <2>2
    <3>2. Right(k) => Right(k)'
      BY <3>1 DEF Right, Effective
    <3>3. ProjectionPending(k) => ProjectionPending(k)'
      BY SamePending
    <3>4. ASSUME Ahead(k), ~ProjectionPending(k), content[k] # Empty
          PROVE  Ahead(k)'
      <4>1. Before(checkpoint, k) /\ points[k] = << >> /\ working[k] = NoRow
        BY <3>4 DEF Ahead
      <4>2. hasMore /\ \A j \in page : ~Before(k, j)
        BY <2>2, <3>4, <4>1
      <4>3. Before(checkpoint', k)
        <5>1. CASE page = {} /\ checkpoint' = checkpoint
          BY <4>1, <5>1
        <5>2. CASE checkpoint' \in page
          <6>1. checkpoint' \in Pair /\ k \in Pair /\ k # checkpoint' /\ ~Before(k, checkpoint')
            BY <1>3, <2>2, <4>2, <5>2
          <6> QED
            BY <6>1, BeforeOrder
        <5> QED
          BY <1>4, <5>1, <5>2
      <4> QED
        BY <1>5, <3>1, <4>1, <4>2, <4>3 DEF Ahead
    <3>5. Ahead(k) /\ content[k] = Empty => Right(k)'
      BY <3>1 DEF Ahead, Right, Effective
    <3>6. ProjectionPending(k) \/ Right(k) \/ Ahead(k)
      BY DEF RowsInv, Faithful
    <3> QED
      BY <3>2, <3>3, <3>4, <3>5, <3>6
  <2> QED
    BY <2>1, <2>2
<1> QED
  BY <1>7, <1>8, <1>9 DEF RowsInv, Faithful

\* A transaction that develops a closed window.
LEMMA DevelopKeeps ==
    ASSUME TypeOK, ClockInv, RowsInv, status = "active",
           UNCHANGED <<content, missed, status>>,
           NEW k \in Key, Closed(k, at), Develop(k),
           \A j \in Key : j # k => marker'[j] = marker[j]
    PROVE  RowsInv'
<1> DEFINE current == <<k[1], at>>
<1>1. /\ current \in Key
      /\ points'[k] # << >> /\ points'[k][Len(points'[k])] = content[k]
      /\ \A j \in Key : j # k => points'[j] = points[j]
      /\ working'[k] = NoRow
      /\ \A j \in Key : j # k =>
            \/ working'[j] = working[j]
            \/ j = current /\ working[j] = NoRow /\ working'[j] = content[j]
  BY DevelopEffect
<1>2. points[current] = << >>
  <2>1. ~Closed(current, at)
    BY ClockType DEF Closed
  <2> QED
    BY <1>1, <2>1 DEF ClockInv, PointsClosed
<1> HIDE DEF Key, current
<1>3. OneLifecycle'
  BY <1>1, <1>2 DEF RowsInv, OneLifecycle
<1>4. AheadEmpty'
  BY DEF AheadEmpty
<1>5. ASSUME NEW j \in Key \ missed
      PROVE  ProjectionPending(j)' \/ Right(j)' \/ Ahead(j)'
  <2>1. CASE j = k
    BY <1>1, <2>1 DEF Right, Effective
  <2>2. CASE j # k /\ working'[j] = working[j]
    <3>1. ProjectionPending(j) \/ Right(j)
      BY DEF RowsInv, Faithful, Ahead
    <3>2. Right(j) => Right(j)'
      BY <1>1, <2>2 DEF Right, Effective
    <3> QED
      BY <2>2, <3>1, <3>2, SamePending
  <2>3. CASE j # k /\ j = current /\ working'[j] = content[j]
    BY <1>1, <1>2, <2>3 DEF Right, Effective
  <2> QED
    BY <1>1, <2>1, <2>2, <2>3
<1> QED
  BY <1>3, <1>4, <1>5 DEF RowsInv, Faithful

\* A marker's transaction on the open week.
LEMMA RefreshKeeps ==
    ASSUME TypeOK, ClockInv, RowsInv, status = "active",
           UNCHANGED <<content, missed, status, points>>,
           NEW k \in Key, ~Closed(k, at),
           working' = [working EXCEPT ![k] = content[k]],
           \A j \in Key : j # k => marker'[j] = marker[j]
    PROVE  RowsInv'
<1>1. points[k] = << >>
  BY DEF ClockInv, PointsClosed
<1>2. working'[k] = content[k] /\ \A j \in Key : j # k => working'[j] = working[j]
  BY DEF TypeOK
<1> HIDE DEF Key
<1>3. OneLifecycle'
  BY <1>1, <1>2 DEF RowsInv, OneLifecycle
<1>4. AheadEmpty'
  BY DEF AheadEmpty
<1>5. ASSUME NEW j \in Key \ missed
      PROVE  ProjectionPending(j)' \/ Right(j)' \/ Ahead(j)'
  <2>1. CASE j = k
    BY <1>1, <1>2, <2>1 DEF Right, Effective
  <2>2. CASE j # k
    <3>1. ProjectionPending(j) \/ Right(j)
      BY DEF RowsInv, Faithful, Ahead
    <3>2. Right(j) => Right(j)'
      BY <1>2, <2>2 DEF Right, Effective
    <3> QED
      BY <2>2, <3>1, <3>2, SamePending
  <2> QED
    BY <2>1, <2>2
<1> QED
  BY <1>3, <1>4, <1>5 DEF RowsInv, Faithful

LEMMA RowsInit == Init => RowsInv
<1> SUFFICES ASSUME Init PROVE RowsInv
  OBVIOUS
<1>1. \A k \in Key : points[k] = << >> /\ working[k] = NoRow
  BY DEF Init
<1>2. \A k \in Key : Before(checkpoint, k)
  BY WeekType DEF Init, Before, Start
<1>3. status # "active"
  BY DEF Init
<1> HIDE DEF Key
<1> QED
  BY <1>1, <1>2, <1>3 DEF RowsInv, OneLifecycle, AheadEmpty, Faithful, Ahead

LEMMA RowsStep ==
    TypeOK /\ ClockInv /\ RowsInv /\ PageAhead /\ PageComplete /\ [Next]_vars => RowsInv'
<1> SUFFICES ASSUME TypeOK, ClockInv, RowsInv, PageAhead, PageComplete, [Next]_vars
             PROVE  RowsInv'
  OBVIOUS
<1>m. MarkerTypeOK
  BY DEF TypeOK
<1>s. marker' = marker => \A k \in Key : ProjectionPending(k) => ProjectionPending(k)'
  BY DEF ProjectionPending
<1>i. pc \in {"apply", "finalize"} => item \in Key
  BY DEF ClockInv, ItemInHand
<1> HIDE DEF Key
<1>1. CASE Request
  <2>1. UNCHANGED <<working, points, status, checkpoint>>
    BY <1>1, RequestEffect DEF Elsewhere
  <2>2. ASSUME NEW k \in Key \ missed'
        PROVE  ProjectionPending(k)' \/ Right(k)' \/ Ahead(k)'
    <3>1. \/ ProjectionPending(k)'
          \/ content'[k] = content[k] /\ k \notin missed
      BY <1>1, RequestEffect
    <3>2. ProjectionPending(k) => ProjectionPending(k)'
      BY <1>1, RequestEffect
    <3>3. content'[k] = content[k] /\ Right(k) => Right(k)'
      BY <2>1 DEF Right, Effective
    <3>4. Ahead(k) => Ahead(k)'
      BY <2>1 DEF Ahead
    <3> QED
      BY <3>1, <3>2, <3>3, <3>4 DEF RowsInv, Faithful
  <2>3. OneLifecycle' /\ AheadEmpty'
    BY <2>1 DEF RowsInv, OneLifecycle, AheadEmpty
  <2> QED
    BY <2>2, <2>3 DEF RowsInv, Faithful
<1>2. CASE ClockAdvances
  BY <1>2, <1>s, OutsideKeeps DEF ClockAdvances
<1>3. ASSUME NEW done, AcknowledgeCurrent(done)
      PROVE  RowsInv'
  <2>1. \A k \in Key : ProjectionPending(k) => ProjectionPending(k)'
    BY <1>3, <1>m, AcknowledgeKeeps
  <2>2. UNCHANGED <<content, missed, working, points, status, checkpoint>>
    BY <1>3 DEF AcknowledgeCurrent
  <2> QED
    BY <2>1, <2>2, OutsideKeeps
<1>4. CASE StartBaseline
  <2>1. PICK page \in SUBSET Surviving(checkpoint) :
           /\ IsPage(page, Surviving(checkpoint))
           /\ PersistPage(page, page # Surviving(checkpoint))
    BY <1>4 DEF StartBaseline
  <2>2. DEFINE hasMore == page # Surviving(checkpoint)
  <2>3. /\ page \in SUBSET Key
        /\ \A k \in page : Before(checkpoint, k)
        /\ \A k \in Key \ page :
              Before(checkpoint, k) /\ (~hasMore \/ \E j \in page : Before(k, j))
                 => content[k] = Empty
    BY <2>1, PageFacts
  <2>4. status # "active" /\ UNCHANGED <<marker, content, missed>>
    BY <1>4 DEF StartBaseline
  <2>5. hasMore \in BOOLEAN /\ PersistPage(page, hasMore)
    BY <2>1
  <2> HIDE DEF hasMore
  <2> QED
    BY <2>3, <2>4, <2>5, PersistKeeps
<1>5. CASE PersistCandidates
  <2>1. /\ candidates \in SUBSET Key
        /\ \A k \in candidates : Before(checkpoint, k)
        /\ \A k \in Key \ candidates :
              Before(checkpoint, k) /\ (~more \/ \E j \in candidates : Before(k, j))
                 => content[k] = Empty \/ ProjectionPending(k) \/ k \in missed
    BY <1>5 DEF PersistCandidates, TypeOK, PageAhead, PageComplete, PassedBy
  <2>2. more \in BOOLEAN /\ PersistPage(candidates, more)
    BY <1>5 DEF PersistCandidates, TypeOK
  <2>3. status # "active" /\ UNCHANGED <<marker, content, missed>>
    BY <1>5 DEF PersistCandidates, ClockInv, StateWritten
  <2> QED
    BY <2>1, <2>2, <2>3, PersistKeeps
<1>6. CASE ReadCandidates \/ FutureCandidate \/ VersionMismatch \/ AlreadyActive
           \/ ObserveWork \/ FinishPhase \/ PhaseRaises \/ Restart
  <2>1. UNCHANGED <<marker, content, missed, working, points, status, checkpoint>>
    BY <1>6 DEF ReadCandidates, FutureCandidate, VersionMismatch, AlreadyActive,
       ObserveWork, FinishPhase, PhaseRaises, Restart
  <2> QED
    BY <1>s, <2>1, OutsideKeeps
<1>7. ASSUME NEW k \in Key, TakeMarker(k) \/ TakeOverdue(k)
      PROVE  RowsInv'
  <2>1. UNCHANGED <<marker, content, missed, working, points, status, checkpoint>>
    BY <1>7 DEF TakeMarker, TakeOverdue
  <2> QED
    BY <1>s, <2>1, OutsideKeeps
<1>8. CASE ApplyMarker
  <2>1. item \in Key
    BY <1>8, <1>i DEF ApplyMarker
  <2>2. \A j \in Key : j # item => marker'[j] = marker[j]
    BY <1>8, <1>m DEF ApplyMarker, MarkerTypeOK
  <2>3. status = "active" /\ UNCHANGED <<content, missed, status>>
    BY <1>8 DEF ApplyMarker, MarkerDone
  <2>4. CASE Closed(item, at)
    <3>1. Develop(item)
      BY <1>8, <2>4 DEF ApplyMarker
    <3> QED
      BY <2>1, <2>2, <2>3, <2>4, <3>1, DevelopKeeps
  <2>5. CASE ~Closed(item, at)
    <3>1. working' = [working EXCEPT ![item] = content[item]] /\ UNCHANGED points
      BY <1>8, <2>5 DEF ApplyMarker
    <3> QED
      BY <2>1, <2>2, <2>3, <2>5, <3>1, RefreshKeeps
  <2> QED
    BY <2>4, <2>5
<1>9. CASE MarkerStale
  <2>1. UNCHANGED <<marker, content, missed, working, points, status, checkpoint>>
    BY <1>9 DEF MarkerStale, MarkerDone
  <2> QED
    BY <1>s, <2>1, OutsideKeeps
<1>10. CASE Finalize
  <2>1. item \in Key /\ Closed(item, at)
    BY <1>10, <1>i DEF Finalize, ClockInv, OverdueClosed
  <2>2. /\ status = "active" /\ Develop(item)
        /\ UNCHANGED <<marker, content, missed, status>>
    BY <1>10 DEF Finalize
  <2> QED
    BY <2>1, <2>2, DevelopKeeps
<1>11. CASE UNCHANGED vars
  BY <1>11, <1>s, OutsideKeeps
<1> QED
  BY <1>1, <1>2, <1>3, <1>4, <1>5, <1>6, <1>7, <1>8, <1>9, <1>10, <1>11
     DEF Next, Worker, Faults, RefreshCurrent, RefreshFails

--------------------------------------------------------------------------------
(***************************************************************************)
(* The page in hand stays right about what it passes over.                 *)
(***************************************************************************)
PageInv == PageAhead /\ PageComplete

\* Steps that leave the page, its cursor and the bookmarks alone.
LEMMA PageKept ==
    ASSUME PageInv, UNCHANGED <<pc, candidates, more, checkpoint, content, missed, marker>>
    PROVE  PageInv'
<1> HIDE DEF Key
<1>1. \A k \in Key : PassedBy(k) <=> PassedBy(k)'
  BY DEF PassedBy
<1>2. \A k \in Key : ProjectionPending(k) <=> ProjectionPending(k)'
  BY SamePending
<1> QED
  BY <1>1, <1>2 DEF PageInv, PageAhead, PageComplete

LEMMA PageStep == TypeOK /\ PageInv /\ [Next]_vars => PageInv'
<1> SUFFICES ASSUME TypeOK, PageInv, [Next]_vars PROVE PageInv'
  OBVIOUS
<1> HIDE DEF Key
<1>0. ASSUME pc' # "persist" PROVE PageInv'
  BY <1>0 DEF PageInv, PageAhead, PageComplete
<1>1. CASE Request
  <2>1. UNCHANGED <<pc, candidates, more, checkpoint>>
    BY <1>1, RequestEffect DEF Elsewhere
  <2>2. \A k \in Key : PassedBy(k) <=> PassedBy(k)'
    BY <2>1 DEF PassedBy
  <2>3. ASSUME NEW k \in Key,
               content[k] = Empty \/ ProjectionPending(k) \/ k \in missed
        PROVE  content'[k] = Empty \/ ProjectionPending(k)' \/ k \in missed'
    BY <1>1, <2>3, RequestEffect
  <2>4. PageAhead' /\ PageComplete'
    BY <2>1, <2>2, <2>3 DEF PageInv, PageAhead, PageComplete
  <2> QED
    BY <2>4 DEF PageInv
<1>2. CASE ReadCandidates
  <2>1. /\ candidates' \in SUBSET Surviving(checkpoint)
        /\ IsPage(candidates', Surviving(checkpoint))
        /\ more' = (candidates' # Surviving(checkpoint))
        /\ UNCHANGED <<checkpoint, content>>
    BY <1>2 DEF ReadCandidates
  <2>2. PICK page \in SUBSET Surviving(checkpoint) :
           page = candidates' /\ IsPage(page, Surviving(checkpoint))
    BY <2>1
  <2>3. /\ \A k \in page : Before(checkpoint, k)
        /\ \A k \in Key \ page :
              /\ Before(checkpoint, k)
              /\ page = Surviving(checkpoint) \/ \E j \in page : Before(k, j)
              => content[k] = Empty
    BY <2>2, PageFacts
  <2>4. PageAhead'
    BY <2>1, <2>2, <2>3 DEF PageAhead
  <2>5. \A k \in Key : PassedBy(k)' => page = Surviving(checkpoint) \/ \E j \in page : Before(k, j)
    BY <2>1, <2>2 DEF PassedBy
  <2>6. PageComplete'
    BY <2>1, <2>2, <2>3, <2>5 DEF PageComplete
  <2> QED
    BY <2>4, <2>6 DEF PageInv
<1>3. CASE ClockAdvances \/ UNCHANGED vars
  <2>1. UNCHANGED <<pc, candidates, more, checkpoint, content, missed, marker>>
    BY <1>3 DEF ClockAdvances
  <2> QED
    BY <2>1, PageKept
<1>4. CASE Worker \/ Faults
  <2>1. CASE ReadCandidates
    BY <1>2, <2>1
  <2>2. CASE ~ReadCandidates /\ ~\E k \in Key : TakeOverdue(k)
    <3>1. pc' # "persist"
      BY <1>4, <2>2 DEF Worker, Faults, RefreshCurrent, RefreshFails, AcknowledgeCurrent,
         StartBaseline, PersistCandidates, EnterPhase, FutureCandidate, VersionMismatch,
         AlreadyActive, ObserveWork, TakeMarker, ApplyMarker, MarkerStale, MarkerDone,
         Finalize, FinishPhase, PhaseRaises, Restart, EndPhase
    <3> QED
      BY <1>0, <3>1
  <2>3. CASE \E k \in Key : TakeOverdue(k)
    <3>1. pc' # "persist"
      BY <2>3 DEF TakeOverdue
    <3> QED
      BY <1>0, <3>1
  <2> QED
    BY <2>1, <2>2, <2>3
<1> QED
  BY <1>1, <1>3, <1>4 DEF Next

--------------------------------------------------------------------------------
(***************************************************************************)
(* The invariant and what follows from it.                                 *)
(***************************************************************************)

\* The inductive invariant holds throughout: the weekly projection's bookkeeping is
\* sound for every size of queue, whatever requests, clock and faults do.
THEOREM InvariantHolds == Spec => []IInv
<1>1. IInv <=> TypeOK /\ ClockInv /\ RowsInv /\ PageInv
  BY DEF IInv, BaselineInv, RowsInv, PageInv
<1>2. Init => IInv
  <2>1. Init => PageInv
    BY DEF Init, PageInv, PageAhead, PageComplete
  <2> QED
    BY <1>1, <2>1, TypeInit, ClockInit, RowsInit
<1>3. IInv /\ [Next]_vars => IInv'
  <2> SUFFICES ASSUME IInv, [Next]_vars PROVE IInv'
    OBVIOUS
  <2>1. TypeOK /\ ClockInv /\ RowsInv /\ PageInv /\ AheadEmpty /\ PageAhead /\ PageComplete
    BY DEF IInv, BaselineInv, RowsInv, PageInv
  <2>2. TypeOK' /\ ClockInv'
    BY <2>1, TypeStep, ClockStep DEF ClockInv
  <2>3. RowsInv' /\ PageInv'
    BY <2>1, RowsStep, PageStep
  <2> QED
    BY <2>2, <2>3 DEF IInv, BaselineInv, RowsInv, PageInv
<1> QED
  BY <1>2, <1>3, PTL DEF Spec

\* What the projection holds of a window is right, or its marker is pending, or the
\* baseline has still to come to it, unless a PATCH or DELETE of a replaced bookmark or a
\* seed changed it last (projection_service.py; service.py, seed.py).
THEOREM FaithfulAlways == Spec => []Faithful
<1>1. IInv => Faithful
  BY DEF IInv
<1> QED
  BY <1>1, InvariantHolds, PTL

\* When readiness counts no pending marker and no overdue row of an active, compatible
\* projection, every window whose last change was marked is right and, if past,
\* developed (health.py, readiness_snapshot).
THEOREM ReadinessIsTruthful == Spec => []ReadyMeansExact
<1>1. IInv => ReadyMeansExact
  <2> SUFFICES ASSUME IInv, Ready, NEW k \in Key \ missed
               PROVE  Right(k) /\ (Closed(k, now) /\ content[k] # Empty => points[k] # << >>)
    BY DEF ReadyMeansExact
  <2>1. status = "active" /\ ~ProjectionPending(k) /\ ~Overdue(k)
    BY DEF Ready, NothingPending
  <2>2. Right(k)
    BY <2>1 DEF IInv, Faithful, Ahead
  <2>3. ASSUME Closed(k, now), content[k] # Empty, points[k] = << >> PROVE FALSE
    <3>1. working[k] = content[k]
      BY <2>2, <2>3 DEF Right, Effective
    <3>2. content[k] # NoRow
      BY PayloadAssumption DEF IInv, TypeOK
    <3> QED
      BY <2>1, <2>3, <3>1, <3>2 DEF Overdue
  <2> QED
    BY <2>2, <2>3
<1> QED
  BY <1>1, InvariantHolds, PTL

\* No window ever has both a working row and a developed point
\* (projection_repository.py).
THEOREM OneLifecycleAlways == Spec => []OneLifecycle
<1>1. IInv => OneLifecycle
  BY DEF IInv
<1> QED
  BY <1>1, InvariantHolds, PTL

--------------------------------------------------------------------------------
(***************************************************************************)
(* What one step may do.                                                   *)
(***************************************************************************)

\* What the invariant says of the page that a baseline transaction persists.
LEMMA PageEmptyRows ==
    ASSUME TypeOK, ClockInv, AheadEmpty, PageAhead
    PROVE  /\ StartBaseline =>
                \E page \in SUBSET Key, hasMore \in BOOLEAN :
                   /\ PersistPage(page, hasMore)
                   /\ \A k \in page : points[k] = << >> /\ working[k] = NoRow
           /\ PersistCandidates =>
                \E page \in SUBSET Key, hasMore \in BOOLEAN :
                   /\ PersistPage(page, hasMore)
                   /\ \A k \in page : points[k] = << >> /\ working[k] = NoRow
<1> HIDE DEF Key
<1>1. CASE StartBaseline
  <2>1. PICK page \in SUBSET Surviving(checkpoint) :
           PersistPage(page, page # Surviving(checkpoint))
    BY <1>1 DEF StartBaseline
  <2>2. page \in SUBSET Key /\ \A k \in page : points[k] = << >> /\ working[k] = NoRow
    BY <1>1 DEF StartBaseline, Surviving, AheadEmpty
  <2>3. (page # Surviving(checkpoint)) \in BOOLEAN
    OBVIOUS
  <2>4. ~PersistCandidates
    BY <1>1 DEF StartBaseline, PersistCandidates
  <2> QED
    BY <2>1, <2>2, <2>3, <2>4
<1>2. CASE PersistCandidates
  <2>1. candidates \in SUBSET Key /\ more \in BOOLEAN /\ PersistPage(candidates, more)
    BY <1>2 DEF PersistCandidates, TypeOK
  <2>2. \A k \in candidates : points[k] = << >> /\ working[k] = NoRow
    BY <1>2, <2>1 DEF PersistCandidates, ClockInv, StateWritten, AheadEmpty, PageAhead
  <2>3. ~StartBaseline
    BY <1>2 DEF StartBaseline, PersistCandidates
  <2> QED
    BY <2>1, <2>2, <2>3
<1> QED
  BY <1>1, <1>2

\* Every step leaves the rows alone, or persists a page of empty windows, or develops
\* a closed one, or refreshes an open one's working row.
LEMMA RowSteps ==
    ASSUME TypeOK, ClockInv, AheadEmpty, PageAhead, [Next]_vars
    PROVE  \/ UNCHANGED <<working, points>>
           \/ /\ UNCHANGED now
              /\ \E page \in SUBSET Key, hasMore \in BOOLEAN :
                    /\ PersistPage(page, hasMore)
                    /\ \A k \in page : points[k] = << >> /\ working[k] = NoRow
           \/ /\ UNCHANGED now
              /\ item \in Key /\ Closed(item, at) /\ Develop(item)
           \/ /\ UNCHANGED <<now, points>>
              /\ item \in Key
              /\ working' = [working EXCEPT ![item] = content[item]]
<1>i. pc \in {"apply", "finalize"} => item \in Key
  BY DEF ClockInv, ItemInHand
<1> HIDE DEF Key
<1>1. CASE StartBaseline \/ PersistCandidates
  <2>1. UNCHANGED now
    BY <1>1 DEF StartBaseline, PersistCandidates
  <2> QED
    BY <1>1, <2>1, PageEmptyRows
<1>2. CASE ApplyMarker
  BY <1>2, <1>i DEF ApplyMarker, MarkerDone
<1>3. CASE Finalize
  BY <1>3, <1>i DEF Finalize, ClockInv, OverdueClosed
<1>4. CASE Request \/ ClockAdvances \/ Faults \/ UNCHANGED vars
  BY <1>4, RequestEffect DEF Elsewhere, ClockAdvances, Faults, RefreshFails,
     AcknowledgeCurrent, PhaseRaises, Restart
<1>5. CASE Worker /\ ~(StartBaseline \/ PersistCandidates) /\ ~ApplyMarker /\ ~Finalize
  <2>1. CASE RefreshCurrent \/ ReadCandidates \/ FutureCandidate \/ VersionMismatch
             \/ AlreadyActive \/ ObserveWork \/ MarkerStale \/ FinishPhase
    BY <2>1 DEF RefreshCurrent, AcknowledgeCurrent, ReadCandidates, FutureCandidate,
       VersionMismatch, AlreadyActive, ObserveWork, MarkerStale, FinishPhase
  <2>2. ASSUME NEW k \in Key, TakeMarker(k) \/ TakeOverdue(k)
        PROVE  UNCHANGED <<working, points>>
    BY <2>2 DEF TakeMarker, TakeOverdue
  <2> QED
    BY <1>5, <2>1, <2>2 DEF Worker
<1> QED
  BY <1>1, <1>2, <1>3, <1>4, <1>5 DEF Next

\* ADR-005's boundary: a working row only goes with its point appended and its user's
\* current row there, in one transaction (_persist_developed, _ensure_current_working).
THEOREM BoundaryAtomicAlways == Spec => BoundaryIsAtomic
<1> DEFINE Atomic ==
        \A k \in Key : working[k] # NoRow /\ working'[k] = NoRow
            => /\ points'[k] # << >>
               /\ points'[k][Len(points'[k])] = content[k]
               /\ working'[<<k[1], at>>] # NoRow
<1>1. IInv /\ [Next]_vars => Atomic
  <2> SUFFICES ASSUME IInv, [Next]_vars, NEW k \in Key,
                      working[k] # NoRow, working'[k] = NoRow
               PROVE  /\ points'[k] # << >>
                      /\ points'[k][Len(points'[k])] = content[k]
                      /\ working'[<<k[1], at>>] # NoRow
    OBVIOUS
  <2>1. TypeOK /\ ClockInv /\ AheadEmpty /\ PageAhead
    BY DEF IInv, BaselineInv
  <2>2. \A j \in Key : content[j] # NoRow
    BY <2>1, PayloadAssumption DEF TypeOK
  <2> HIDE DEF Key
  <2>3. CASE \E page \in SUBSET Key, hasMore \in BOOLEAN :
                /\ PersistPage(page, hasMore)
                /\ \A j \in page : points[j] = << >> /\ working[j] = NoRow
    <3>1. PICK page \in SUBSET Key, hasMore \in BOOLEAN :
             /\ PersistPage(page, hasMore)
             /\ \A j \in page : points[j] = << >> /\ working[j] = NoRow
      BY <2>3
    <3>2. working'[k] = working[k]
      BY <2>1, <3>1, PersistEffect
    <3> QED
      BY <3>2
  <2>4. CASE item \in Key /\ Closed(item, at) /\ Develop(item)
    <3>1. \A j \in Key : j # item => working'[j] = working[j] \/ working'[j] = content[j]
      BY <2>1, <2>4, DevelopEffect
    <3>2. k = item
      BY <2>2, <3>1
    <3> QED
      BY <2>1, <2>4, <3>2, DevelopEffect
  <2>5. CASE item \in Key /\ working' = [working EXCEPT ![item] = content[item]]
    BY <2>1, <2>2, <2>5 DEF TypeOK
  <2>6. CASE UNCHANGED <<working, points>>
    BY <2>6
  <2> QED
    BY <2>1, <2>3, <2>4, <2>5, <2>6, RowSteps
<1> QED
  BY <1>1, InvariantHolds, PTL DEF Spec, BoundaryIsAtomic

\* ADR-009's compatibility gate (_require_calculation_version): a process configured
\* otherwise than the state row writes nothing of the projection and completes no
\* marker for it.
THEOREM MismatchFreezesAlways == Spec => MismatchFreezes
<1> DEFINE Frozen ==
        version \notin {NoVersion, runtime}
            => /\ UNCHANGED <<stateVars, rowVars>>
               /\ \A k \in Key : ProjectionPending(k) => ProjectionPending(k)'
<1>1. IInv /\ [Next]_vars => Frozen
  <2> SUFFICES ASSUME IInv, [Next]_vars, version \notin {NoVersion, runtime}
               PROVE  /\ UNCHANGED <<stateVars, rowVars>>
                      /\ \A k \in Key : ProjectionPending(k) => ProjectionPending(k)'
    OBVIOUS
  <2>m. MarkerTypeOK
    BY DEF IInv, TypeOK
  <2>s. marker' = marker => \A k \in Key : ProjectionPending(k) => ProjectionPending(k)'
    BY DEF ProjectionPending
  <2>1. ~StartBaseline /\ ~ReadCandidates /\ ~PersistCandidates /\ ~ApplyMarker /\ ~Finalize
    BY DEF IInv, ClockInv, StateWritten, Compatible, StartBaseline, ReadCandidates,
       PersistCandidates, ApplyMarker, Finalize
  <2> HIDE DEF Key
  <2>2. CASE Request
    BY <2>2, RequestEffect DEF IInv, Elsewhere
  <2>3. ASSUME NEW done, AcknowledgeCurrent(done)
        PROVE  /\ UNCHANGED <<stateVars, rowVars>>
               /\ \A j \in Key : ProjectionPending(j) => ProjectionPending(j)'
    <3>1. UNCHANGED <<stateVars, rowVars>>
      BY <2>3 DEF AcknowledgeCurrent
    <3> QED
      BY <2>3, <2>m, <3>1, AcknowledgeKeeps
  <2>4. CASE ClockAdvances \/ FutureCandidate \/ VersionMismatch \/ AlreadyActive
             \/ ObserveWork \/ MarkerStale \/ FinishPhase \/ PhaseRaises \/ Restart
             \/ UNCHANGED vars
    <3>1. UNCHANGED <<marker, stateVars, rowVars>>
      BY <2>4 DEF ClockAdvances, FutureCandidate, VersionMismatch, AlreadyActive,
         ObserveWork, MarkerStale, MarkerDone, FinishPhase, PhaseRaises, Restart
    <3> QED
      BY <2>s, <3>1
  <2>5. ASSUME NEW k \in Key, TakeMarker(k) \/ TakeOverdue(k)
        PROVE  UNCHANGED <<marker, stateVars, rowVars>>
    BY <2>5 DEF TakeMarker, TakeOverdue
  <2> QED
    BY <2>s, <2>1, <2>2, <2>3, <2>4, <2>5
       DEF Next, Worker, Faults, RefreshCurrent, RefreshFails
<1> QED
  BY <1>1, InvariantHolds, PTL DEF Spec, MismatchFreezes

--------------------------------------------------------------------------------
(***************************************************************************)
(* The points implement the abstract history.                              *)
(***************************************************************************)
LEMMA RevisedOnce ==
    ASSUME NEW h \in Seq(Payload), NEW p \in Payload
    PROVE  Revised(h, p) = h \/ History!Revised(h, Revised(h, p))
<1>1. CASE h # << >> /\ h[Len(h)] = p
  BY <1>1 DEF Revised
<1>2. CASE ~(h # << >> /\ h[Len(h)] = p)
  <2>1. Revised(h, p) = Append(h, p)
    BY <1>2 DEF Revised
  <2>2. ~History!Repeats(h, p)
    BY <1>2 DEF History!Repeats
  <2> QED
    BY <2>1, <2>2 DEF History!Revised
<1> QED
  BY <1>1, <1>2

LEMMA HistoryStep == IInv /\ [Next]_vars => [History!Next]_<<now, points>>
<1> SUFFICES ASSUME IInv, [Next]_vars PROVE [History!Next]_<<now, points>>
  OBVIOUS
<1>1. TypeOK /\ ClockInv /\ AheadEmpty /\ PageAhead /\ at <= now
  BY DEF IInv, BaselineInv, ClockInv, ClockRead
<1>2. points' = [k \in Key |-> points'[k]]
  BY <1>1, TypeStep DEF ClockInv, TypeOK
<1>3. \A k \in Key : Closed(k, at) => k[2] < now
  BY <1>1, WeekType, ClockType DEF Closed
<1>4. \A k \in Key : points[k] \in Seq(Payload) /\ content[k] \in Payload
  BY <1>1 DEF TypeOK
<1> HIDE DEF Key
<1>5. CASE ClockAdvances
  BY <1>5 DEF ClockAdvances, History!Next, History!Tick
<1>6. CASE UNCHANGED <<now, points>>
  BY <1>6
<1>7. ASSUME UNCHANGED now,
             \A k \in Key : \/ points'[k] = points[k]
                            \/ Closed(k, at) /\ History!Revised(points[k], points'[k])
      PROVE  History!Next
  BY <1>2, <1>3, <1>7 DEF History!Next, History!Develop
<1>8. CASE /\ UNCHANGED now
           /\ \E page \in SUBSET Key, hasMore \in BOOLEAN :
                 /\ PersistPage(page, hasMore)
                 /\ \A k \in page : points[k] = << >> /\ working[k] = NoRow
  <2>1. PICK page \in SUBSET Key, hasMore \in BOOLEAN :
           /\ PersistPage(page, hasMore)
           /\ \A k \in page : points[k] = << >> /\ working[k] = NoRow
    BY <1>8
  <2>2. /\ \A k \in Key \ page : points'[k] = points[k]
        /\ \A k \in page :
              \/ points'[k] = points[k]
              \/ Closed(k, at) /\ points'[k] = <<content[k]>>
    BY <1>1, <2>1, PersistEffect
  <2>3. ASSUME NEW p \in Payload PROVE History!Revised(<< >>, <<p>>)
    <3>1. ~History!Repeats(<< >>, p) /\ <<p>> = Append(<< >>, p)
      BY DEF History!Repeats
    <3> QED
      BY <3>1 DEF History!Revised
  <2> QED
    BY <1>4, <1>7, <1>8, <2>1, <2>2, <2>3
<1>9. CASE UNCHANGED now /\ item \in Key /\ Closed(item, at) /\ Develop(item)
  <2>1. /\ points'[item] = Revised(points[item], content[item])
        /\ \A k \in Key : k # item => points'[k] = points[k]
    BY <1>1, <1>9 DEF Develop, TypeOK
  <2>2. points'[item] = points[item] \/ History!Revised(points[item], points'[item])
    BY <1>4, <1>9, <2>1, RevisedOnce
  <2> QED
    BY <1>7, <1>9, <2>1, <2>2
<1>10. CASE ~ClockAdvances /\ UNCHANGED <<working, points>>
  <2>1. UNCHANGED now
    BY <1>1, <1>10, RequestEffect DEF Elsewhere, Next, Worker, Faults, RefreshCurrent, RefreshFails,
       AcknowledgeCurrent, StartBaseline, ReadCandidates, PersistCandidates,
       FutureCandidate, VersionMismatch, AlreadyActive, ObserveWork, TakeMarker,
       ApplyMarker, MarkerStale, MarkerDone, TakeOverdue, Finalize, FinishPhase,
       PhaseRaises, Restart
  <2> QED
    BY <1>6, <1>10, <2>1
<1> QED
  BY <1>1, <1>5, <1>6, <1>8, <1>9, <1>10, RowSteps

\* For every instance the developed points are a history that is only appended to,
\* only after the week, and never twice with the same payload in a row
\* (_persist_developed, insert_point).
THEOREM HistoryImplemented == Spec => ImplementsDevelopedHistory
<1>1. Init => History!Init
  BY DEF Init, History!Init
<1> QED
  BY <1>1, HistoryStep, InvariantHolds, PTL
     DEF Spec, ImplementsDevelopedHistory, History!Spec

--------------------------------------------------------------------------------
(***************************************************************************)
(* The markers implement the work shared with current statistics.          *)
(***************************************************************************)
LEMMA StepShares == ASSUME TypeOK, ItemInHand, [Next]_vars PROVE Shares
<1> HIDE DEF Key
<1>1. CASE Request
  BY <1>1, RequestForms DEF Shares
<1>2. ASSUME NEW done \in SUBSET Dirty, AcknowledgeCurrent(done) PROVE Shares
  <2>1. done \in SUBSET Key
    BY DEF Dirty
  <2> QED
    BY <1>2, <2>1 DEF AcknowledgeCurrent, Shares
<1>3. CASE ApplyMarker
  BY <1>3 DEF ApplyMarker, ItemInHand, Shares
<1>4. ASSUME UNCHANGED marker PROVE Shares
  BY <1>4 DEF Shares
<1>5. ASSUME NEW k \in Key, TakeMarker(k) \/ TakeOverdue(k) PROVE Shares
  BY <1>4, <1>5 DEF TakeMarker, TakeOverdue
<1>6. CASE ClockAdvances \/ StartBaseline \/ ReadCandidates \/ PersistCandidates
             \/ FutureCandidate \/ VersionMismatch \/ AlreadyActive \/ ObserveWork
             \/ MarkerStale \/ Finalize \/ FinishPhase \/ PhaseRaises \/ Restart
             \/ UNCHANGED vars
  BY <1>4, <1>6 DEF ClockAdvances, StartBaseline, ReadCandidates, PersistCandidates,
     FutureCandidate, VersionMismatch, AlreadyActive, ObserveWork, MarkerStale, Finalize,
     FinishPhase, PhaseRaises, Restart
<1>7. Page \in SUBSET Dirty
  BY DEF Page
<1> QED
  BY <1>1, <1>2, <1>3, <1>5, <1>6, <1>7
     DEF Next, Worker, Faults, RefreshCurrent, RefreshFails

\* The projection never takes work off the current consumer, and drops its own only in
\* the transaction that projects it (projection_service.process_dirty).
THEOREM SharesWithCurrent == Spec => ImplementsSharedWork
<1>1. Init => Work!Init
  BY NothingOwed DEF Init
<1>2. IInv /\ [Next]_vars => [Work!Next]_Owed
  BY StepShares, SharesWork DEF IInv, ClockInv, TypeOK
<1> QED
  BY <1>1, <1>2, InvariantHolds, PTL DEF Spec, ImplementsSharedWork, Work!Spec

================================================================================
