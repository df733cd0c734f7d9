--------------------------- MODULE DirtyMarkersProofs ---------------------------
(***************************************************************************)
(* Facts about the table of dirty windows that the proofs of both its      *)
(* consumers use: what marking and acknowledging do to a row's type, and   *)
(* that they are steps of SharedWork.                                      *)
(***************************************************************************)
EXTENDS DirtyMarkers, TLAPS

USE DEF Key, Row, Absent

LEMMA AcknowledgedType ==
    ASSUME NEW row \in Row
    PROVE  CurrentAcknowledged(row) \in Row /\ ProjectionAcknowledged(row) \in Row
  BY DEF CurrentAcknowledged, ProjectionAcknowledged, Settled

LEMMA MarkDirtyType ==
    ASSUME MarkerTypeOK, NEW k \in Key, NEW t \in Stamp, MarkDirty(k, t)
    PROVE  MarkerTypeOK'
  BY StampAssumption DEF MarkerTypeOK, MarkDirty, Marked

\* What a row says of its consumers' work.
LEMMA OwedIs ==
    /\ \A k \in Key : "current" \in Owed[k] <=> CurrentPending(k)
    /\ \A k \in Key : "projection" \in Owed[k] <=> ProjectionPending(k)
    /\ \A k \in Key : Owed[k] \subseteq Work!Consumer
    /\ Owed = [k \in Key |-> Owed[k]]
  BY DEF Owed, Work!Consumer

LEMMA NothingOwed == ASSUME NoMarkers PROVE Work!Init
  <1>1. \A k \in Key : ~CurrentPending(k) /\ ~ProjectionPending(k)
    BY DEF NoMarkers, CurrentPending, ProjectionPending
  <1>2. \A k \in Key : Owed[k] = {}
    BY <1>1, OwedIs DEF Work!Consumer
  <1>3. Owed = [k \in Key |-> {}]
    BY <1>2, OwedIs
  <1> QED  BY <1>3 DEF Work!Init

\* A window's work goes to nobody by another's marking.
LEMMA MarkWants ==
    ASSUME MarkerTypeOK, NEW k \in Key, NEW t, MarkDirty(k, t)
    PROVE  Work!Want(k)
  <1>1. marker' = [marker EXCEPT ![k] = Marked(@, t)] /\ marker \in [Key -> Row]
    BY DEF MarkDirty, MarkerTypeOK
  <1> HIDE DEF Key
  <1>2. /\ marker'[k] = Marked(marker[k], t)
        /\ \A j \in Key : j # k => marker'[j] = marker[j]
    BY <1>1
  <1>3. CurrentPending(k)' /\ ProjectionPending(k)'
    BY <1>1, <1>2 DEF Marked, CurrentPending, ProjectionPending
  <1>4. \A j \in Key : j # k =>
           /\ CurrentPending(j)' <=> CurrentPending(j)
           /\ ProjectionPending(j)' <=> ProjectionPending(j)
    BY <1>2 DEF CurrentPending, ProjectionPending
  <1>5. Owed'[k] = Work!Consumer
    BY <1>3, OwedIs DEF Owed, Work!Consumer
  <1>6. \A j \in Key : j # k => Owed'[j] = Owed[j]
    BY <1>4 DEF Owed
  <1>7. Owed' = [j \in Key |-> Owed'[j]] /\ Owed = [j \in Key |-> Owed[j]]
    BY DEF Owed
  <1> HIDE DEF Owed
  <1>8. Owed' = [Owed EXCEPT ![k] = Work!Consumer]
    BY <1>5, <1>6, <1>7
  <1> QED  BY <1>8 DEF Work!Want

\* An acknowledgement takes off its own consumer's work and nothing else, also when
\* it deletes the row.
LEMMA AcknowledgedOwes ==
    ASSUME NEW row \in Row
    PROVE  LET c == CurrentAcknowledged(row)
               p == ProjectionAcknowledged(row)
           IN  /\ ~(c.gen > 0 /\ c.cur # c.gen)
               /\ (c.gen > 0 /\ c.proj # c.gen) <=> (row.gen > 0 /\ row.proj # row.gen)
               /\ ~(p.gen > 0 /\ p.proj # p.gen)
               /\ (p.gen > 0 /\ p.cur # p.gen) <=> (row.gen > 0 /\ row.cur # row.gen)
  BY DEF CurrentAcknowledged, ProjectionAcknowledged, Settled

LEMMA CurrentCompletes ==
    ASSUME MarkerTypeOK, NEW done \in SUBSET Key,
           marker' = [k \in Key |->
                        IF k \in done THEN CurrentAcknowledged(marker[k]) ELSE marker[k]]
    PROVE  Work!Complete("current", done)
  <1> HIDE DEF Key
  <1>1. \A k \in Key : marker[k] \in Row
    BY DEF MarkerTypeOK
  <1>2. \A k \in done : ~CurrentPending(k)' /\ (ProjectionPending(k)' <=> ProjectionPending(k))
    BY <1>1, AcknowledgedOwes DEF CurrentPending, ProjectionPending
  <1>3. \A k \in Key \ done : /\ CurrentPending(k)' <=> CurrentPending(k)
                              /\ ProjectionPending(k)' <=> ProjectionPending(k)
    BY DEF CurrentPending, ProjectionPending
  <1>4. \A k \in Key : Owed'[k] = IF k \in done THEN Owed[k] \ {"current"} ELSE Owed[k]
    BY <1>2, <1>3 DEF Owed
  <1>5. Owed' = [k \in Key |-> Owed'[k]]
    BY DEF Owed
  <1> QED  BY <1>4, <1>5 DEF Work!Complete

LEMMA ProjectionCompletes ==
    ASSUME MarkerTypeOK, NEW k \in Key,
           marker' = [marker EXCEPT ![k] = ProjectionAcknowledged(@)]
    PROVE  Work!Complete("projection", {k})
  <1> HIDE DEF Key
  <1>1. marker[k] \in Row /\ marker'[k] = ProjectionAcknowledged(marker[k])
        /\ \A j \in Key : j # k => marker'[j] = marker[j]
    BY DEF MarkerTypeOK
  <1>2. ~ProjectionPending(k)' /\ (CurrentPending(k)' <=> CurrentPending(k))
    BY <1>1, AcknowledgedOwes DEF CurrentPending, ProjectionPending
  <1>3. \A j \in Key : j # k => /\ CurrentPending(j)' <=> CurrentPending(j)
                                /\ ProjectionPending(j)' <=> ProjectionPending(j)
    BY <1>1 DEF CurrentPending, ProjectionPending
  <1>4. \A j \in Key : Owed'[j] = IF j \in {k} THEN Owed[j] \ {"projection"} ELSE Owed[j]
    BY <1>2, <1>3 DEF Owed
  <1>5. Owed' = [j \in Key |-> Owed'[j]]
    BY DEF Owed
  <1> QED  BY <1>4, <1>5 DEF Work!Complete

\* A step that marks a window, acknowledges some for one consumer or leaves the table
\* alone is a step of SharedWork.
Shares ==
    \/ \E k \in Key, t \in Stamp : MarkDirty(k, t)
    \/ \E done \in SUBSET Key :
          marker' = [k \in Key |->
                       IF k \in done THEN CurrentAcknowledged(marker[k]) ELSE marker[k]]
    \/ \E k \in Key : marker' = [marker EXCEPT ![k] = ProjectionAcknowledged(@)]
    \/ UNCHANGED marker

LEMMA SharesWork == ASSUME MarkerTypeOK, Shares PROVE [Work!Next]_Owed
  <1>1. ASSUME NEW k \in Key, NEW t \in Stamp, MarkDirty(k, t) PROVE Work!Next
    BY <1>1, MarkWants DEF Work!Next
  <1>2. ASSUME NEW done \in SUBSET Key,
               marker' = [k \in Key |->
                            IF k \in done THEN CurrentAcknowledged(marker[k]) ELSE marker[k]]
        PROVE  Work!Next
    <2>1. Work!Complete("current", done) /\ "current" \in Work!Consumer
      BY <1>2, CurrentCompletes DEF Work!Consumer
    <2> QED  BY <2>1 DEF Work!Next
  <1>3. ASSUME NEW k \in Key, marker' = [marker EXCEPT ![k] = ProjectionAcknowledged(@)]
        PROVE  Work!Next
    <2>1. Work!Complete("projection", {k}) /\ "projection" \in Work!Consumer
      BY <1>3, ProjectionCompletes DEF Work!Consumer
    <2> QED  BY <2>1 DEF Work!Next
  <1>4. ASSUME UNCHANGED marker PROVE Owed' = Owed
    BY <1>4 DEF Owed, CurrentPending, ProjectionPending
  <1> QED  BY <1>1, <1>2, <1>3, <1>4 DEF Shares

================================================================================
