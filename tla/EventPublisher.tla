------------------------------ MODULE EventPublisher ------------------------------
(***************************************************************************)
(* StatsInvalidationPublisher: invalidate the user's snapshot, then make   *)
(* one attempt to put a hint on a bounded queue; a hint that does not fit  *)
(* demands a full reconciliation instead.  publish is not atomic: the      *)
(* invalidation, the attempt and the demand are steps of their own.        *)
(*                                                                         *)
(* reconciliation_epoch only grows and is only compared with the value the *)
(* worker read last, so it is kept as the one bit that comparison yields:  *)
(* moved, "the epoch is no longer the one the worker holds".               *)
(***************************************************************************)
EXTENDS SnapshotStore, Sequences

VARIABLES
    queue,      \* hints not yet drained: a sequence of users
    required,   \* reconciliation_required
    moved       \* reconciliation_epoch moved since the worker's last state()

PublisherTypeOK ==
    /\ queue \in Seq(User)
    /\ required \in BOOLEAN
    /\ moved \in BOOLEAN

PublisherInit ==
    /\ queue = << >>
    /\ required = FALSE
    /\ moved = FALSE

\* require_full_reconciliation, and the bookkeeping of an overflow or a failure.
RequireFull == required' = TRUE /\ moved' = TRUE

\* put_nowait, in publish.
QueueFull == Len(queue) >= QueueCapacity
PutEvent(u) == queue' = Append(queue, u) /\ UNCHANGED <<required, moved>>

\* drain(limit): the first hints, and the queue without them.
Min2(a, b) == IF a < b THEN a ELSE b
Drained == {queue[i] : i \in 1..Min2(BatchSize, Len(queue))}
Undrained == SubSeq(queue, BatchSize + 1, Len(queue))

\* state(): the worker takes the reconciliation epoch to compare with later.
KeepOldState == UNCHANGED moved      \* wrong on purpose: the epoch of an earlier cycle
TakeState == moved' = FALSE

\* acknowledge_full_reconciliation(epoch the worker read).
AcknowledgeMoved == required' = (required /\ ~moved)     \* wrong on purpose
AcknowledgeFull == required' = (required /\ moved)

================================================================================
