------------------------------ MODULE StatsDomain ------------------------------
(***************************************************************************)
(* The constants shared by every module of the statistics pipeline: who    *)
(* owns bookmarks, which weekly windows they fall in, what the clock may    *)
(* stamp on a dirty marker, and how large the queue is.                     *)
(***************************************************************************)
EXTENDS Integers

CONSTANTS
    User,           \* user identifiers: positive integers, because SQL orders by them
    Window,         \* starts of UTC weekly windows, as integers for the same reason
    Stamp,          \* values the clock may give a marker's last_marked_at
    QueueCapacity   \* STATS_EVENT_QUEUE_CAPACITY

ASSUME UserAssumption == User \subseteq Nat \ {0}
ASSUME WindowAssumption == Window \subseteq Nat
ASSUME StampAssumption == Stamp \subseteq Nat
ASSUME QueueCapacityAssumption == QueueCapacity \in Nat \ {0}

\* A dirty marker belongs to one user and one window.
Key == User \X Window

\* create_app wires batch_size=min(capacity, 100): one drain may empty a small
\* queue, and one page holds at most a hundred markers or users.
BatchSize == IF QueueCapacity < 100 THEN QueueCapacity ELSE 100

================================================================================
