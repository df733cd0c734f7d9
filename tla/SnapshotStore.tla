------------------------------ MODULE SnapshotStore ------------------------------
(***************************************************************************)
(* StatsSnapshotStore: one record per user, trusted only while the user's  *)
(* invalidation epoch is the one it was built under.  The statistics       *)
(* themselves are abstracted to the number of committed mutations of the   *)
(* user that they reflect.                                                 *)
(***************************************************************************)
EXTENDS StatsDomain

VARIABLES
    epoch,      \* epoch[u], the invalidation epoch (0 when the dictionary has no entry)
    record      \* record[u], the installed snapshot

\* No record: an epoch no user ever has.
NoRecord == [version |-> 0, epoch |-> -1]
Record == [version : Nat, epoch : Nat \cup {-1}]

StoreTypeOK ==
    /\ epoch \in [User -> Nat]
    /\ record \in [User -> Record]

StoreInit ==
    /\ epoch = [u \in User |-> 0]
    /\ record = [u \in User |-> NoRecord]

InvalidateUser(u) ==
    /\ epoch' = [epoch EXCEPT ![u] = @ + 1]
    /\ UNCHANGED record

\* publish: install the candidate unless the epoch moved since it was expected.
Installable(u, expected) == epoch[u] = expected
Install(u, version, expected) ==
    /\ record' = [record EXCEPT ![u] = [version |-> version, epoch |-> expected]]
    /\ UNCHANGED epoch

\* get: a record of an older epoch is as good as none.
VisibleOnceInstalled(u) == record[u].epoch >= 0     \* wrong on purpose
Visible(u) == record[u].epoch = epoch[u]

================================================================================
