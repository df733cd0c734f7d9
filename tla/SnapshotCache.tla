------------------------------ MODULE SnapshotCache ------------------------------
(***************************************************************************)
(* What the statistics endpoint promises about its cache, without markers, *)
(* queue, epochs or worker: an entry may lag behind the database only by   *)
(* mutations that have not been announced, announcing a mutation drops the *)
(* user's entry, and a restart drops everything.                           *)
(***************************************************************************)
EXTENDS Integers

CONSTANT User

VARIABLES
    commits,        \* commits[u], the committed mutations of a user
    unannounced,    \* the numbers of those not announced yet
    cache           \* cache[u], the version an answer would have, or None

None == -1
Empty == [u \in User |-> None]

vars == <<commits, unannounced, cache>>

Lag(u, v) == (v + 1)..commits[u]

Init ==
    /\ commits = [u \in User |-> 0]
    /\ unannounced = [u \in User |-> {}]
    /\ cache = Empty

Commit(u) ==
    /\ commits' = [commits EXCEPT ![u] = @ + 1]
    /\ unannounced' = [unannounced EXCEPT ![u] = @ \cup {commits[u] + 1}]
    /\ UNCHANGED cache

Announce(u) ==
    /\ \E n \in unannounced[u] : unannounced' = [unannounced EXCEPT ![u] = @ \ {n}]
    /\ cache' = [cache EXCEPT ![u] = None]
    /\ UNCHANGED commits

\* Any version will do that lacks no announced mutation.
Fill(u) ==
    /\ \E v \in 0..commits[u] :
          /\ Lag(u, v) \subseteq unannounced[u]
          /\ cache' = [cache EXCEPT ![u] = v]
    /\ UNCHANGED <<commits, unannounced>>

Drop(u) ==
    /\ cache' = [cache EXCEPT ![u] = None]
    /\ UNCHANGED <<commits, unannounced>>

Restart ==
    /\ cache' = Empty
    /\ unannounced' = [u \in User |-> {}]
    /\ UNCHANGED commits

Next ==
    \/ \E u \in User : Commit(u) \/ Announce(u) \/ Fill(u) \/ Drop(u)
    \/ Restart

Spec == Init /\ [][Next]_vars

================================================================================
