------------------------------ MODULE DirtyMarkers ------------------------------
(***************************************************************************)
(* The table bookmark_stats_window_dirty: durable work that survives the   *)
(* process.  A row carries a generation and the last generation each of    *)
(* the two consumers (current statistics and weekly projection) completed. *)
(* Generation 0 stands for the absence of a row.  The reason and the first *)
(* mark time are left out: only readiness reports them.                    *)
(***************************************************************************)
EXTENDS StatsDomain, FiniteSets

VARIABLE marker     \* marker[<<u, w>>], the row of user u and window w

Row == [gen : Nat, cur : Nat, proj : Nat, marked : Nat]
Absent == [gen |-> 0, cur |-> 0, proj |-> 0, marked |-> 0]

MarkerTypeOK == marker \in [Key -> Row]
NoMarkers == marker = [k \in Key |-> Absent]

Dirty == {k \in Key : marker[k].gen > 0}
CurrentPending(k) == marker[k].gen > 0 /\ marker[k].cur # marker[k].gen
ProjectionPending(k) == marker[k].gen > 0 /\ marker[k].proj # marker[k].gen

--------------------------------------------------------------------------------
\* mark_dirty: one upsert, which restarts both consumers.
Marked(row, t) == [gen |-> row.gen + 1, cur |-> 0, proj |-> 0, marked |-> t]
MarkDirty(k, t) == marker' = [marker EXCEPT ![k] = Marked(@, t)]

\* observe: ORDER BY last_marked_at, user_id, window_start LIMIT batch, whatever
\* the two completion columns say.
Older(j, k) ==
    \/ marker[j].marked < marker[k].marked
    \/ /\ marker[j].marked = marker[k].marked
       /\ \/ j[1] < k[1]
          \/ j[1] = k[1] /\ j[2] < k[2]

Page == {k \in Dirty : Cardinality({j \in Dirty : Older(j, k)}) < BatchSize}

\* _acknowledge: the row is deleted once both consumers completed its generation.
SettledNever(row) == row         \* wrong on purpose: completed rows stay
SettledByEither(row) ==          \* wrong on purpose: one consumer is enough
    IF row.cur = row.gen \/ row.proj = row.gen THEN Absent ELSE row
Settled(row) == IF row.cur = row.gen /\ row.proj = row.gen THEN Absent ELSE row
CurrentAcknowledged(row) == Settled([row EXCEPT !.cur = row.gen])
ProjectionAcknowledged(row) == Settled([row EXCEPT !.proj = row.gen])

\* An acknowledgement of generation g is stale unless the row still has it.
StaleNever(k, g) == FALSE        \* wrong on purpose: no generation predicate
Stale(k, g) == marker[k].gen # g

--------------------------------------------------------------------------------
\* The consumers that still owe window k a look.
Owed == [k \in Key |-> {c \in {"current"} : CurrentPending(k)}
                         \cup {c \in {"projection"} : ProjectionPending(k)}]

Work == INSTANCE SharedWork WITH owed <- Owed

\* One consumer's acknowledgement, or the deletion it may end in, never takes work
\* from the other (_acknowledge's DELETE asks for both completions), and nothing but a
\* mutation gives any.
ImplementsSharedWork == Work!Spec

================================================================================
