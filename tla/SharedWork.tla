------------------------------- MODULE SharedWork -------------------------------
(***************************************************************************)
(* What the table of dirty windows promises its two consumers, without     *)
(* generations, completion columns and deleted rows: a mutation gives both *)
(* of them work on a window, and either takes its own work off windows     *)
(* without touching the other's.                                           *)
(***************************************************************************)
CONSTANT Key

VARIABLE owed       \* owed[k], the consumers that have yet to look at window k

Consumer == {"current", "projection"}

Init == owed = [k \in Key |-> {}]

Want(k) == owed' = [owed EXCEPT ![k] = Consumer]

Complete(c, done) == owed' = [k \in Key |-> IF k \in done THEN owed[k] \ {c} ELSE owed[k]]

Next ==
    \/ \E k \in Key : Want(k)
    \/ \E c \in Consumer, done \in SUBSET Key : Complete(c, done)

Spec == Init /\ [][Next]_owed

================================================================================
