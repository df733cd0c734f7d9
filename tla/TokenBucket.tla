------------------------------ MODULE TokenBucket ------------------------------
(***************************************************************************)
(* What a rate limit promises, without a table of buckets: every key has a *)
(* level that time fills up to Full, a granted request takes Cost from it, *)
(* and nothing is granted that the level does not cover, give or take the  *)
(* rounding with which a request reads its level.                          *)
(***************************************************************************)
EXTENDS Integers

CONSTANTS
    Key,
    Full,       \* the most a level can be
    Cost,       \* of one request
    Refill,     \* what a level gains by one tick of the clock
    Slack       \* the most a level read is off

VARIABLE level

Least(a, b) == IF a <= b THEN a ELSE b

Init == level = [k \in Key |-> Full]

Tick == level' = [k \in Key |-> Least(Full, level[k] + Refill)]

\* The levels a request of k may read.
Read(k) == {n \in 0..Full : level[k] - Slack <= n /\ n <= level[k] + Slack}

Grant(k) ==
    \E n \in Read(k) : n >= Cost /\ level' = [level EXCEPT ![k] = n - Cost]

\* What a refused request has read is kept as well.
Refuse(k) ==
    \E n \in Read(k) : n < Cost /\ level' = [level EXCEPT ![k] = n]

Next == Tick \/ \E k \in Key : Grant(k) \/ Refuse(k)

Spec == Init /\ [][Next]_level

================================================================================
