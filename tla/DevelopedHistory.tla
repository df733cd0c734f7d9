----------------------------- MODULE DevelopedHistory -----------------------------
(***************************************************************************)
(* What the weekly projection promises about developed points, without its *)
(* tables, checkpoints and markers: every user and week has a history of   *)
(* payloads that is only ever appended to, only once the week is over, and *)
(* never with the payload it already ends with.                            *)
(***************************************************************************)
EXTENDS Naturals, Sequences

CONSTANTS Key, Payload      \* keys are <<user, week>>

VARIABLES
    week,       \* the current week
    history     \* history[k], the developed payloads of k, oldest first

Repeats(h, p) == Len(h) > 0 /\ h[Len(h)] = p

Revised(h, g) == \E p \in Payload : ~Repeats(h, p) /\ g = Append(h, p)

Init == history = [k \in Key |-> << >>]

Tick == week' > week /\ UNCHANGED history

\* A transaction may develop several weeks at once.
Develop ==
    /\ history' = [k \in Key |-> history'[k]]
    /\ \A k \in Key :
          \/ history'[k] = history[k]
          \/ k[2] < week /\ Revised(history[k], history'[k])
    /\ UNCHANGED week

Next == Tick \/ Develop

Spec == Init /\ [][Next]_<<week, history>>

================================================================================
