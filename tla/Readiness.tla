------------------------------- MODULE Readiness -------------------------------
(***************************************************************************)
(* /health/ready (api/health.py) beside the process it judges.  An         *)
(* evaluation samples the clock, then the worker, under no common lock, so *)
(* time and the worker go on in between; evaluations share nothing but the *)
(* transition they log, so that one of them stands for all.                *)
(*                                                                         *)
(* What the durable backlog, the publisher and the projection say is not   *)
(* up to the worker's life: any of it may be wrong at any sample.          *)
(***************************************************************************)
EXTENDS Lifecycle

VARIABLE probe

vars == <<lifeVars, probe>>

Outside == {"backlog_or_reconciliation", "projection"}

\* A probe or a sample that failed, or made no sense.
Unread == {"database_unavailable", "state_unavailable"}

Reason == Outside \cup Unread \cup
    {"ready", "worker_not_started", "shutdown_timeout", "worker_not_alive",
     "startup_timeout", "never_successful", "cycle_stuck", "consecutive_failures",
     "cycle_overdue", "success_stale", "clock_invalid"}

\* lag: ticks since the evaluation read the clock.
Evaluation ==
    [at : {"clock"}] \cup [at : {"worker"}, lag : 0..MaxLag] \cup [at : {"finish"}, reason : Reason]

TypeOK == LifeTypeOK /\ probe \in Evaluation

Init == LifeInit /\ probe = [at |-> "clock"]

--------------------------------------------------------------------------------
\* _age of an event age ticks old, by a clock read lag ticks ago.
Seen(age, lag) == IF age < lag THEN -1 ELSE age - lag

\* Wrong on purpose: only the age of a finished cycle is looked at.
StuckNever(lag) == ~running /\ Seen(cycleAge, lag) > StaleAfter

Stuck(lag) == running /\ Seen(cycleAge, lag) > StaleAfter

Overdue(lag) == ~running /\ Seen(cycleAge, lag) > StaleAfter

\* _enabled_reason up to the worker's own: the first that applies.
WorkerReason(lag) ==
    IF worker = "none"            THEN "worker_not_started"
    ELSE IF timedOut              THEN "shutdown_timeout"
    ELSE IF ~Alive                THEN "worker_not_alive"
    ELSE IF ~initialDone          THEN "startup_timeout"
    ELSE IF successAge = None     THEN "never_successful"
    ELSE IF Stuck(lag)            THEN "cycle_stuck"
    ELSE IF failing               THEN "consecutive_failures"
    ELSE IF Overdue(lag)          THEN "cycle_overdue"
    ELSE IF Seen(successAge, lag) > StaleAfter THEN "success_stale"
    ELSE "ready"

\* The rest of it, and the projection, which is asked last: a worker in order may
\* still be let down by what is outside, or by a clock read before its news or
\* before the oldest marker's time.  Any exception on the way, and any state that
\* is not valid, ends it at once.
Judgements(lag) ==
    {"state_unavailable"} \cup
    IF WorkerReason(lag) # "ready"
    THEN {WorkerReason(lag)}
    ELSE {"backlog_or_reconciliation", "clock_invalid"} \cup
         IF Seen(cycleAge, lag) >= 0 /\ Seen(successAge, lag) >= 0
         THEN {"ready", "projection"}
         ELSE {}

--------------------------------------------------------------------------------
\* evaluate, _read_database_state: no such answer asks the worker.
AnswerAtOnce ==
    /\ main = "serving" /\ probe.at = "clock"
    /\ \E reason \in {"database_unavailable", IF enabled THEN "state_unavailable" ELSE "ready"} :
          probe' = [at |-> "finish", reason |-> reason]
    /\ UNCHANGED lifeVars

ReadClock ==
    /\ main = "serving" /\ probe.at = "clock" /\ enabled
    /\ probe' = [at |-> "worker", lag |-> 0]
    /\ UNCHANGED lifeVars

ReadWorker ==
    /\ probe.at = "worker"
    /\ \E reason \in Judgements(probe.lag) : probe' = [at |-> "finish", reason |-> reason]
    /\ UNCHANGED lifeVars

Finish ==
    /\ probe.at = "finish"
    /\ probe' = [at |-> "clock"]
    /\ UNCHANGED lifeVars

TimePasses ==
    /\ Tick
    /\ probe.at = "worker" => probe.lag < MaxLag
    /\ probe' = IF probe.at = "worker" THEN [probe EXCEPT !.lag = @ + 1] ELSE probe

--------------------------------------------------------------------------------
ProcessStep ==
    /\ Main \/ StartupFails \/ Shutdown \/ Thread \/ EndOfCycle \/ CycleEscapes
    /\ UNCHANGED probe

Next == ProcessStep \/ TimePasses \/ AnswerAtOnce \/ ReadClock \/ ReadWorker \/ Finish

Spec == Init /\ [][Next]_vars

(***************************************************************************)
(* Both threads go on while they can, time passes and an evaluation that   *)
(* has begun ends.  Nothing makes a cycle end, a probe come or the process *)
(* be asked to stop.                                                       *)
(***************************************************************************)
FairSpec ==
    /\ Spec
    /\ WF_vars(Main /\ UNCHANGED probe)
    /\ WF_vars(Thread /\ UNCHANGED probe)
    /\ WF_vars(TimePasses)
    /\ WF_vars(ReadWorker) /\ WF_vars(Finish)

--------------------------------------------------------------------------------
(***************************************************************************)
(* Properties.                                                             *)
(***************************************************************************)

Serving == main = "serving" /\ enabled

Answers(reasons) == probe.at = "finish" => probe.reason \in reasons \cup Unread

\* A worker that has died, or that never comes back from a cycle, is reported,
\* and by its name: from some point on no evaluation that gets to read the state
\* answers ready, nor blames a failed or an old cycle, whatever it read before
\* (api/health.py, the order of _enabled_reason on a state that refresher.py's
\* run_cycle leaves behind).
TroubleIsNamed ==
    /\ <>[](Serving /\ worker = "dead") => <>[]Answers({"worker_not_alive"})
    /\ <>[](Serving /\ InCycle) =>
          <>[]Answers({"startup_timeout", "never_successful", "cycle_stuck"})

================================================================================
