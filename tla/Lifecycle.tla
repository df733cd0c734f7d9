------------------------------- MODULE Lifecycle -------------------------------
(***************************************************************************)
(* One process from startup to exit: the lifespan (main.py) starts the     *)
(* statistics worker, waits a bounded time for its first cycle, serves,    *)
(* asks it to stop and joins it for a bounded time; the worker             *)
(* (refresher.py, _run) cycles until it sees the stop event and then runs  *)
(* the callbacks left for it.  The database engine is disposed by whichever *)
(* of the two is left.                                                     *)
(*                                                                         *)
(* Ages are in ticks of a clock.  They stop growing at Old: seen by a      *)
(* clock read at most MaxLag ticks ago they are beyond StaleAfter then.    *)
(***************************************************************************)
EXTENDS Integers

CONSTANTS
    StaleAfter,     \* STATS_STALE_AFTER_SECONDS
    MaxLag          \* bound: ticks between an evaluation's clock and its worker state

ASSUME AgeAssumption == StaleAfter \in Nat /\ MaxLag \in Nat

VARIABLES
    enabled,        \* STATS_REFRESH_ENABLED
    main,           \* where the lifespan is
    worker,         \* where the worker thread is: "none" before it is started
    stopEvent,      \* _stop_event
    exited,         \* _worker_exited
    deferred,       \* _deferred_stop_callbacks: how often the engine's disposal is in it
    taken,          \* of them, those the exiting worker has taken
    disposals,      \* how often the engine has been disposed
    timedOut,       \* _shutdown_timed_out
    initialDone,    \* _initial_event
    running,        \* _cycle_running
    failing,        \* _consecutive_failures > 0
    cycleAge,       \* age of the running cycle's start, or of the last one's end
    successAge      \* age of the last success

mainVars == <<enabled, main, stopEvent, timedOut>>
disposalVars == <<exited, deferred, taken, disposals>>
healthVars == <<initialDone, running, failing, cycleAge, successAge>>

lifeVars == <<mainVars, worker, disposalVars, healthVars>>

None == -1              \* no such cycle yet
Old == StaleAfter + MaxLag + 1
Age == 0..Old

LifeTypeOK ==
    /\ enabled \in BOOLEAN
    /\ main \in {"starting", "waiting", "building", "serving", "stop", "joining",
                 "dispose", "defer", "stopped"}
    /\ worker \in {"none", "initial", "report", "idle", "cycle", "exiting", "callbacks", "dead"}
    /\ stopEvent \in BOOLEAN /\ timedOut \in BOOLEAN /\ exited \in BOOLEAN
    /\ deferred \in 0..1 /\ taken \in 0..1 /\ disposals \in 0..1
    /\ initialDone \in BOOLEAN /\ running \in BOOLEAN /\ failing \in BOOLEAN
    /\ cycleAge \in Age /\ successAge \in Age \cup {None}

Alive == worker \notin {"none", "dead"}
InCycle == worker \in {"initial", "cycle"}

LifeInit ==
    /\ enabled \in BOOLEAN
    /\ main = "starting"
    /\ worker = "none"
    /\ stopEvent = FALSE /\ timedOut = FALSE
    /\ exited = FALSE /\ deferred = 0 /\ taken = 0 /\ disposals = 0
    /\ initialDone = FALSE /\ running = FALSE /\ failing = FALSE
    /\ cycleAge = 0 /\ successAge = None

--------------------------------------------------------------------------------
(***************************************************************************)
(* The lifespan: startup.                                                  *)
(***************************************************************************)

Go(place) == main' = place

\* start, whose thread begins with its first cycle at once.
StartWorker ==
    /\ main = "starting" /\ enabled
    /\ Go("waiting")
    /\ worker' = "initial"
    /\ running' = TRUE /\ cycleAge' = 0
    /\ UNCHANGED <<enabled, stopEvent, timedOut, disposalVars, initialDone, failing, successAge>>

StartDisabled ==
    /\ main = "starting" /\ ~enabled
    /\ Go("building")
    /\ UNCHANGED <<enabled, stopEvent, timedOut, worker, disposalVars, healthVars>>

\* wait_initial: the event or the timeout; what it returns is not looked at.
InitialWaitEnds ==
    /\ main = "waiting"
    /\ Go("building")
    /\ UNCHANGED <<enabled, stopEvent, timedOut, worker, disposalVars, healthVars>>

StartServing ==
    /\ main = "building"
    /\ Go("serving")
    /\ UNCHANGED <<enabled, stopEvent, timedOut, worker, disposalVars, healthVars>>

\* Startup raises: at the thread's start, or when the evaluator is built.
StartupFails ==
    /\ main \in {"starting", "building"}
    /\ Go("stop")
    /\ UNCHANGED <<enabled, stopEvent, timedOut, worker, disposalVars, healthVars>>

(***************************************************************************)
(* The lifespan: shutdown, the same after a failed startup.                *)
(***************************************************************************)

Shutdown ==
    /\ main = "serving"
    /\ Go("stop")
    /\ UNCHANGED <<enabled, stopEvent, timedOut, worker, disposalVars, healthVars>>

\* stop without a refresher or without a thread has nothing to stop.
NothingToStop ==
    /\ main = "stop" /\ worker = "none"
    /\ Go("dispose")
    /\ UNCHANGED <<enabled, stopEvent, timedOut, worker, disposalVars, healthVars>>

RequestStop ==
    /\ main = "stop" /\ worker # "none"
    /\ Go("joining")
    /\ stopEvent' = TRUE
    /\ UNCHANGED <<enabled, timedOut, worker, disposalVars, healthVars>>

JoinReturns ==
    /\ main = "joining" /\ ~Alive
    /\ Go("dispose")
    /\ timedOut' = FALSE
    /\ UNCHANGED <<enabled, stopEvent, worker, disposalVars, healthVars>>

\* Wrong on purpose: what stop returns is not looked at.
JoinIgnored ==
    /\ main = "joining" /\ Alive
    /\ Go("dispose")
    /\ timedOut' = TRUE
    /\ UNCHANGED <<enabled, stopEvent, worker, disposalVars, healthVars>>

\* Wrong on purpose: the join has no timeout.
JoinUnbounded == FALSE /\ UNCHANGED lifeVars

JoinTimesOut ==
    /\ main = "joining" /\ Alive
    /\ Go("defer")
    /\ timedOut' = TRUE
    /\ UNCHANGED <<enabled, stopEvent, worker, disposalVars, healthVars>>

Dispose ==
    /\ main = "dispose"
    /\ Go("stopped")
    /\ disposals' = disposals + 1
    /\ UNCHANGED <<enabled, stopEvent, timedOut, worker, exited, deferred, taken, healthVars>>

\* Wrong on purpose: the callback is left even for a worker that has gone.
DeferAlways ==
    /\ main = "defer"
    /\ Go("stopped")
    /\ deferred' = deferred + 1
    /\ UNCHANGED <<enabled, stopEvent, timedOut, worker, exited, taken, disposals, healthVars>>

\* Wrong on purpose: the callback is left and run as well.
DeferAndRun ==
    /\ main = "defer"
    /\ Go("stopped")
    /\ deferred' = deferred + 1
    /\ disposals' = IF worker = "exiting" \/ exited THEN disposals + 1 ELSE disposals
    /\ UNCHANGED <<enabled, stopEvent, timedOut, worker, exited, taken, healthVars>>

\* defer_until_stopped: now if the worker has taken its callbacks, else by it.
Defer ==
    /\ main = "defer"
    /\ Go("stopped")
    /\ IF exited
       THEN disposals' = disposals + 1 /\ UNCHANGED deferred
       ELSE deferred' = deferred + 1 /\ UNCHANGED disposals
    /\ UNCHANGED <<enabled, stopEvent, timedOut, worker, exited, taken, healthVars>>

--------------------------------------------------------------------------------
(***************************************************************************)
(* The worker.                                                             *)
(***************************************************************************)

\* What run_cycle records at its end.
RecordCycle(success) ==
    /\ running' = FALSE /\ cycleAge' = 0
    /\ failing' = ~success
    /\ successAge' = IF success THEN 0 ELSE successAge

EndInitial(success) ==
    /\ worker = "initial"
    /\ worker' = "report"
    /\ RecordCycle(success)
    /\ UNCHANGED <<mainVars, disposalVars, initialDone>>

Report ==
    /\ worker = "report"
    /\ worker' = "idle"
    /\ initialDone' = TRUE
    /\ UNCHANGED <<mainVars, disposalVars, running, failing, cycleAge, successAge>>

StartCycle ==
    /\ worker = "idle" /\ ~stopEvent
    /\ worker' = "cycle"
    /\ running' = TRUE /\ cycleAge' = 0
    /\ UNCHANGED <<mainVars, disposalVars, initialDone, failing, successAge>>

EndCycle(success) ==
    /\ worker = "cycle"
    /\ worker' = "idle"
    /\ RecordCycle(success)
    /\ UNCHANGED <<mainVars, disposalVars, initialDone>>

SeeStop ==
    /\ worker = "idle" /\ stopEvent
    /\ worker' = "exiting"
    /\ UNCHANGED <<mainVars, disposalVars, healthVars>>

\* Something run_cycle does not catch ends the thread; the cycle stays open.
CycleEscapes ==
    /\ InCycle
    /\ worker' = "exiting"
    /\ UNCHANGED <<mainVars, disposalVars, healthVars>>

\* The finally of _run: under the lock, the callbacks are taken and from then on
\* none is accepted.
TakeCallbacks ==
    /\ worker = "exiting"
    /\ worker' = "callbacks"
    /\ exited' = TRUE
    /\ taken' = deferred /\ deferred' = 0
    /\ UNCHANGED <<mainVars, disposals, healthVars>>

RunCallbacks ==
    /\ worker = "callbacks"
    /\ worker' = "dead"
    /\ disposals' = disposals + taken /\ taken' = 0
    /\ UNCHANGED <<mainVars, exited, deferred, healthVars>>

Tick ==
    /\ cycleAge' = IF cycleAge < Old THEN cycleAge + 1 ELSE Old
    /\ successAge' = IF successAge \in 0..Old - 1 THEN successAge + 1 ELSE successAge
    /\ UNCHANGED <<mainVars, worker, disposalVars, initialDone, running, failing>>

--------------------------------------------------------------------------------
Main ==
    \/ StartWorker \/ StartDisabled \/ InitialWaitEnds \/ StartServing
    \/ NothingToStop \/ RequestStop \/ JoinReturns \/ JoinTimesOut \/ Dispose \/ Defer

\* Everything the worker does of itself: how long a cycle takes is not up to it.
Thread == Report \/ StartCycle \/ SeeStop \/ TakeCallbacks \/ RunCallbacks

EndOfCycle == \E success \in BOOLEAN : EndInitial(success) \/ EndCycle(success)

--------------------------------------------------------------------------------
(***************************************************************************)
(* Properties.                                                             *)
(***************************************************************************)

\* The engine is never disposed while the worker may still use it: a disposal
\* that could not wait for the worker is left to it (main.py, the two except and
\* finally branches; defer_until_stopped).
DisposedAfterUse == disposals > 0 => worker \in {"none", "callbacks", "dead"}

\* It is disposed at most once, whichever of the two threads comes first.
DisposedOnce == disposals + deferred + taken <= 1

Stopping == main \in {"stop", "joining", "dispose", "defer", "stopped"}

\* Shutdown ends even if the worker hangs in a cycle.
ShutdownIsBounded == Stopping ~> main = "stopped"

\* Unless it hangs for ever, the engine is disposed in the end.
EventuallyDisposed == []<>~InCycle => (Stopping ~> disposals = 1)

================================================================================
