---------------------------- MODULE ReadinessProofs ----------------------------
(***************************************************************************)
(* Proofs about Readiness and the Lifecycle below it, for every StaleAfter *)
(* and MaxLag: type correctness, the engine's disposal, and what the       *)
(* answers say of the worker at the moment it was looked at.               *)
(***************************************************************************)
EXTENDS Readiness, TLAPS

--------------------------------------------------------------------------------
(***************************************************************************)
(* The inductive invariant.                                                *)
(***************************************************************************)

\* There is no worker before the lifespan has started one.
NoWorkerYet == main = "starting" => worker = "none"

\* From the moment the worker takes its callbacks it accepts none.
ExitedOnceTaken == exited <=> (worker \in {"callbacks", "dead"})

\* Until the lifespan is over the disposal is nobody's yet.
Undecided == main # "stopped" => disposals = 0 /\ deferred = 0 /\ taken = 0

\* The lifespan disposes of the engine itself only if the worker is gone.
DisposeAlone == main = "dispose" => worker \in {"none", "dead"}

\* What was left for the worker is still to be taken, what it took to be run.
LeftInTime == deferred = 1 => ~exited
TakenHeld == taken = 1 => worker = "callbacks"

DisposalInv ==
    /\ NoWorkerYet /\ ExitedOnceTaken /\ Undecided /\ DisposeAlone
    /\ LeftInTime /\ TakenHeld
    /\ DisposedAfterUse /\ DisposedOnce

IInv == TypeOK /\ DisposalInv

--------------------------------------------------------------------------------
USE DEF mainVars, disposalVars, healthVars, lifeVars, vars, Go, None, Old, Age, Alive, InCycle

\* A step of either thread.
Process == Main \/ StartupFails \/ Shutdown \/ Thread \/ EndOfCycle \/ CycleEscapes

LEMMA ProcessTypes ==
    ASSUME IInv, Process
    PROVE  LifeTypeOK'
  <1> USE AgeAssumption DEF IInv, DisposalInv, TypeOK, LifeTypeOK
  <1>1. CASE StartWorker
    BY <1>1 DEF StartWorker
  <1>2. CASE StartDisabled
    BY <1>2 DEF StartDisabled
  <1>3. CASE InitialWaitEnds
    BY <1>3 DEF InitialWaitEnds
  <1>4. CASE StartServing
    BY <1>4 DEF StartServing
  <1>5. CASE NothingToStop
    BY <1>5 DEF NothingToStop
  <1>6. CASE RequestStop
    BY <1>6 DEF RequestStop
  <1>7. CASE JoinReturns
    BY <1>7 DEF JoinReturns
  <1>8. CASE JoinTimesOut
    BY <1>8 DEF JoinTimesOut
  <1>9. CASE Dispose
    BY <1>9 DEF Dispose, NoWorkerYet, ExitedOnceTaken, Undecided, LeftInTime, TakenHeld,
       DisposedOnce
  <1>10. CASE Defer
    BY <1>10 DEF Defer, NoWorkerYet, ExitedOnceTaken, Undecided, LeftInTime, TakenHeld,
       DisposedOnce
  <1>11. CASE StartupFails
    BY <1>11 DEF StartupFails
  <1>12. CASE Shutdown
    BY <1>12 DEF Shutdown
  <1>13. CASE Report
    BY <1>13 DEF Report
  <1>14. CASE StartCycle
    BY <1>14 DEF StartCycle
  <1>15. CASE SeeStop
    BY <1>15 DEF SeeStop
  <1>16. CASE TakeCallbacks
    BY <1>16 DEF TakeCallbacks, NoWorkerYet, ExitedOnceTaken, Undecided, LeftInTime,
       TakenHeld, DisposedOnce
  <1>17. CASE RunCallbacks
    BY <1>17 DEF RunCallbacks, NoWorkerYet, ExitedOnceTaken, Undecided, LeftInTime,
       TakenHeld, DisposedOnce
  <1>18. CASE CycleEscapes
    BY <1>18 DEF CycleEscapes
  <1>19. ASSUME NEW success \in BOOLEAN, EndInitial(success)
        PROVE  LifeTypeOK'
    <2>1. successAge' \in Age \cup {None}
      BY <1>19 DEF EndInitial, RecordCycle
    <2>2. failing' \in BOOLEAN /\ running' \in BOOLEAN
      BY <1>19, Zenon DEF EndInitial, RecordCycle
    <2>3. cycleAge' \in Age
      BY <1>19 DEF EndInitial, RecordCycle
    <2>4. UNCHANGED <<mainVars, disposalVars, initialDone>> /\ worker' \in {"report", "idle"}
      BY <1>19 DEF EndInitial
    <2> QED
      BY <2>1, <2>2, <2>3, <2>4
  <1>20. ASSUME NEW success \in BOOLEAN, EndCycle(success)
        PROVE  LifeTypeOK'
    <2>1. successAge' \in Age \cup {None}
      BY <1>20 DEF EndCycle, RecordCycle
    <2>2. failing' \in BOOLEAN /\ running' \in BOOLEAN
      BY <1>20, Zenon DEF EndCycle, RecordCycle
    <2>3. cycleAge' \in Age
      BY <1>20 DEF EndCycle, RecordCycle
    <2>4. UNCHANGED <<mainVars, disposalVars, initialDone>> /\ worker' \in {"report", "idle"}
      BY <1>20 DEF EndCycle
    <2> QED
      BY <2>1, <2>2, <2>3, <2>4
  <1> QED
    BY <1>1, <1>2, <1>3, <1>4, <1>5, <1>6, <1>7, <1>8, <1>9, <1>10, <1>11,
       <1>12, <1>13, <1>14, <1>15, <1>16, <1>17, <1>18, <1>19, <1>20
    DEF Main, Thread, EndOfCycle, Process

LEMMA ProcessDisposal ==
    ASSUME IInv, Process
    PROVE  DisposalInv'
  <1> USE DEF IInv, DisposalInv, TypeOK, LifeTypeOK, NoWorkerYet, ExitedOnceTaken, Undecided,
              DisposeAlone, LeftInTime, TakenHeld, DisposedAfterUse, DisposedOnce
  <1>1. CASE StartWorker
    BY <1>1 DEF StartWorker
  <1>2. CASE StartDisabled
    BY <1>2 DEF StartDisabled
  <1>3. CASE InitialWaitEnds
    BY <1>3 DEF InitialWaitEnds
  <1>4. CASE StartServing
    BY <1>4 DEF StartServing
  <1>5. CASE NothingToStop
    BY <1>5 DEF NothingToStop
  <1>6. CASE RequestStop
    BY <1>6 DEF RequestStop
  <1>7. CASE JoinReturns
    BY <1>7 DEF JoinReturns
  <1>8. CASE JoinTimesOut
    BY <1>8 DEF JoinTimesOut
  <1>9. CASE Dispose
    BY <1>9 DEF Dispose
  <1>10. CASE Defer
    BY <1>10 DEF Defer
  <1>11. CASE StartupFails
    BY <1>11 DEF StartupFails
  <1>12. CASE Shutdown
    BY <1>12 DEF Shutdown
  <1>13. CASE Report
    BY <1>13 DEF Report
  <1>14. CASE StartCycle
    BY <1>14 DEF StartCycle
  <1>15. CASE SeeStop
    BY <1>15 DEF SeeStop
  <1>16. CASE TakeCallbacks
    BY <1>16 DEF TakeCallbacks
  <1>17. CASE RunCallbacks
    BY <1>17 DEF RunCallbacks
  <1>18. CASE CycleEscapes
    BY <1>18 DEF CycleEscapes
  <1>19. ASSUME NEW success \in BOOLEAN, EndInitial(success)
        PROVE  DisposalInv'
    BY <1>19 DEF EndInitial, RecordCycle
  <1>20. ASSUME NEW success \in BOOLEAN, EndCycle(success)
        PROVE  DisposalInv'
    BY <1>20 DEF EndCycle, RecordCycle
  <1> QED
    BY <1>1, <1>2, <1>3, <1>4, <1>5, <1>6, <1>7, <1>8, <1>9, <1>10, <1>11,
       <1>12, <1>13, <1>14, <1>15, <1>16, <1>17, <1>18, <1>19, <1>20
    DEF Main, Thread, EndOfCycle, Process

LEMMA TickTypes ==
    ASSUME LifeTypeOK, Tick
    PROVE  LifeTypeOK'
  BY AgeAssumption DEF LifeTypeOK, Tick

\* Whatever leaves the disposal and both threads alone keeps the invariant on them.
LEMMA DisposalElsewhere ==
    ASSUME DisposalInv, UNCHANGED <<main, worker, disposalVars>>
    PROVE  DisposalInv'
  BY DEF DisposalInv, NoWorkerYet, ExitedOnceTaken, Undecided, DisposeAlone, LeftInTime,
         TakenHeld, DisposedAfterUse, DisposedOnce

\* A judgement is always one of the reasons.
LEMMA JudgementTypes ==
    ASSUME NEW lag
    PROVE  Judgements(lag) \subseteq Reason
  <1>1. WorkerReason(lag) \in Reason
    BY DEF WorkerReason, Reason
  <1> QED
    BY <1>1 DEF Judgements, Reason, Outside, Unread

--------------------------------------------------------------------------------
LEMMA InitInv == Init => IInv
  <1> SUFFICES ASSUME Init PROVE IInv
    OBVIOUS
  <1> USE AgeAssumption DEF Init, LifeInit
  <1>1. TypeOK
    <2>1. cycleAge \in Age /\ successAge \in Age \cup {None}
      OBVIOUS
    <2>2. deferred \in 0..1 /\ taken \in 0..1 /\ disposals \in 0..1
      OBVIOUS
    <2>3. LifeTypeOK
      BY <2>1, <2>2, Zenon DEF LifeTypeOK
    <2>4. probe \in Evaluation
      BY DEF Evaluation
    <2> QED
      BY <2>3, <2>4 DEF TypeOK
  <1>2. DisposalInv
    BY DEF DisposalInv, NoWorkerYet, ExitedOnceTaken, Undecided, DisposeAlone, LeftInTime,
           TakenHeld, DisposedAfterUse, DisposedOnce
  <1> QED
    BY <1>1, <1>2 DEF IInv

LEMMA NextInv == IInv /\ [Next]_vars => IInv'
  <1> SUFFICES ASSUME IInv, [Next]_vars PROVE IInv'
    OBVIOUS
  <1>1. CASE ProcessStep
    <2>1. LifeTypeOK' /\ DisposalInv'
      BY <1>1, ProcessTypes, ProcessDisposal DEF ProcessStep, Process
    <2>2. probe' = probe
      BY <1>1 DEF ProcessStep
    <2> QED
      BY <2>1, <2>2 DEF IInv, TypeOK
  <1>2. CASE TimePasses
    <2>1. LifeTypeOK' /\ DisposalInv'
      BY <1>2, TickTypes, DisposalElsewhere DEF TimePasses, Tick, IInv, TypeOK
    <2>2. probe' \in Evaluation
      <3>1. CASE probe.at = "worker"
        <4>1. probe \in [at : {"worker"}, lag : 0..MaxLag] /\ probe.lag < MaxLag
          BY <1>2, <3>1 DEF IInv, TypeOK, Evaluation, TimePasses
        <4> QED
          BY <1>2, <3>1, <4>1, AgeAssumption DEF TimePasses, Evaluation
      <3>2. CASE probe.at # "worker"
        BY <1>2, <3>2 DEF TimePasses, IInv, TypeOK
      <3> QED
        BY <3>1, <3>2
    <2> QED
      BY <2>1, <2>2 DEF IInv, TypeOK
  <1>3. CASE AnswerAtOnce \/ ReadClock \/ ReadWorker \/ Finish
    <2>1. UNCHANGED lifeVars
      BY <1>3 DEF AnswerAtOnce, ReadClock, ReadWorker, Finish
    <2>2. LifeTypeOK' /\ DisposalInv'
      BY <2>1, DisposalElsewhere DEF IInv, TypeOK, LifeTypeOK
    <2>3. CASE AnswerAtOnce
      <3>1. Unread \cup {"ready"} \subseteq Reason
        BY DEF Reason
      <3>2. PICK reason \in Unread \cup {"ready"} :
              probe' = [at |-> "finish", reason |-> reason]
        BY <2>3 DEF AnswerAtOnce, Unread
      <3>3. probe' \in Evaluation
        BY <3>1, <3>2 DEF Evaluation
      <3> QED
        BY <2>2, <3>3 DEF IInv, TypeOK
    <2>4. CASE ReadClock
      BY <2>2, <2>4, AgeAssumption DEF ReadClock, Evaluation, IInv, TypeOK
    <2>5. CASE ReadWorker
      <3>1. PICK reason \in Judgements(probe.lag) :
              probe' = [at |-> "finish", reason |-> reason]
        BY <2>5 DEF ReadWorker
      <3>2. reason \in Reason
        BY <3>1, JudgementTypes
      <3>3. probe' \in Evaluation
        BY <3>1, <3>2 DEF Evaluation
      <3> QED
        BY <2>2, <3>3 DEF IInv, TypeOK
    <2>6. CASE Finish
      BY <2>2, <2>6 DEF Finish, Evaluation, IInv, TypeOK
    <2> QED
      BY <1>3, <2>3, <2>4, <2>5, <2>6
  <1>4. CASE UNCHANGED vars
    BY <1>4, DisposalElsewhere DEF IInv, TypeOK, LifeTypeOK
  <1> QED
    BY <1>1, <1>2, <1>3, <1>4 DEF Next

\* The invariant that ties the disposal to where the two threads are holds in
\* every reachable state.
THEOREM InvariantHolds == Spec => []IInv
  BY InitInv, NextInv, PTL DEF Spec

\* Every variable keeps its type: in particular the disposal is never left, taken
\* or done more than once, and no age or lag runs over.
THEOREM TypeCorrect == Spec => []TypeOK
  <1>1. IInv => TypeOK
    BY DEF IInv
  <1> QED
    BY <1>1, InvariantHolds, PTL

\* The database engine is disposed only when the worker is past its last use of it
\* (main.py, _lifespan; refresher.py, defer_until_stopped and _run).
THEOREM EngineOutlivesWorker == Spec => []DisposedAfterUse
  <1>1. IInv => DisposedAfterUse
    BY DEF IInv, DisposalInv
  <1> QED
    BY <1>1, InvariantHolds, PTL

\* Of the lifespan and the exiting worker at most one disposes of it, and once.
THEOREM EngineDisposedOnce == Spec => []DisposedOnce
  <1>1. IInv => DisposedOnce
    BY DEF IInv, DisposalInv
  <1> QED
    BY <1>1, InvariantHolds, PTL

--------------------------------------------------------------------------------
(***************************************************************************)
(* What the answers mean.                                                  *)
(***************************************************************************)

\* The cycle that runs is recorded, the first one before it is reported.
RunningKnown ==
    /\ InCycle => running
    /\ worker \in {"none", "initial"} => ~initialDone
    /\ worker \in {"idle", "cycle"} => initialDone

\* Whoever finished a cycle and never succeeded has failed.
NeverMeansFailing == initialDone \/ worker = "report" => successAge # None \/ failing

\* Between two cycles a worker that is not failing succeeded when it last ended one.
SuccessIsLatest == ~running /\ ~failing /\ worker # "none" => successAge = cycleAge

\* A join times out in the last steps only, and the lifespan ends with one or without
\* a worker.
JoinedLast ==
    /\ timedOut => main \in {"defer", "stopped"}
    /\ main = "defer" => timedOut
    /\ main = "stopped" => timedOut \/ worker \in {"none", "dead"}

\* A worker that is enabled has been started before anything is served.
StartedFirst == enabled /\ main \in {"waiting", "building", "serving"} => worker # "none"

HealthInv ==
    RunningKnown /\ NeverMeansFailing /\ SuccessIsLatest /\ JoinedLast /\ StartedFirst

LEMMA HealthInit == Init => HealthInv
  BY DEF Init, LifeInit, HealthInv, RunningKnown, NeverMeansFailing, SuccessIsLatest,
     JoinedLast, StartedFirst

LEMMA HealthProcess ==
    ASSUME IInv, HealthInv, Process
    PROVE  HealthInv'
  <1> USE AgeAssumption DEF HealthInv, RunningKnown, NeverMeansFailing, SuccessIsLatest,
          JoinedLast, StartedFirst
  <1>1. CASE StartWorker
    BY <1>1 DEF StartWorker, IInv, DisposalInv, NoWorkerYet
  <1>2. CASE StartDisabled \/ InitialWaitEnds \/ StartServing \/ StartupFails \/ Shutdown
    BY <1>2 DEF StartDisabled, InitialWaitEnds, StartServing, StartupFails, Shutdown
  <1>3. CASE NothingToStop \/ RequestStop \/ JoinReturns \/ JoinTimesOut
    BY <1>3 DEF NothingToStop, RequestStop, JoinReturns, JoinTimesOut
  <1>4. CASE Dispose \/ Defer
    BY <1>4 DEF Dispose, Defer, IInv, DisposalInv, DisposeAlone
  <1>5. CASE Report \/ StartCycle \/ SeeStop \/ TakeCallbacks \/ RunCallbacks \/ CycleEscapes
    BY <1>5 DEF Report, StartCycle, SeeStop, TakeCallbacks, RunCallbacks, CycleEscapes
  <1>6. ASSUME NEW success \in BOOLEAN, EndInitial(success) \/ EndCycle(success)
        PROVE  HealthInv'
    <2>1. /\ worker' \in {"report", "idle"} /\ running' = FALSE /\ cycleAge' = 0
          /\ worker \in {"initial", "cycle"} /\ (worker' = "idle" => worker = "cycle")
          /\ UNCHANGED <<mainVars, initialDone>>
      BY <1>6 DEF EndInitial, EndCycle, RecordCycle
    <2>2. \/ successAge' = 0 /\ ~failing'
          \/ failing'
      <3>1. CASE success = TRUE
        BY <1>6, <3>1 DEF EndInitial, EndCycle, RecordCycle
      <3>2. CASE success = FALSE
        BY <1>6, <3>2 DEF EndInitial, EndCycle, RecordCycle
      <3> QED
        BY <3>1, <3>2
    <2>3. RunningKnown' /\ JoinedLast' /\ StartedFirst'
      BY <2>1
    <2>4. NeverMeansFailing' /\ SuccessIsLatest'
      BY <2>1, <2>2
    <2> QED
      BY <2>3, <2>4
  <1> QED
    BY <1>1, <1>2, <1>3, <1>4, <1>5, <1>6 DEF Main, Thread, EndOfCycle, Process

LEMMA HealthTick ==
    ASSUME LifeTypeOK, HealthInv, Tick
    PROVE  HealthInv'
  <1> USE AgeAssumption DEF LifeTypeOK, HealthInv, Tick
  <1>1. RunningKnown' /\ JoinedLast' /\ StartedFirst'
    BY DEF RunningKnown, JoinedLast, StartedFirst
  <1>2. NeverMeansFailing'
    BY DEF NeverMeansFailing
  <1>3. SuccessIsLatest'
    BY DEF SuccessIsLatest
  <1> QED
    BY <1>1, <1>2, <1>3

LEMMA HealthStep == IInv /\ HealthInv /\ [Next]_vars => HealthInv'
  <1> SUFFICES ASSUME IInv, LifeTypeOK, HealthInv, [Next]_vars PROVE HealthInv'
    BY DEF IInv, TypeOK
  <1>1. CASE ProcessStep
    BY <1>1, HealthProcess DEF ProcessStep, Process
  <1>2. CASE TimePasses
    BY <1>2, HealthTick DEF TimePasses
  <1>3. CASE UNCHANGED lifeVars
    BY <1>3 DEF HealthInv, RunningKnown, NeverMeansFailing, SuccessIsLatest, JoinedLast,
       StartedFirst
  <1> QED
    BY <1>1, <1>2, <1>3 DEF Next, AnswerAtOnce, ReadClock, ReadWorker, Finish

\* What an evaluation that looks at the worker may answer.
LEMMA AnswersJudge ==
    ASSUME ReadWorker
    PROVE  probe'.reason \in Judgements(probe.lag)
  BY DEF ReadWorker

\* The safety half of TroubleIsNamed: while the process serves, an evaluation that looks
\* at a dead worker, and whose samples are not refused as unreadable, says so, and one
\* that looks at a worker in a cycle begun more than STATS_STALE_AFTER_SECONDS before
\* its clock blames that cycle, by the name the stage of the worker's life gives it
\* (health.py, the order of _enabled_reason on what refresher.py records).
TroubleNamedAtOnce ==
    [][ReadWorker /\ main = "serving" /\ probe'.reason # "state_unavailable" =>
         /\ worker = "dead" => probe'.reason = "worker_not_alive"
         /\ InCycle /\ cycleAge > StaleAfter + probe.lag =>
              probe'.reason = IF worker = "initial" THEN "startup_timeout"
                              ELSE IF successAge = None THEN "never_successful"
                              ELSE "cycle_stuck"]_vars

\* A dead worker and a hung cycle are named by every evaluation that looks at them.
THEOREM TroubleIsNamedAtOnce == Spec => TroubleNamedAtOnce
  <1> DEFINE Named ==
        /\ worker = "dead" => probe'.reason = "worker_not_alive"
        /\ InCycle /\ cycleAge > StaleAfter + probe.lag =>
             probe'.reason = IF worker = "initial" THEN "startup_timeout"
                             ELSE IF successAge = None THEN "never_successful"
                             ELSE "cycle_stuck"
  <1>1. ASSUME TypeOK, HealthInv, ReadWorker, main = "serving",
               probe'.reason # "state_unavailable"
        PROVE  Named
    <2>1. ~timedOut
      BY <1>1 DEF HealthInv, JoinedLast
    <2>2. CASE worker = "dead"
      <3>1. WorkerReason(probe.lag) = "worker_not_alive"
        BY <2>1, <2>2 DEF WorkerReason
      <3> QED
        BY <1>1, <2>2, <3>1, AnswersJudge DEF Judgements
    <2>3. CASE InCycle /\ cycleAge > StaleAfter + probe.lag
      <3>1. running /\ (worker = "initial" <=> ~initialDone)
        BY <1>1, <2>3 DEF HealthInv, RunningKnown
      <3>2. Stuck(probe.lag)
        <4>1. probe.lag \in Nat /\ cycleAge \in Nat /\ StaleAfter \in Nat
          BY <1>1, AgeAssumption DEF TypeOK, LifeTypeOK, Evaluation, ReadWorker
        <4> QED
          BY <2>3, <3>1, <4>1 DEF Stuck, Seen
      <3>3. WorkerReason(probe.lag) = IF worker = "initial" THEN "startup_timeout"
                                      ELSE IF successAge = None THEN "never_successful"
                                      ELSE "cycle_stuck"
        BY <2>1, <2>3, <3>1, <3>2 DEF WorkerReason
      <3> QED
        BY <1>1, <2>3, <3>3, AnswersJudge DEF Judgements
    <2> QED
      BY <2>2, <2>3
  <1>2. TypeOK /\ HealthInv /\ [Next]_vars =>
            [ReadWorker /\ main = "serving" /\ probe'.reason # "state_unavailable" => Named]_vars
    BY <1>1
  <1> QED
    BY <1>2, HealthInit, HealthStep, TypeCorrect, InvariantHolds, PTL DEF Spec, TroubleNamedAtOnce

\* Ready is earned: at the moment the worker was looked at it lived, had finished its
\* first cycle, the cycle it finished last had succeeded, and the last success and the
\* newest beginning or end of a cycle lay between STATS_STALE_AFTER_SECONDS before the
\* evaluation's clock and that clock, however long ago the clock was read.  And an old
\* success is only ever blamed on a worker that is busy: between cycles it is the last
\* cycle that is overdue.
ReadyEarned ==
    [][ReadWorker =>
         /\ probe'.reason = "ready" =>
              /\ Alive /\ initialDone /\ ~failing /\ main \notin {"defer", "stopped"}
              /\ successAge \in probe.lag..(StaleAfter + probe.lag)
              /\ cycleAge \in probe.lag..(StaleAfter + probe.lag)
         /\ probe'.reason = "success_stale" => running]_vars

\* health.py answers ready of a worker it has reason to call so, and of no other.
THEOREM ReadyIsEarned == Spec => ReadyEarned
  <1> DEFINE Earned ==
        /\ probe'.reason = "ready" =>
             /\ Alive /\ initialDone /\ ~failing /\ main \notin {"defer", "stopped"}
             /\ successAge \in probe.lag..(StaleAfter + probe.lag)
             /\ cycleAge \in probe.lag..(StaleAfter + probe.lag)
        /\ probe'.reason = "success_stale" => running
  <1>1. ASSUME TypeOK, HealthInv, ReadWorker PROVE Earned
    <2> DEFINE lag == probe.lag
    <2>1. /\ lag \in Nat /\ StaleAfter \in Nat /\ cycleAge \in Nat
          /\ successAge \in Nat \/ successAge = None
      BY <1>1, AgeAssumption DEF TypeOK, LifeTypeOK, Evaluation, ReadWorker
    <2>2. probe'.reason \in Judgements(lag)
      BY <1>1, AnswersJudge
    <2> HIDE DEF lag
    <2>3. CASE probe'.reason = "ready"
      <3>1. /\ WorkerReason(lag) = "ready"
            /\ Seen(cycleAge, lag) >= 0 /\ Seen(successAge, lag) >= 0
        BY <2>2, <2>3 DEF Judgements
      <3>2. /\ Alive /\ ~timedOut /\ initialDone /\ ~failing /\ successAge # None
            /\ ~Stuck(lag) /\ ~Overdue(lag) /\ ~(Seen(successAge, lag) > StaleAfter)
        BY <3>1 DEF WorkerReason
      <3>3. Seen(cycleAge, lag) \in 0..StaleAfter /\ Seen(successAge, lag) \in 0..StaleAfter
        BY <2>1, <3>1, <3>2 DEF Stuck, Overdue, Seen
      <3>4. /\ successAge \in lag..(StaleAfter + lag)
            /\ cycleAge \in lag..(StaleAfter + lag)
        BY <2>1, <3>2, <3>3 DEF Seen
      <3> QED
        BY <1>1, <3>2, <3>4, <2>3 DEF lag, HealthInv, JoinedLast
    <2>4. CASE probe'.reason = "success_stale"
      <3>1. WorkerReason(lag) = "success_stale"
        BY <2>2, <2>4 DEF Judgements
      <3>2. /\ worker # "none" /\ ~failing /\ ~Overdue(lag)
            /\ Seen(successAge, lag) > StaleAfter
        BY <3>1 DEF WorkerReason
      <3> QED
        BY <1>1, <2>4, <3>2 DEF HealthInv, SuccessIsLatest, Overdue
    <2> QED
      BY <2>3, <2>4
  <1>2. TypeOK /\ HealthInv /\ [Next]_vars => [ReadWorker => Earned]_vars
    BY <1>1
  <1> QED
    BY <1>2, HealthInit, HealthStep, TypeCorrect, InvariantHolds, PTL DEF Spec, ReadyEarned

================================================================================
