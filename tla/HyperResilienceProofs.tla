----------------------- MODULE HyperResilienceProofs -----------------------
(***************************************************************************)
(* The safety of the hyper-resilience engine for every set of services and *)
(* callers, every threshold and every recovery timeout.                    *)
(*                                                                         *)
(* Every step changes breakers, counters and health only through the pure  *)
(* functions of CircuitBreaker and through Count and StatusOf; the lemmas  *)
(* say what those preserve, and the theorems add that the steps do nothing *)
(* else.                                                                   *)
(***************************************************************************)
EXTENDS HyperResilience, TLAPS

\* What one breaker may be at any time.
GoodBreaker(cb) == cb \in Breaker /\ SoundBreaker(cb)

\* A name without a breaker gets a sound new one from entry().or_insert_with().
LEMMA OrNewGood ==
  ASSUME NEW cb, GoodBreaker(cb)
  PROVE  GoodBreaker(OrNew(cb)) /\ OrNew(cb).state # "Absent"
BY ThresholdAssumption, RecoveryAssumption
   DEF GoodBreaker, SoundBreaker, OrNew, NewBreaker, Breaker, States

\* transition_breaker keeps a breaker sound: in particular it opens one exactly
\* at the threshold.
LEMMA TransitionGood ==
  ASSUME NEW cb, GoodBreaker(cb), cb.state # "Absent", NEW ok \in BOOLEAN
  PROVE  GoodBreaker(TransitionBreaker(cb, ok)) /\ TransitionBreaker(cb, ok).state # "Absent"
<1> USE ThresholdAssumption, RecoveryAssumption
    DEF GoodBreaker, SoundBreaker, Breaker, States
<1>1. GoodBreaker(OnSuccess(cb)) /\ OnSuccess(cb).state # "Absent"
  <2>1. CASE cb.state = "Closed"
    BY <2>1 DEF OnSuccess
  <2>2. CASE cb.state = "Open"
    BY <2>2 DEF OnSuccess
  <2>3. CASE cb.state = "HalfOpen"
    BY <2>3 DEF OnSuccess, ResetBreaker
  <2>4. QED
    BY <2>1, <2>2, <2>3
<1>2. GoodBreaker(OnFailure(cb)) /\ OnFailure(cb).state # "Absent"
  <2>1. CASE cb.state = "Closed"
    BY <2>1 DEF OnFailure, Bump
  <2>2. CASE cb.state = "Open"
    BY <2>2 DEF OnFailure
  <2>3. CASE cb.state = "HalfOpen"
    BY <2>3 DEF OnFailure, Bump
  <2>4. QED
    BY <2>1, <2>2, <2>3
<1>3. QED
  BY <1>1, <1>2 DEF TransitionBreaker

\* reset_breaker, the half-open probe and the passing of time keep it sound.
LEMMA ResetGood == GoodBreaker(ResetBreaker) /\ ResetBreaker.state = "Closed"
BY ThresholdAssumption, RecoveryAssumption
   DEF GoodBreaker, SoundBreaker, ResetBreaker, Breaker, States

\* The half-open transition of is_available keeps a breaker sound.
LEMMA ProbeGood ==
  ASSUME NEW cb, GoodBreaker(cb)
  PROVE  GoodBreaker(ProbeBreaker(cb))
BY ThresholdAssumption, RecoveryAssumption
   DEF GoodBreaker, SoundBreaker, ProbeBreaker, NoBreaker, Breaker, States

\* The passing of time keeps a breaker sound and in its state.
LEMMA OlderGood ==
  ASSUME NEW cb, GoodBreaker(cb)
  PROVE  GoodBreaker(Older(cb)) /\ Older(cb).state = cb.state
BY ThresholdAssumption, RecoveryAssumption
   DEF GoodBreaker, SoundBreaker, Older, NoBreaker, Breaker, States

\* Recording keeps the counts apart, and no counts are ever classified Degraded.
GoodCounters(c) == c \in Counters /\ c.ok + c.consec <= c.total

\* Counting one more outcome keeps the counts apart.
LEMMA CountGood ==
  ASSUME NEW c, GoodCounters(c), NEW ok \in BOOLEAN
  PROVE  GoodCounters(Count(c, ok))
BY DEF GoodCounters, Counters, Count

\* No counts are ever classified Degraded: the success rate that would allow it
\* needs more than the failures that already make the service Unhealthy.
LEMMA StatusGood ==
  ASSUME NEW c \in Counters
  PROVE  StatusOf(c) \in {"Healthy", "Unhealthy"}
BY DEF StatusOf, Counters

-----------------------------------------------------------------------------
(* Type correctness *)

\* The value of a caller between two calls is a task.
LEMMA IdleTyped == Idle \in Tasks
<1>1. (CHOOSE s \in Services : TRUE) \in Services
  BY ServicesAssumption
<1>2. QED
  BY <1>1 DEF Idle, Tasks, Stages, Statuses

\* Every value is the safety invariant's: the inductive invariant of the engine.
Inv ==
  /\ TypeOK
  /\ TripsAtThreshold
  /\ CountersSane
  /\ NeverDegraded

\* The invariant part by part, in the form the lemmas above use.
BreakersGood == breakers \in [Services -> Breaker] /\ \A s \in Services : GoodBreaker(breakers[s])
CountersGood == counters \in [Services -> Counters] /\ \A s \in Services : GoodCounters(counters[s])
HealthGood == health \in [Services -> Statuses \ {"Degraded"}]
TasksGood == task \in [Threads -> Tasks] /\ \A t \in Threads : task[t].status # "Degraded"
CycleGood == cycle \in [at : CycleStages, names : SUBSET Services, todo : SUBSET Services]

\* The invariant is the conjunction of its parts, each about one variable.
LEMMA InvParts ==
  Inv <=> BreakersGood /\ CountersGood /\ HealthGood /\ TasksGood /\ CycleGood
BY DEF Inv, TypeOK, TripsAtThreshold, CountersSane, NeverDegraded, BreakersGood,
       CountersGood, HealthGood, TasksGood, CycleGood, GoodBreaker, GoodCounters

\* The engine starts empty: no breaker, no counts, no calls in progress.
LEMMA InvInit == Init => Inv
<1> SUFFICES ASSUME Init PROVE BreakersGood /\ CountersGood /\ HealthGood /\ TasksGood /\ CycleGood
  BY InvParts
<1>1. BreakersGood
  BY ThresholdAssumption, RecoveryAssumption
     DEF Init, BreakersGood, GoodBreaker, SoundBreaker, NoBreaker, Breaker, States
<1>2. CountersGood
  BY DEF Init, CountersGood, GoodCounters, ZeroCounters, Counters
<1>3. HealthGood
  BY DEF Init, HealthGood, Statuses
<1>4. TasksGood
  BY IdleTyped DEF Init, TasksGood, Idle
<1>5. CycleGood
  BY DEF Init, CycleGood, CycleStages
<1>6. QED
  BY <1>1, <1>2, <1>3, <1>4, <1>5

-----------------------------------------------------------------------------
(* Steps *)

Parts == BreakersGood /\ CountersGood /\ HealthGood /\ TasksGood /\ CycleGood

\* Writing a sound breaker under the map's lock keeps all of them sound.
LEMMA SetBreakerGood ==
  ASSUME BreakersGood, NEW s \in Services, NEW cb, GoodBreaker(cb), SetBreaker(s, cb)
  PROVE  BreakersGood'
BY DEF BreakersGood, SetBreaker, GoodBreaker

\* Moving a caller between critical sections keeps its task well formed.
LEMMA GoToGood ==
  ASSUME TasksGood, NEW t \in Threads, NEW stage \in Stages, GoTo(t, stage)
  PROVE  TasksGood'
BY DEF TasksGood, GoTo, Tasks

\* A call that returns leaves its task idle, which is well formed.
LEMMA ReturnGood ==
  ASSUME TasksGood, NEW t \in Threads, Return(t)
  PROVE  TasksGood'
BY IdleTyped DEF TasksGood, Return, Idle

\* A call that starts gives its task a service and a stage.
LEMMA StartGood ==
  ASSUME TasksGood, NEW t \in Threads, NEW stage \in Stages, NEW s \in Services,
         NEW ok \in BOOLEAN, NEW status \in Statuses \ {"Degraded"},
         Start(t, stage, s, ok, status)
  PROVE  TasksGood'
BY DEF TasksGood, Start, Tasks

\* A caller's operation keeps the invariant, section by section.
LEMMA CallerGood ==
  ASSUME Parts, NEW t \in Threads, CallerStep(t)
  PROVE  Parts'
<1> USE DEF Parts
<1>t. /\ task[t].svc \in Services
      /\ task[t].ok \in BOOLEAN
      /\ task[t].status \in Statuses \ {"Degraded"}
  BY DEF TasksGood, Tasks
<1>b. \A s \in Services : GoodBreaker(breakers[s]) /\ GoodBreaker(OrNew(breakers[s]))
  BY OrNewGood DEF BreakersGood
<1>c. \A s \in Services, ok \in BOOLEAN : GoodCounters(Count(counters[s], ok))
  BY CountGood DEF CountersGood
<1>d. \A s \in Services, ok \in BOOLEAN :
        StatusOf(Count(counters[s], ok)) \in Statuses \ {"Degraded"}
  BY <1>c, StatusGood DEF GoodCounters, Statuses
<1>1. ASSUME NEW s \in Services, NEW ok \in BOOLEAN, RecordOutcome(t, s, ok) PROVE Parts'
  <2>1. CountersGood'
    BY <1>1, <1>t, <1>b, <1>c, <1>d DEF RecordOutcome, CountersGood, GoodCounters
  <2>2. TasksGood'
    BY <1>1, <1>t, <1>b, <1>c, <1>d, StartGood DEF RecordOutcome, Stages
  <2>3. QED
    BY <1>1, <2>1, <2>2
       DEF RecordOutcome, BreakersGood, GoodBreaker, HealthGood, CycleGood
<1>2. ASSUME OutcomeHealth(t) PROVE Parts'
  <2>1. HealthGood'
    BY <1>2, <1>t, <1>b, <1>c, <1>d DEF OutcomeHealth, HealthGood
  <2>2. TasksGood'
    BY <1>2, <1>t, <1>b, <1>c, <1>d, GoToGood DEF OutcomeHealth, Stages
  <2>3. QED
    BY <1>2, <2>1, <2>2
       DEF OutcomeHealth, BreakersGood, GoodBreaker, CountersGood, GoodCounters, CycleGood
<1>3. ASSUME OutcomeBreaker(t) PROVE Parts'
  <2>1. BreakersGood'
    BY <1>3, <1>t, <1>b, <1>c, <1>d, OrNewGood, TransitionGood, SetBreakerGood DEF OutcomeBreaker
  <2>2. TasksGood'
    BY <1>3, <1>t, <1>b, <1>c, <1>d, ReturnGood DEF OutcomeBreaker
  <2>3. QED
    BY <1>3, <2>1, <2>2
       DEF OutcomeBreaker, CountersGood, GoodCounters, HealthGood, CycleGood
<1>4. ASSUME NEW s \in Services, NEW ok \in BOOLEAN, RecordExecution(t, s, ok) PROVE Parts'
  <2>1. BreakersGood'
    BY <1>4, <1>t, <1>b, <1>c, <1>d, OrNewGood, TransitionGood, SetBreakerGood DEF RecordExecution
  <2>2. TasksGood'
    BY <1>4, <1>t, <1>b, <1>c, <1>d, StartGood DEF RecordExecution, Stages, Statuses
  <2>3. QED
    BY <1>4, <2>1, <2>2
       DEF RecordExecution, CountersGood, GoodCounters, HealthGood, CycleGood
<1>5. ASSUME ExecutionCounters(t) PROVE Parts'
  <2>1. CountersGood'
    BY <1>5, <1>t, <1>b, <1>c, <1>d DEF ExecutionCounters, CountersGood, GoodCounters
  <2>2. TasksGood'
    BY <1>5, <1>t, <1>b, <1>c, <1>d DEF ExecutionCounters, TasksGood, Tasks, Stages
  <2>3. QED
    BY <1>5, <2>1, <2>2
       DEF ExecutionCounters, BreakersGood, GoodBreaker, HealthGood, CycleGood
<1>6. ASSUME ExecutionHealth(t) PROVE Parts'
  <2>1. HealthGood'
    BY <1>6, <1>t, <1>b, <1>c, <1>d DEF ExecutionHealth, HealthGood
  <2>2. TasksGood'
    BY <1>6, <1>t, <1>b, <1>c, <1>d, ReturnGood DEF ExecutionHealth
  <2>3. QED
    BY <1>6, <2>1, <2>2
       DEF ExecutionHealth, BreakersGood, GoodBreaker, CountersGood, GoodCounters, CycleGood
<1>7. ASSUME NEW s \in Services, RegisterService(t, s) PROVE Parts'
  <2>1. HealthGood'
    BY <1>7, <1>t, <1>b, <1>c, <1>d DEF RegisterService, HealthGood, Statuses
  <2>2. TasksGood'
    BY <1>7, <1>t, <1>b, <1>c, <1>d, StartGood DEF RegisterService, Stages, Statuses
  <2>3. QED
    BY <1>7, <2>1, <2>2
       DEF RegisterService, BreakersGood, GoodBreaker, CountersGood, GoodCounters, CycleGood
<1>8. ASSUME RegisterBreaker(t) PROVE Parts'
  <2>1. BreakersGood'
    BY <1>8, <1>t, <1>b, <1>c, <1>d, SetBreakerGood DEF RegisterBreaker
  <2>2. TasksGood'
    BY <1>8, <1>t, <1>b, <1>c, <1>d, ReturnGood DEF RegisterBreaker
  <2>3. QED
    BY <1>8, <2>1, <2>2
       DEF RegisterBreaker, CountersGood, GoodCounters, HealthGood, CycleGood
<1>9. ASSUME NEW s \in Services, RecoverService(t, s) PROVE Parts'
  <2>1. TasksGood'
    BY <1>9, <1>t, <1>b, <1>c, <1>d, StartGood DEF RecoverService, Stages, Statuses
  <2>2. QED
    BY <1>9, <2>1
       DEF RecoverService, BreakersGood, GoodBreaker, CountersGood, GoodCounters, HealthGood, CycleGood
<1>10. ASSUME RecoverReadBreaker(t) PROVE Parts'
  <2>1. TasksGood'
    BY <1>10, <1>t, <1>b, <1>c, <1>d DEF RecoverReadBreaker, TasksGood, Tasks, Stages
  <2>2. QED
    BY <1>10, <2>1
       DEF RecoverReadBreaker, BreakersGood, GoodBreaker, CountersGood, GoodCounters, HealthGood, CycleGood
<1>11. ASSUME RecoverReadCounters(t) PROVE Parts'
  <2>1. TasksGood'
    BY <1>11, <1>t, <1>b, <1>c, <1>d, GoToGood, ReturnGood DEF RecoverReadCounters, Stages
  <2>2. QED
    BY <1>11, <2>1
       DEF RecoverReadCounters, BreakersGood, GoodBreaker, CountersGood, GoodCounters, HealthGood, CycleGood
<1>12. ASSUME RecoverResetCounters(t) PROVE Parts'
  <2>1. CountersGood'
    BY <1>12, <1>t, <1>b, <1>c, <1>d DEF RecoverResetCounters, CountersGood, GoodCounters, ZeroCounters, Counters
  <2>2. TasksGood'
    BY <1>12, <1>t, <1>b, <1>c, <1>d, GoToGood DEF RecoverResetCounters, Stages
  <2>3. QED
    BY <1>12, <2>1, <2>2
       DEF RecoverResetCounters, BreakersGood, GoodBreaker, HealthGood, CycleGood
<1>13. ASSUME RecoverResetBreaker(t) PROVE Parts'
  <2>1. BreakersGood'
    BY <1>13, <1>t, <1>b, <1>c, <1>d, ResetGood, SetBreakerGood DEF RecoverResetBreaker
  <2>2. TasksGood'
    BY <1>13, <1>t, <1>b, <1>c, <1>d, GoToGood DEF RecoverResetBreaker, Stages
  <2>3. QED
    BY <1>13, <2>1, <2>2
       DEF RecoverResetBreaker, CountersGood, GoodCounters, HealthGood, CycleGood
<1>14. ASSUME RecoverResetHealth(t) PROVE Parts'
  <2>1. HealthGood'
    BY <1>14, <1>t, <1>b, <1>c, <1>d DEF RecoverResetHealth, HealthGood, Statuses
  <2>2. TasksGood'
    BY <1>14, <1>t, <1>b, <1>c, <1>d, ReturnGood DEF RecoverResetHealth
  <2>3. QED
    BY <1>14, <2>1, <2>2
       DEF RecoverResetHealth, BreakersGood, GoodBreaker, CountersGood, GoodCounters, CycleGood
<1>15. ASSUME NEW s \in Services, ReinitializeComponent(t, s) PROVE Parts'
  <2>1. TasksGood'
    BY <1>15, <1>t, <1>b, <1>c, <1>d, StartGood DEF ReinitializeComponent, Stages, Statuses
  <2>2. QED
    BY <1>15, <2>1
       DEF ReinitializeComponent, BreakersGood, GoodBreaker, CountersGood, GoodCounters, HealthGood, CycleGood
<1>16. ASSUME ReinitBreaker(t) PROVE Parts'
  <2>1. BreakersGood'
    BY <1>16, <1>t, <1>b, <1>c, <1>d, ResetGood, SetBreakerGood DEF ReinitBreaker
  <2>2. TasksGood'
    BY <1>16, <1>t, <1>b, <1>c, <1>d, ReturnGood DEF ReinitBreaker
  <2>3. QED
    BY <1>16, <2>1, <2>2
       DEF ReinitBreaker, CountersGood, GoodCounters, HealthGood, CycleGood
<1> QED
  BY <1>1, <1>2, <1>3, <1>4, <1>5, <1>6, <1>7, <1>8, <1>9, <1>10, <1>11, <1>12, <1>13, <1>14, <1>15, <1>16 DEF CallerStep

\* The operations that only take the breaker map's lock.
LEMMA BreakerStepGood ==
  ASSUME Parts, NEW s \in Services, BreakerStep(s)
  PROVE  Parts'
<1> USE DEF Parts
<1>b. GoodBreaker(breakers[s])
  BY DEF BreakersGood
<1>n. GoodBreaker(NewBreaker)
  BY ThresholdAssumption, RecoveryAssumption
     DEF GoodBreaker, SoundBreaker, NewBreaker, Breaker, States
<1>u. CountersGood' /\ HealthGood' /\ TasksGood' /\ CycleGood'
  BY DEF BreakerStep, RegisterCircuitBreaker, RecordFailure, RecordSuccess, IsAvailable,
         CountersGood, GoodCounters, HealthGood, TasksGood, CycleGood
<1>1. CASE RegisterCircuitBreaker(s)
  BY <1>1, <1>n, <1>u, SetBreakerGood DEF RegisterCircuitBreaker
<1>2. CASE RecordFailure(s)
  <2>1. GoodBreaker(TransitionBreaker(breakers[s], FALSE))
    BY <1>2, <1>b, TransitionGood DEF RecordFailure
  <2>2. QED
    BY <1>2, <1>u, <2>1, SetBreakerGood DEF RecordFailure, TransitionBreaker
<1>3. CASE RecordSuccess(s)
  <2>1. GoodBreaker(TransitionBreaker(breakers[s], TRUE))
    BY <1>3, <1>b, TransitionGood DEF RecordSuccess
  <2>2. QED
    BY <1>3, <1>u, <2>1, SetBreakerGood DEF RecordSuccess, TransitionBreaker
<1>4. CASE IsAvailable(s)
  BY <1>4, <1>b, <1>u, ProbeGood, SetBreakerGood DEF IsAvailable
<1> QED
  BY <1>1, <1>2, <1>3, <1>4 DEF BreakerStep

\* The steps of the background health-check cycle.
LEMMA CycleStepGood ==
  ASSUME Parts, CycleStep
  PROVE  Parts'
<1> USE DEF Parts
<1>b. \A s \in Services : GoodBreaker(breakers[s])
  BY DEF BreakersGood
<1>u. CountersGood' /\ HealthGood' /\ TasksGood'
  BY DEF CycleStep, HealthCheckCycle, CycleProbe, CycleAssess, CycleCollect,
         ClearCircuitBreaker, CycleDone, CountersGood, GoodCounters, HealthGood, TasksGood
<1>y. CycleGood'
  <2> USE DEF CycleGood, CycleStages
  <2>1. CASE HealthCheckCycle
    BY <2>1 DEF HealthCheckCycle, Registered
  <2>2. ASSUME NEW s \in Services, CycleProbe(s) PROVE CycleGood'
    BY <2>2 DEF CycleProbe
  <2>3. CASE CycleAssess
    BY <2>3 DEF CycleAssess
  <2>4. CASE CycleCollect
    BY <2>4 DEF CycleCollect
  <2>5. ASSUME NEW s \in Services, NEW reachable \in BOOLEAN, ClearCircuitBreaker(s, reachable)
        PROVE CycleGood'
    BY <2>5 DEF ClearCircuitBreaker
  <2>6. CASE CycleDone
    BY <2>6 DEF CycleDone
  <2>7. QED
    BY <2>1, <2>2, <2>3, <2>4, <2>5, <2>6 DEF CycleStep
<1>1. ASSUME NEW s \in Services, CycleProbe(s) PROVE BreakersGood'
  BY <1>1, <1>b, ProbeGood, SetBreakerGood DEF CycleProbe
<1>2. ASSUME NEW s \in Services, NEW reachable \in BOOLEAN, ClearCircuitBreaker(s, reachable)
      PROVE BreakersGood'
  BY <1>2, <1>b, ResetGood, SetBreakerGood DEF ClearCircuitBreaker
<1>3. ASSUME UNCHANGED breakers PROVE BreakersGood'
  BY <1>3 DEF BreakersGood, GoodBreaker
<1> QED
  BY <1>u, <1>y, <1>1, <1>2, <1>3
     DEF CycleStep, HealthCheckCycle, CycleAssess, CycleCollect, CycleDone

\* The passing of time disturbs nothing but the ages of the breakers.
LEMMA TickGood ==
  ASSUME Parts, Tick
  PROVE  Parts'
<1> USE DEF Parts
<1>1. \A s \in Services : GoodBreaker(Older(breakers[s]))
  BY OlderGood DEF BreakersGood
<1>2. BreakersGood'
  BY <1>1 DEF Tick, BreakersGood, GoodBreaker
<1>3. QED
  BY <1>2 DEF Tick, CountersGood, GoodCounters, HealthGood, TasksGood, CycleGood

\* Every critical section of every operation preserves the invariant.
LEMMA InvNext == Inv /\ [Next]_vars => Inv'
<1>0. (Inv <=> Parts) /\ (Inv' <=> Parts')
  BY InvParts, PTL DEF Parts
<1> SUFFICES ASSUME Parts, [Next]_vars PROVE Parts'
  BY <1>0
<1>1. CASE Next
  BY <1>1, CallerGood, BreakerStepGood, CycleStepGood, TickGood DEF Next
<1>2. CASE UNCHANGED vars
  BY <1>2 DEF vars, Parts, BreakersGood, GoodBreaker, CountersGood, GoodCounters,
              HealthGood, TasksGood, CycleGood
<1>3. QED
  BY <1>1, <1>2

\* The inductive invariant holds throughout.
THEOREM Invariance == Spec => []Inv
BY InvInit, InvNext, PTL DEF Spec

\* Every variable keeps its type under all interleavings of critical sections.
THEOREM TypeCorrect == Spec => []TypeOK
<1>1. Inv => TypeOK
  BY DEF Inv
<1>2. QED
  BY <1>1, Invariance, PTL

\* A breaker is tripped exactly at its threshold, for every threshold the
\* configuration may hold, zero included.
THEOREM Tripping == Spec => []TripsAtThreshold
<1>1. Inv => TripsAtThreshold
  BY DEF Inv
<1>2. QED
  BY <1>1, Invariance, PTL

\* The counts a status is computed from are consistent.
THEOREM CountersConsistent == Spec => []CountersSane
<1>1. Inv => CountersSane
  BY DEF Inv
<1>2. QED
  BY <1>1, Invariance, PTL

\* No service is ever classified Degraded.
THEOREM DegradedIsDead == Spec => []NeverDegraded
<1>1. Inv => NeverDegraded
  BY DEF Inv
<1>2. QED
  BY <1>1, Invariance, PTL

-----------------------------------------------------------------------------
(* Legal steps of a breaker *)

Legal == \A s \in Services : LegalChange(breakers[s], breakers'[s], Resetting(s))

\* transition_breaker never closes an open breaker, whatever the outcome.
LEMMA TransitionLegal ==
  ASSUME NEW cb, GoodBreaker(cb), NEW ok \in BOOLEAN, NEW r \in BOOLEAN
  PROVE  LegalChange(cb, TransitionBreaker(OrNew(cb), ok), r)
<1> USE ThresholdAssumption, RecoveryAssumption
    DEF GoodBreaker, Breaker, States, LegalChange, TransitionBreaker, OrNew, NewBreaker
<1>1. CASE cb.state = "Open"
  BY <1>1 DEF OnSuccess, OnFailure
<1>2. CASE cb.state = "HalfOpen"
  BY <1>2 DEF OnSuccess, OnFailure, ResetBreaker
<1>3. CASE cb.state = "Closed"
  BY <1>3 DEF OnSuccess, OnFailure
<1>4. CASE cb.state = "Absent"
  BY <1>4
<1>5. QED
  BY <1>1, <1>2, <1>3, <1>4

\* is_available lets an open breaker through only when the timeout has elapsed.
LEMMA ProbeLegal ==
  ASSUME NEW cb, GoodBreaker(cb), NEW r \in BOOLEAN
  PROVE  LegalChange(cb, ProbeBreaker(cb), r)
BY RecoveryAssumption
   DEF GoodBreaker, Breaker, States, LegalChange, ProbeBreaker

\* A reset is a change BreakerSteps allows.
LEMMA ResetLegal ==
  ASSUME NEW cb, NEW r, r
  PROVE  LegalChange(cb, ResetBreaker, r)
BY DEF LegalChange, ResetBreaker

\* Leaving a breaker alone is a change BreakerSteps allows.
LEMMA SameLegal ==
  ASSUME NEW cb, GoodBreaker(cb), NEW r \in BOOLEAN
  PROVE  LegalChange(cb, cb, r) /\ LegalChange(cb, OrNew(cb), r) /\ LegalChange(cb, Older(cb), r)
<1>1. LegalChange(cb, cb, r)
  BY DEF LegalChange
<1>2. LegalChange(cb, OrNew(cb), r)
  BY DEF LegalChange, OrNew, NewBreaker
<1>3. LegalChange(cb, Older(cb), r)
  BY OlderGood DEF LegalChange
<1>4. QED
  BY <1>1, <1>2, <1>3

\* A step that writes one breaker is legal when that write is.
LEMMA WriteLegal ==
  ASSUME BreakersGood, NEW s \in Services, NEW cb, SetBreaker(s, cb),
         LegalChange(breakers[s], cb, Resetting(s))
  PROVE  Legal
<1>1. breakers'[s] = cb /\ \A r \in Services \ {s} : breakers'[r] = breakers[r]
  BY DEF BreakersGood, SetBreaker
<1>2. \A r \in Services \ {s} : LegalChange(breakers[r], breakers'[r], Resetting(r))
  BY <1>1 DEF LegalChange
<1>3. QED
  BY <1>1, <1>2 DEF Legal

\* Every critical section changes each breaker by a legal change.
LEMMA NextLegal ==
  ASSUME Parts, Next
  PROVE  Legal
<1> USE DEF Parts
<1>b. \A s \in Services : GoodBreaker(breakers[s]) /\ Resetting(s) \in BOOLEAN
  BY DEF BreakersGood, Resetting
<1>t. \A t \in Threads : task[t].svc \in Services /\ task[t].ok \in BOOLEAN
  BY DEF TasksGood, Tasks
<1>0. ASSUME UNCHANGED breakers PROVE Legal
  BY <1>0, <1>b, SameLegal DEF Legal
<1>1. ASSUME NEW t \in Threads, CallerStep(t) PROVE Legal
  <2>1. CASE OutcomeBreaker(t)
    BY <1>b, <1>t, <2>1, TransitionLegal, WriteLegal DEF OutcomeBreaker
  <2>2. ASSUME NEW s \in Services, NEW ok \in BOOLEAN, RecordExecution(t, s, ok) PROVE Legal
    BY <1>b, <2>2, TransitionLegal, WriteLegal DEF RecordExecution
  <2>3. CASE RegisterBreaker(t)
    BY <1>b, <1>t, <2>3, SameLegal, WriteLegal DEF RegisterBreaker
  <2>4. CASE RecoverResetBreaker(t)
    <3>1. Resetting(task[t].svc)
      BY <2>4 DEF RecoverResetBreaker, Resetting
    <3>2. QED
      BY <1>b, <1>t, <2>4, <3>1, ResetLegal, SameLegal, WriteLegal DEF RecoverResetBreaker
  <2>5. CASE ReinitBreaker(t)
    <3>1. Resetting(task[t].svc)
      BY <2>5 DEF ReinitBreaker, Resetting
    <3>2. QED
      BY <1>t, <2>5, <3>1, ResetLegal, WriteLegal DEF ReinitBreaker
  <2>6. QED
    BY <1>0, <1>1, <2>1, <2>2, <2>3, <2>4, <2>5
       DEF CallerStep, RecordOutcome, OutcomeHealth, ExecutionCounters, ExecutionHealth,
           RegisterService, RecoverService, RecoverReadBreaker, RecoverReadCounters,
           RecoverResetCounters, RecoverResetHealth, ReinitializeComponent
<1>2. ASSUME NEW s \in Services, BreakerStep(s) PROVE Legal
  <2>1. CASE RegisterCircuitBreaker(s)
    BY <1>b, <2>1, SameLegal, WriteLegal DEF RegisterCircuitBreaker, OrNew
  <2>2. CASE RecordFailure(s)
    BY <1>b, <2>2, TransitionLegal, WriteLegal DEF RecordFailure, TransitionBreaker, OrNew
  <2>3. CASE RecordSuccess(s)
    BY <1>b, <2>3, TransitionLegal, WriteLegal DEF RecordSuccess, TransitionBreaker, OrNew
  <2>4. CASE IsAvailable(s)
    BY <1>b, <2>4, ProbeLegal, WriteLegal DEF IsAvailable
  <2>5. QED
    BY <1>2, <2>1, <2>2, <2>3, <2>4 DEF BreakerStep
<1>3. ASSUME CycleStep PROVE Legal
  <2>1. ASSUME NEW s \in Services, CycleProbe(s) PROVE Legal
    BY <1>b, <2>1, ProbeLegal, WriteLegal DEF CycleProbe
  <2>2. ASSUME NEW s \in Services, NEW reachable \in BOOLEAN, ClearCircuitBreaker(s, reachable)
        PROVE Legal
    <3>1. reachable => Resetting(s)
      BY <2>2 DEF ClearCircuitBreaker, Resetting
    <3>2. QED
      BY <1>b, <2>2, <3>1, ResetLegal, SameLegal, WriteLegal DEF ClearCircuitBreaker
  <2>3. QED
    BY <1>0, <1>3, <2>1, <2>2
       DEF CycleStep, HealthCheckCycle, CycleAssess, CycleCollect, CycleDone
<1>4. ASSUME Tick PROVE Legal
  BY <1>b, <1>4, SameLegal DEF Tick, Legal
<1>5. QED
  BY <1>1, <1>2, <1>3, <1>4 DEF Next

\* An open breaker is closed by no recorded outcome: only by an explicit reset,
\* and it is half-opened only after its recovery timeout.
THEOREM OpenIsHonoured == Spec => BreakerSteps
<1>1. Inv /\ [Next]_vars => [Legal]_vars
  BY NextLegal, InvParts DEF Parts
<1>2. QED
  BY <1>1, Invariance, PTL DEF Spec, BreakerSteps, Legal
-----------------------------------------------------------------------------
(* Where breaker and health cannot drift *)

\* Caller t is in the middle of an operation on s.
Busy(t, s) == task[t].at # "idle" /\ task[t].svc = s

\* No two operations on one service overlap.
Serial == \A s \in Services : \A t, u \in Threads : Busy(t, s) /\ Busy(u, s) => t = u

HealthAgrees(s) == health[s] # "Absent" => health[s] = StatusOf(counters[s])

BreakerAgrees(s) ==
  breakers[s].state = "Closed" => (breakers[s].failures = 0 <=> counters[s].consec = 0)

\* What holds while t records an outcome of s: one section after the other brings
\* counters, status and breaker up to the outcome.
Underway(t, s) ==
  LET fresh == task[t].ok <=> counters[s].consec = 0
      stored == task[t].status = StatusOf(counters[s])
  IN /\ task[t].at = "outcome_health" => stored /\ fresh
     /\ task[t].at = "outcome_breaker" => HealthAgrees(s) /\ fresh
     /\ task[t].at = "execution_counters" =>
          (breakers[s].state = "Closed" => (breakers[s].failures = 0 <=> task[t].ok))
     /\ task[t].at = "execution_health" => stored /\ BreakerAgrees(s)

\* Service s is in agreement, or one recording is bringing it there.
Agreeing(s) ==
  /\ Quiescent(s) => HealthAgrees(s) /\ BreakerAgrees(s)
  /\ \A t \in Threads : Busy(t, s) => Underway(t, s)

\* A breaker that is closed after an outcome has failures on its count exactly
\* when the outcome was one.
LEMMA TransitionAgrees ==
  ASSUME NEW cb, GoodBreaker(cb), cb.state # "Absent", NEW ok \in BOOLEAN,
         TransitionBreaker(cb, ok).state = "Closed"
  PROVE  TransitionBreaker(cb, ok).failures = 0 <=> ok
<1> USE ThresholdAssumption, RecoveryAssumption
    DEF GoodBreaker, SoundBreaker, Breaker, States, TransitionBreaker
<1>1. CASE cb.state = "Closed"
  BY <1>1 DEF OnSuccess, OnFailure, Bump
<1>2. CASE cb.state = "Open"
  BY <1>2 DEF OnSuccess, OnFailure
<1>3. CASE cb.state = "HalfOpen"
  BY <1>3 DEF OnSuccess, OnFailure, Bump, ResetBreaker
<1>4. QED
  BY <1>1, <1>2, <1>3

\* The counters' run of failures is empty exactly after a success.
LEMMA CountAgrees ==
  ASSUME NEW c \in Counters, NEW ok \in BOOLEAN
  PROVE  ok <=> Count(c, ok).consec = 0
BY DEF Counters, Count

\* The availability check and the passing of time close no breaker and count no
\* failure.
LEMMA ProbeAgrees ==
  ASSUME NEW cb \in Breaker
  PROVE  /\ ProbeBreaker(cb).state = "Closed" => cb.state = "Closed"
         /\ ProbeBreaker(cb).failures = cb.failures
         /\ Older(cb).state = cb.state
         /\ Older(cb).failures = cb.failures
BY RecoveryAssumption DEF ProbeBreaker, Older, Breaker

\* A caller's step on another service, or none at all, leaves s in agreement.
LEMMA ElsewhereAgrees ==
  ASSUME NEW s \in Services, Agreeing(s),
         counters'[s] = counters[s], health'[s] = health[s],
         breakers'[s].state = "Closed" => breakers[s].state = "Closed",
         breakers'[s].failures = breakers[s].failures,
         \A t \in Threads : (task'[t].at # "idle" /\ task'[t].svc = s) \/ Busy(t, s) =>
                              task'[t] = task[t]
  PROVE  Agreeing(s)'
<1>1. HealthAgrees(s) => HealthAgrees(s)'
  BY DEF HealthAgrees
<1>2. BreakerAgrees(s) => BreakerAgrees(s)'
  BY DEF BreakerAgrees
<1>3. Quiescent(s)' => Quiescent(s)
  BY DEF Quiescent, Busy
<1>4. ASSUME NEW t \in Threads, Busy(t, s)' PROVE Busy(t, s) /\ Underway(t, s)'
  <2>1. task'[t] = task[t] /\ Busy(t, s)
    BY <1>4 DEF Busy
  <2>2. Underway(t, s)
    BY <2>1 DEF Agreeing
  <2>3. QED
    BY <1>1, <1>2, <2>1, <2>2 DEF Underway
<1>5. QED
  BY <1>1, <1>2, <1>3, <1>4 DEF Agreeing

\* Caller t alone is at work on s, before or after the step.
LEMMA AloneAgrees ==
  ASSUME NEW s \in Services, NEW t \in Threads,
         \A u \in Threads \ {t} : ~Busy(u, s)',
         Busy(t, s)' => Underway(t, s)',
         ~Busy(t, s)' => HealthAgrees(s)' /\ BreakerAgrees(s)'
  PROVE  Agreeing(s)'
<1>1. Quiescent(s)' => ~Busy(t, s)'
  BY DEF Quiescent, Busy
<1>2. \A u \in Threads : Busy(u, s)' => u = t
  OBVIOUS
<1>3. \A u \in Threads : Busy(u, s)' => Underway(u, s)'
  BY <1>2
<1>4. QED
  BY <1>1, <1>3 DEF Agreeing

\* What the six sections of the two recording paths do to the task of t and to
\* the service q they are about.
Section(t, q) ==
  \/ \E ok \in BOOLEAN : RecordOutcome(t, q, ok) \/ RecordExecution(t, q, ok)
  \/ task[t].svc = q /\ (OutcomeHealth(t) \/ OutcomeBreaker(t))
  \/ task[t].svc = q /\ (ExecutionCounters(t) \/ ExecutionHealth(t))

\* A section touches its own service and its own task only.
LEMMA SectionFrame ==
  ASSUME TypeOK, NEW t \in Threads, NEW q \in Services, Section(t, q)
  PROVE  /\ \A u \in Threads \ {t} : task'[u] = task[u]
         /\ \A s \in Services \ {q} : /\ breakers'[s] = breakers[s]
                                      /\ counters'[s] = counters[s]
                                      /\ health'[s] = health[s]
         /\ Busy(t, q) \/ task[t].at = "idle"
         /\ Busy(t, q)' \/ task'[t].at = "idle"
<1> USE DEF TypeOK, Tasks
<1>1. ASSUME NEW ok \in BOOLEAN, RecordOutcome(t, q, ok)
      PROVE  task'[t].at # "idle" /\ task'[t].svc = q /\ task[t].at = "idle"
  BY <1>1 DEF RecordOutcome, Start
<1>2. ASSUME NEW ok \in BOOLEAN, RecordExecution(t, q, ok)
      PROVE  task'[t].at # "idle" /\ task'[t].svc = q /\ task[t].at = "idle"
  BY <1>2 DEF RecordExecution, Start
<1>3. ASSUME task[t].svc = q, OutcomeHealth(t) \/ ExecutionCounters(t)
      PROVE  task'[t].at # "idle" /\ task'[t].svc = q /\ task[t].at # "idle"
  BY <1>3 DEF OutcomeHealth, ExecutionCounters, GoTo
<1>4. ASSUME task[t].svc = q, OutcomeBreaker(t) \/ ExecutionHealth(t)
      PROVE  task'[t].at = "idle" /\ task[t].at # "idle"
  BY <1>4 DEF OutcomeBreaker, ExecutionHealth, Return, Idle
<1>5. (Busy(t, q) \/ task[t].at = "idle") /\ (Busy(t, q)' \/ task'[t].at = "idle")
  BY <1>1, <1>2, <1>3, <1>4 DEF Section, Busy
<1>6. \A u \in Threads \ {t} : task'[u] = task[u]
  BY DEF Section, RecordOutcome, RecordExecution, OutcomeHealth, OutcomeBreaker,
         ExecutionCounters, ExecutionHealth, Start, GoTo, Return
<1>7. \A s \in Services \ {q} : /\ breakers'[s] = breakers[s]
                                /\ counters'[s] = counters[s]
                                /\ health'[s] = health[s]
  BY DEF Section, RecordOutcome, RecordExecution, OutcomeHealth, OutcomeBreaker,
         ExecutionCounters, ExecutionHealth, SetBreaker
<1>8. QED
  BY <1>5, <1>6, <1>7

\* A section of a recording on s keeps s in agreement, if no other operation on s
\* overlaps with the recording.
LEMMA SectionAgrees ==
  ASSUME Inv, Serial, Serial', NEW t \in Threads, NEW s \in Services, Agreeing(s), Section(t, s)
  PROVE  Agreeing(s)'
<1>i. /\ TypeOK
      /\ GoodBreaker(breakers[s]) /\ counters[s] \in Counters
      /\ task[t] \in Tasks /\ task[t].ok \in BOOLEAN
  BY DEF Inv, TypeOK, TripsAtThreshold, GoodBreaker, Tasks
<1>g. GoodBreaker(OrNew(breakers[s])) /\ OrNew(breakers[s]).state # "Absent"
  BY <1>i, OrNewGood
<1>u. Busy(t, s) => Underway(t, s)
  BY DEF Agreeing
<1>0. \A u \in Threads \ {t} : ~Busy(u, s)'
  <2>1. SUFFICES ASSUME NEW u \in Threads \ {t}, Busy(u, s)' PROVE FALSE
    OBVIOUS
  <2>2. Busy(u, s)
    BY <1>i, <2>1, SectionFrame DEF Busy
  <2>3. ~Busy(t, s) /\ ~Busy(t, s)'
    BY <2>1, <2>2 DEF Serial
  <2>4. task[t].at = "idle" /\ task'[t].at = "idle"
    BY <1>i, <2>3, SectionFrame
  <2>5. QED
    BY <1>i, <2>4 DEF Section, RecordOutcome, RecordExecution, Start, OutcomeHealth,
       OutcomeBreaker, ExecutionCounters, ExecutionHealth, TypeOK
<1>1. ASSUME NEW ok \in BOOLEAN, RecordOutcome(t, s, ok) PROVE Agreeing(s)'
  <2>1. /\ task'[t] = [at |-> "outcome_health", svc |-> s, ok |-> ok,
                       status |-> StatusOf(Count(counters[s], ok))]
        /\ counters'[s] = Count(counters[s], ok)
    BY <1>1, <1>i DEF RecordOutcome, Start, TypeOK
  <2>2. ok <=> counters'[s].consec = 0
    BY <1>i, <2>1, CountAgrees
  <2>3. Busy(t, s)' /\ Underway(t, s)'
    BY <2>1, <2>2 DEF Busy, Underway
  <2>4. QED
    BY <1>0, <2>3, AloneAgrees
<1>2. ASSUME OutcomeHealth(t), task[t].svc = s PROVE Agreeing(s)'
  <2>1. /\ task'[t].at = "outcome_breaker" /\ task'[t].ok = task[t].ok /\ task'[t].svc = s
        /\ health'[s] = task[t].status /\ counters' = counters
    BY <1>2, <1>i DEF OutcomeHealth, GoTo, TypeOK, Tasks
  <2>2. task[t].status = StatusOf(counters[s]) /\ (task[t].ok <=> counters[s].consec = 0)
    BY <1>2, <1>u DEF OutcomeHealth, Busy, Underway
  <2>3. Busy(t, s)' /\ Underway(t, s)'
    BY <2>1, <2>2 DEF Busy, Underway, HealthAgrees
  <2>4. QED
    BY <1>0, <2>3, AloneAgrees
<1>3. ASSUME OutcomeBreaker(t), task[t].svc = s PROVE Agreeing(s)'
  <2>1. /\ task'[t].at = "idle"
        /\ breakers'[s] = TransitionBreaker(OrNew(breakers[s]), task[t].ok)
        /\ UNCHANGED <<counters, health>>
    BY <1>3, <1>i DEF OutcomeBreaker, Return, Idle, SetBreaker, TypeOK
  <2>2. HealthAgrees(s) /\ (task[t].ok <=> counters[s].consec = 0)
    BY <1>3, <1>u DEF OutcomeBreaker, Busy, Underway
  <2>3. BreakerAgrees(s)'
    BY <1>g, <1>i, <2>1, <2>2, TransitionAgrees DEF BreakerAgrees
  <2>4. ~Busy(t, s)' /\ HealthAgrees(s)'
    BY <2>1, <2>2 DEF Busy, HealthAgrees
  <2>5. QED
    BY <1>0, <2>3, <2>4, AloneAgrees
<1>4. ASSUME NEW ok \in BOOLEAN, RecordExecution(t, s, ok) PROVE Agreeing(s)'
  <2>1. /\ task'[t] = [at |-> "execution_counters", svc |-> s, ok |-> ok, status |-> "Healthy"]
        /\ breakers'[s] = TransitionBreaker(OrNew(breakers[s]), ok)
    BY <1>4, <1>i DEF RecordExecution, Start, SetBreaker, TypeOK
  <2>2. breakers'[s].state = "Closed" => (breakers'[s].failures = 0 <=> ok)
    BY <1>g, <2>1, TransitionAgrees
  <2>3. Busy(t, s)' /\ Underway(t, s)'
    BY <2>1, <2>2 DEF Busy, Underway
  <2>4. QED
    BY <1>0, <2>3, AloneAgrees
<1>5. ASSUME ExecutionCounters(t), task[t].svc = s PROVE Agreeing(s)'
  <2>1. /\ task'[t].at = "execution_health" /\ task'[t].svc = s
        /\ task'[t].status = StatusOf(counters'[s])
        /\ counters'[s] = Count(counters[s], task[t].ok) /\ breakers' = breakers
    BY <1>5, <1>i DEF ExecutionCounters, TypeOK, Tasks
  <2>2. task[t].ok <=> counters'[s].consec = 0
    BY <1>i, <2>1, CountAgrees
  <2>3. breakers[s].state = "Closed" => (breakers[s].failures = 0 <=> task[t].ok)
    BY <1>5, <1>u DEF ExecutionCounters, Busy, Underway
  <2>4. BreakerAgrees(s)'
    BY <2>1, <2>2, <2>3 DEF BreakerAgrees
  <2>5. Busy(t, s)' /\ Underway(t, s)'
    BY <2>1, <2>4 DEF Busy, Underway
  <2>6. QED
    BY <1>0, <2>5, AloneAgrees
<1>6. ASSUME ExecutionHealth(t), task[t].svc = s PROVE Agreeing(s)'
  <2>1. /\ task'[t].at = "idle" /\ health'[s] = task[t].status
        /\ UNCHANGED <<counters, breakers>>
    BY <1>6, <1>i DEF ExecutionHealth, Return, Idle, TypeOK
  <2>2. task[t].status = StatusOf(counters[s]) /\ BreakerAgrees(s)
    BY <1>6, <1>u DEF ExecutionHealth, Busy, Underway
  <2>3. ~Busy(t, s)' /\ HealthAgrees(s)' /\ BreakerAgrees(s)'
    BY <2>1, <2>2 DEF Busy, HealthAgrees, BreakerAgrees
  <2>4. QED
    BY <1>0, <2>3, AloneAgrees
<1>7. QED
  BY <1>1, <1>2, <1>3, <1>4, <1>5, <1>6 DEF Section

\* Every step of RecordSpec keeps every service in agreement.
LEMMA AgreeingNext ==
  ASSUME Inv, Serial, Serial', [RecordNext]_vars, NEW s \in Services, Agreeing(s)
  PROVE  Agreeing(s)'
<1>i. TypeOK
  BY DEF Inv
<1>1. ASSUME NEW t \in Threads, NEW q \in Services, Section(t, q) PROVE Agreeing(s)'
  <2>1. CASE q = s
    BY <1>1, <2>1, SectionAgrees
  <2>2. CASE q # s
    <3>1. /\ breakers'[s] = breakers[s] /\ counters'[s] = counters[s] /\ health'[s] = health[s]
          /\ ~Busy(t, s) /\ ~Busy(t, s)'
          /\ \A u \in Threads \ {t} : task'[u] = task[u]
      BY <1>1, <1>i, <2>2, SectionFrame DEF Busy
    <3>2. QED
      BY <3>1, ElsewhereAgrees DEF Busy
  <2>3. QED
    BY <2>1, <2>2
<1>2. ASSUME NEW q \in Services, IsAvailable(q) PROVE Agreeing(s)'
  <2>1. breakers[s] \in Breaker /\ UNCHANGED <<counters, health, task>>
    BY <1>2, <1>i DEF IsAvailable, TypeOK
  <2>2. breakers'[s] = breakers[s] \/ breakers'[s] = ProbeBreaker(breakers[s])
    BY <1>2, <1>i DEF IsAvailable, SetBreaker, TypeOK
  <2>3. QED
    BY <2>1, <2>2, ProbeAgrees, ElsewhereAgrees
<1>3. CASE Tick
  <2>1. breakers[s] \in Breaker /\ breakers'[s] = Older(breakers[s])
        /\ UNCHANGED <<counters, health, task>>
    BY <1>3, <1>i DEF Tick, TypeOK
  <2>2. QED
    BY <2>1, ProbeAgrees, ElsewhereAgrees
<1>4. CASE UNCHANGED vars
  BY <1>4, ElsewhereAgrees DEF vars
<1>5. QED
  <2>1. ASSUME NEW t \in Threads,
               OutcomeHealth(t) \/ OutcomeBreaker(t) \/ ExecutionCounters(t) \/ ExecutionHealth(t)
        PROVE  task[t].svc \in Services /\ Section(t, task[t].svc)
    BY <1>i, <2>1 DEF Section, TypeOK, Tasks
  <2>2. ASSUME NEW t \in Threads, NEW q \in Services, NEW ok \in BOOLEAN,
               RecordOutcome(t, q, ok) \/ RecordExecution(t, q, ok)
        PROVE  Section(t, q)
    BY <2>2 DEF Section
  <2>3. QED
    BY <1>1, <1>2, <1>3, <1>4, <2>1, <2>2 DEF RecordNext

\* "Breaker and health can never drift" (engine.rs:245) is true, of the breaker's
\* count and of the stored status, as long as no two recordings of one service
\* overlap, however many callers record other services meanwhile: the run
\* resilience_drift has two that do.
THEOREM SerialNeverDrifts == RecordSpec /\ []Serial => [](NeverDrift /\ StatusCurrent)
<1> DEFINE AllAgree == \A s \in Services : Agreeing(s)
<1>1. RecordSpec => []Inv
  <2>1. [RecordNext]_vars => [Next]_vars
    BY DEF RecordNext, Next, CallerStep, BreakerStep
  <2>2. QED
    BY <2>1, Invariance, PTL DEF RecordSpec, Spec
<1>2. Init => AllAgree
  BY DEF Init, Agreeing, Idle, Busy, HealthAgrees, BreakerAgrees, NoBreaker
<1>3. Inv /\ Serial /\ Serial' /\ [RecordNext]_vars /\ AllAgree => AllAgree'
  BY AgreeingNext
<1>4. AllAgree => NeverDrift /\ StatusCurrent
  BY DEF Agreeing, NeverDrift, StatusCurrent, HealthAgrees, BreakerAgrees
<1> HIDE DEF AllAgree
<1>5. QED
  BY <1>1, <1>2, <1>3, <1>4, PTL DEF RecordSpec
=============================================================================
