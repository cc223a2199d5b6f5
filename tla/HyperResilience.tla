--------------------------- MODULE HyperResilience ---------------------------
(***************************************************************************)
(* The hyper-resilience engine                                             *)
(* (src/resilience/hyper_resilience/engine.rs): circuit breakers, outcome  *)
(* counters and health status of every service, each behind a mutex of its *)
(* own, updated by concurrent callers and by one background health-check   *)
(* task.                                                                   *)
(*                                                                         *)
(* An action is one critical section. An operation that releases one mutex *)
(* before it takes the next is a sequence of actions, so that steps of     *)
(* other callers may come in between; what it carries from one section to  *)
(* the next is in task[t].                                                 *)
(*                                                                         *)
(* Left out as data no decision reads: latency averages, rates as numbers, *)
(* timestamps other than the breaker's age, failure-mode history, the      *)
(* reported metrics. Failover groups have no effect on breakers.           *)
(***************************************************************************)
EXTENDS CircuitBreaker, FiniteSets

CONSTANTS
  Services,     \* breaker / service names
  Addressable,  \* the names of the form host:port, which a TCP probe can reach
  Threads,      \* concurrent callers of the engine
  SelfHealing,  \* ResilienceConfig.self_healing_enabled
  MaxRequests   \* bound: outcomes recorded for a service between two resets

ASSUME ServicesAssumption ==
  /\ IsFiniteSet(Services)
  /\ Services # {}
  /\ Addressable \subseteq Services
  /\ SelfHealing \in BOOLEAN
  /\ MaxRequests \in Nat

VARIABLES
  breakers,  \* circuit_breakers: service -> breaker
  counters,  \* service_counters: service -> counts (absent is all zero)
  health,    \* service_health: service -> status
  task,      \* what each caller is in the middle of
  cycle      \* the background health-check task

vars == <<breakers, counters, health, task, cycle>>

Counters == [total : Nat, ok : Nat, consec : Nat]
ZeroCounters == [total |-> 0, ok |-> 0, consec |-> 0]

Statuses == {"Absent", "Healthy", "Degraded", "Unhealthy"}

\* Where a caller stands: the critical section it takes next.
Stages ==
  {"idle", "outcome_health", "outcome_breaker",
   "execution_counters", "execution_health", "register_breaker",
   "recover_breaker", "recover_counters",
   "reset_counters", "reset_breaker", "reset_health", "reinit_breaker"}

\* ok is the recorded outcome, or "healthy so far" while recovering; status is
\* the status computed under the counters lock and not yet written.
Tasks == [at : Stages, svc : Services, ok : BOOLEAN, status : Statuses]

Idle ==
  [at |-> "idle", svc |-> CHOOSE s \in Services : TRUE, ok |-> TRUE, status |-> "Healthy"]

CycleStages == {"sleep", "probe", "collect", "heal"}

Registered == {s \in Services : breakers[s].state # "Absent"}
OpenOnes == {s \in Services : breakers[s].state = "Open"}

TypeOK ==
  /\ breakers \in [Services -> Breaker]
  /\ counters \in [Services -> Counters]
  /\ health \in [Services -> Statuses]
  /\ task \in [Threads -> Tasks]
  /\ cycle \in [at : CycleStages, names : SUBSET Services, todo : SUBSET Services]

Init ==
  /\ breakers = [s \in Services |-> NoBreaker]
  /\ counters = [s \in Services |-> ZeroCounters]
  /\ health = [s \in Services |-> "Absent"]
  /\ task = [t \in Threads |-> Idle]
  /\ cycle = [at |-> "sleep", names |-> {}, todo |-> {}]

-----------------------------------------------------------------------------
(* Steps over one breaker or one task *)

SetBreaker(s, cb) == breakers' = [breakers EXCEPT ![s] = cb]

GoTo(t, stage) == task' = [task EXCEPT ![t].at = stage]

Return(t) == task' = [task EXCEPT ![t] = Idle]

Start(t, stage, s, ok, status) ==
  /\ task[t].at = "idle"
  /\ task' = [task EXCEPT ![t] =
                [at |-> stage, svc |-> s, ok |-> ok, status |-> status]]

\* Mutation: a success takes one failure off the run instead of ending it.
CountDecrements(c, ok) ==
  [total  |-> c.total + 1,
   ok     |-> IF ok THEN c.ok + 1 ELSE c.ok,
   consec |-> IF ok THEN c.consec - 1 ELSE c.consec + 1]

Count(c, ok) ==
  [total  |-> c.total + 1,
   ok     |-> IF ok THEN c.ok + 1 ELSE c.ok,
   consec |-> IF ok THEN 0 ELSE c.consec + 1]

\* Mutation: an error-rate threshold of one half.
StatusOfTolerant(c) ==
  IF (c.consec > 0 /\ c.consec >= Threshold) \/ 2 * (c.total - c.ok) > c.total
  THEN "Unhealthy"
  ELSE IF 10 * c.ok < 8 * c.total THEN "Degraded" ELSE "Healthy"

\* The error rate is (total - ok) / total, raised to at least one half once the
\* consecutive failures reach the threshold; above 0.1 the service is
\* Unhealthy, else below a success rate of 0.8 it is Degraded.
StatusOf(c) ==
  IF \/ c.consec > 0 /\ c.consec >= Threshold
     \/ 10 * (c.total - c.ok) > c.total
  THEN "Unhealthy"
  ELSE IF 10 * c.ok < 8 * c.total THEN "Degraded" ELSE "Healthy"

-----------------------------------------------------------------------------
(* record_outcome: counters, then health, then breaker *)

RecordOutcome(t, s, ok) ==
  LET c == Count(counters[s], ok) IN
  /\ counters[s].total < MaxRequests
  /\ Start(t, "outcome_health", s, ok, StatusOf(c))
  /\ counters' = [counters EXCEPT ![s] = c]
  /\ UNCHANGED <<breakers, health, cycle>>

OutcomeHealth(t) ==
  /\ task[t].at = "outcome_health"
  /\ health' = [health EXCEPT ![task[t].svc] = task[t].status]
  /\ GoTo(t, "outcome_breaker")
  /\ UNCHANGED <<breakers, counters, cycle>>

OutcomeBreaker(t) ==
  LET s == task[t].svc IN
  /\ task[t].at = "outcome_breaker"
  /\ SetBreaker(s, TransitionBreaker(OrNew(breakers[s]), task[t].ok))
  /\ Return(t)
  /\ UNCHANGED <<counters, health, cycle>>

(* record_execution: breaker, then counters, then health *)

RecordExecution(t, s, ok) ==
  /\ counters[s].total < MaxRequests
  /\ Start(t, "execution_counters", s, ok, "Healthy")
  /\ SetBreaker(s, TransitionBreaker(OrNew(breakers[s]), ok))
  /\ UNCHANGED <<counters, health, cycle>>

ExecutionCounters(t) ==
  LET s == task[t].svc
      c == Count(counters[s], task[t].ok) IN
  /\ task[t].at = "execution_counters"
  /\ counters' = [counters EXCEPT ![s] = c]
  /\ task' = [task EXCEPT ![t].at = "execution_health", ![t].status = StatusOf(c)]
  /\ UNCHANGED <<breakers, health, cycle>>

ExecutionHealth(t) ==
  /\ task[t].at = "execution_health"
  /\ health' = [health EXCEPT ![task[t].svc] = task[t].status]
  /\ Return(t)
  /\ UNCHANGED <<breakers, counters, cycle>>

-----------------------------------------------------------------------------
(* Operations that take the breaker map's lock only *)

RegisterCircuitBreaker(s) ==
  /\ breakers[s].state = "Absent"
  /\ SetBreaker(s, NewBreaker)
  /\ UNCHANGED <<counters, health, task, cycle>>

RecordFailure(s) ==
  /\ breakers[s].state # "Absent"
  /\ SetBreaker(s, OnFailure(breakers[s]))
  /\ UNCHANGED <<counters, health, task, cycle>>

RecordSuccess(s) ==
  /\ breakers[s].state # "Absent"
  /\ SetBreaker(s, OnSuccess(breakers[s]))
  /\ UNCHANGED <<counters, health, task, cycle>>

IsAvailable(s) ==
  /\ breakers[s].state # "Absent"
  /\ SetBreaker(s, ProbeBreaker(breakers[s]))
  /\ UNCHANGED <<counters, health, task, cycle>>

-----------------------------------------------------------------------------
(* register_service: health, counters (or_default), then breaker *)

RegisterService(t, s) ==
  /\ Start(t, "register_breaker", s, TRUE, "Healthy")
  /\ health' = [health EXCEPT ![s] = IF @ = "Absent" THEN "Healthy" ELSE @]
  /\ UNCHANGED <<breakers, counters, cycle>>

RegisterBreaker(t) ==
  LET s == task[t].svc IN
  /\ task[t].at = "register_breaker"
  /\ SetBreaker(s, OrNew(breakers[s]))
  /\ Return(t)
  /\ UNCHANGED <<counters, health, cycle>>

(* recover_service: three reads, then three resets, each under its own lock *)

RecoverService(t, s) ==
  /\ health[s] # "Absent"
  /\ Start(t, "recover_breaker", s, health[s] = "Healthy", "Healthy")
  /\ UNCHANGED <<breakers, counters, health, cycle>>

RecoverReadBreaker(t) ==
  /\ task[t].at = "recover_breaker"
  /\ task' = [task EXCEPT
                ![t].at = "recover_counters",
                ![t].ok = @ /\ breakers[task[t].svc].state \in {"Absent", "Closed"}]
  /\ UNCHANGED <<breakers, counters, health, cycle>>

RecoverReadCounters(t) ==
  /\ task[t].at = "recover_counters"
  /\ IF task[t].ok /\ counters[task[t].svc].consec = 0
     THEN Return(t) ELSE GoTo(t, "reset_counters")
  /\ UNCHANGED <<breakers, counters, health, cycle>>

\* Mutation: the reset forgets the successes.
RecoverKeepsSuccesses(t) ==
  /\ task[t].at = "reset_counters"
  /\ counters' = [counters EXCEPT ![task[t].svc].total = 0, ![task[t].svc].consec = 0]
  /\ GoTo(t, "reset_breaker")
  /\ UNCHANGED <<breakers, health, cycle>>

RecoverResetCounters(t) ==
  /\ task[t].at = "reset_counters"
  /\ counters' = [counters EXCEPT ![task[t].svc] = ZeroCounters]
  /\ GoTo(t, "reset_breaker")
  /\ UNCHANGED <<breakers, health, cycle>>

RecoverResetBreaker(t) ==
  LET s == task[t].svc IN
  /\ task[t].at = "reset_breaker"
  /\ SetBreaker(s, IF breakers[s].state = "Absent"
                   THEN breakers[s] ELSE ResetBreaker)
  /\ GoTo(t, "reset_health")
  /\ UNCHANGED <<counters, health, cycle>>

RecoverResetHealth(t) ==
  /\ task[t].at = "reset_health"
  /\ health' = [health EXCEPT ![task[t].svc] = "Healthy"]
  /\ Return(t)
  /\ UNCHANGED <<breakers, counters, cycle>>

(* execute_healing(ReinitializeComponent): after the TCP probe, whose result it
   ignores, the breaker is reset *)

ReinitializeComponent(t, s) ==
  /\ breakers[s].state # "Absent"
  /\ Start(t, "reinit_breaker", s, TRUE, "Healthy")
  /\ UNCHANGED <<breakers, counters, health, cycle>>

ReinitBreaker(t) ==
  LET s == task[t].svc IN
  /\ task[t].at = "reinit_breaker"
  /\ SetBreaker(s, ResetBreaker)
  /\ Return(t)
  /\ UNCHANGED <<counters, health, cycle>>

-----------------------------------------------------------------------------
(* health_check_cycle, run for ever by the task start_health_checks spawns *)

HealthCheckCycle ==
  /\ cycle.at = "sleep"
  /\ cycle' = [at |-> "probe", names |-> Registered, todo |-> Registered]
  /\ UNCHANGED <<breakers, counters, health, task>>

CycleProbe(s) ==
  /\ cycle.at = "probe"
  /\ s \in cycle.todo
  /\ SetBreaker(s, ProbeBreaker(breakers[s]))
  /\ cycle' = [cycle EXCEPT !.todo = @ \ {s}]
  /\ UNCHANGED <<counters, health, task>>

\* All probes joined: system_health() counts the open breakers and decides
\* whether this cycle heals.
CycleAssess ==
  /\ cycle.at = "probe"
  /\ cycle.todo = {}
  /\ cycle' =
       [cycle EXCEPT !.at =
          IF /\ AtLeastConstrained(Cardinality(OpenOnes), Cardinality(Registered))
             /\ SelfHealing
          THEN "collect" ELSE "sleep"]
  /\ UNCHANGED <<breakers, counters, health, task>>

CycleCollect ==
  /\ cycle.at = "collect"
  /\ cycle' = [cycle EXCEPT !.at = "heal", !.todo = cycle.names \cap OpenOnes]
  /\ UNCHANGED <<breakers, counters, health, task>>

\* execute_healing(ClearCircuitBreaker) resumes after its TCP probe: the breaker
\* is cleared only when the probe connected.
ClearCircuitBreaker(s, reachable) ==
  /\ cycle.at = "heal"
  /\ s \in cycle.todo
  /\ reachable => s \in Addressable
  /\ SetBreaker(s, IF reachable THEN ResetBreaker ELSE breakers[s])
  /\ cycle' = [cycle EXCEPT !.todo = @ \ {s}]
  /\ UNCHANGED <<counters, health, task>>

CycleDone ==
  /\ cycle.at = "heal"
  /\ cycle.todo = {}
  /\ cycle' = [cycle EXCEPT !.at = "sleep"]
  /\ UNCHANGED <<breakers, counters, health, task>>

CycleStep ==
  \/ HealthCheckCycle
  \/ \E s \in Services : CycleProbe(s)
  \/ CycleAssess
  \/ CycleCollect
  \/ \E s \in Services, reachable \in BOOLEAN : ClearCircuitBreaker(s, reachable)
  \/ CycleDone

Tick ==
  /\ breakers' = [s \in Services |-> Older(breakers[s])]
  /\ UNCHANGED <<counters, health, task, cycle>>

-----------------------------------------------------------------------------
CallerStep(t) ==
  \/ \E s \in Services, ok \in BOOLEAN : RecordOutcome(t, s, ok)
  \/ OutcomeHealth(t)
  \/ OutcomeBreaker(t)
  \/ \E s \in Services, ok \in BOOLEAN : RecordExecution(t, s, ok)
  \/ ExecutionCounters(t)
  \/ ExecutionHealth(t)
  \/ \E s \in Services : RegisterService(t, s)
  \/ RegisterBreaker(t)
  \/ \E s \in Services : RecoverService(t, s)
  \/ RecoverReadBreaker(t)
  \/ RecoverReadCounters(t)
  \/ RecoverResetCounters(t)
  \/ RecoverResetBreaker(t)
  \/ RecoverResetHealth(t)
  \/ \E s \in Services : ReinitializeComponent(t, s)
  \/ ReinitBreaker(t)

BreakerStep(s) ==
  \/ RegisterCircuitBreaker(s)
  \/ RecordFailure(s)
  \/ RecordSuccess(s)
  \/ IsAvailable(s)

Next ==
  \/ \E t \in Threads : CallerStep(t)
  \/ \E s \in Services : BreakerStep(s)
  \/ CycleStep
  \/ Tick

\* The clock advances and the tokio task behind start_health_checks keeps
\* being polled. Callers owe nothing.
Fairness == WF_vars(Tick) /\ WF_vars(CycleStep)

Spec == Init /\ [][Next]_vars
FairSpec == Spec /\ Fairness

\* Only the two recording paths and the availability checks: the calls whose
\* documentation says that breaker and health cannot drift.
RecordNext ==
  \/ \E t \in Threads :
       \/ \E s \in Services, ok \in BOOLEAN :
            RecordOutcome(t, s, ok) \/ RecordExecution(t, s, ok)
       \/ OutcomeHealth(t) \/ OutcomeBreaker(t)
       \/ ExecutionCounters(t) \/ ExecutionHealth(t)
  \/ \E s \in Services : IsAvailable(s)
  \/ Tick

RecordSpec == Init /\ [][RecordNext]_vars

-----------------------------------------------------------------------------
(* Safety *)

\* A breaker trips exactly when its failures reach the threshold, and stays
\* tripped with them: no interleaving of outcomes, probes and resets leaves it
\* open (or half-open) below the threshold, or closed at it.
TripsAtThreshold == \A s \in Services : SoundBreaker(breakers[s])

\* Successes and the current run of failures are disjoint parts of the recorded
\* requests, however recording and recover_service's reset interleave; the
\* rates the health status is computed from rest on it.
CountersSane ==
  \A s \in Services : counters[s].ok + counters[s].consec <= counters[s].total

\* HealthStatus::Degraded is dead: a success rate below 0.8 is an error rate
\* above 0.2, which record_service_outcome has already called Unhealthy, so
\* degradation_level never answers Degraded for a service.
NeverDegraded ==
  /\ \A s \in Services : health[s] # "Degraded"
  /\ \A t \in Threads : task[t].status # "Degraded"

\* Who is about to reset the breaker of s.
Resetting(s) ==
  \/ \E t \in Threads :
       task[t].at \in {"reset_breaker", "reinit_breaker"} /\ task[t].svc = s
  \/ cycle.at = "heal" /\ s \in cycle.todo /\ s \in Addressable

\* An open breaker leaves Open only to HalfOpen once the recovery timeout has
\* run since its last failure, or to Closed by an explicit reset in progress: a
\* success recorded late, by a call admitted before the trip, never closes it.
\* A closed breaker never becomes half-open.
BreakerSteps ==
  [][\A s \in Services : LegalChange(breakers[s], breakers'[s], Resetting(s))]_vars

(* Liveness *)

\* An open breaker is not open for ever: unless failures keep arriving, the
\* health-check task moves it on once the recovery timeout has elapsed, even if
\* nobody ever asks is_available.
OpenIsRetried ==
  \A s \in Services :
    []<>(breakers[s].state # "Open") \/ []<>(breakers[s].age < Recovery)

-----------------------------------------------------------------------------
(* What the code's documentation claims *)

Quiescent(s) == \A t \in Threads : task[t].at = "idle" \/ task[t].svc # s

\* "one call for both, so breaker and health can never drift": with no recording
\* of s in progress, a closed breaker has failures on its count exactly when the
\* counters, from which the health is computed, end in failures. Of two outcomes
\* recorded at once, the breaker may be given the older one last.
NeverDrift ==
  \A s \in Services : Quiescent(s) =>
    (breakers[s].state = "Closed" => (breakers[s].failures = 0 <=> counters[s].consec = 0))

\* The other half of the same claim: with no recording of s in progress, the
\* stored status is the one its counters give. The status is computed in one
\* critical section and stored in another, perhaps over a newer one.
StatusCurrent ==
  \A s \in Services : Quiescent(s) =>
    (health[s] # "Absent" => health[s] = StatusOf(counters[s]))
=============================================================================
