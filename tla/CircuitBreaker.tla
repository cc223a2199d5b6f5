--------------------------- MODULE CircuitBreaker ---------------------------
(***************************************************************************)
(* One circuit breaker of the hyper-resilience engine and the pure         *)
(* functions that change it (src/resilience/hyper_resilience/state.rs).    *)
(*                                                                         *)
(* A breaker is a record of                                                *)
(*   state    - "Absent" stands for a name with no entry in the map;       *)
(*   failures - failure_count, saturating at Threshold: the code only ever *)
(*              compares it with the threshold;                            *)
(*   age      - time since last_failure_ms, saturating at Recovery: the    *)
(*              code only asks whether recovery_timeout_ms has elapsed.    *)
(*              The reset value last_failure_ms = 0 is a failure so long   *)
(*              ago that the timeout has elapsed.                          *)
(***************************************************************************)
EXTENDS Integers

CONSTANTS
  Threshold,  \* ResilienceConfig.circuit_breaker_threshold
  Recovery    \* ResilienceConfig.recovery_timeout_ms, in clock ticks

\* Both settings are u64 fields with #[serde(default)]: zero is a legal value.
ASSUME ThresholdAssumption == Threshold \in Nat
ASSUME RecoveryAssumption == Recovery \in Nat

States == {"Absent", "Closed", "Open", "HalfOpen"}

Breaker == [state : States, failures : 0..Threshold, age : 0..Recovery]

NoBreaker == [state |-> "Absent", failures |-> 0, age |-> Recovery]

NewBreaker == [state |-> "Closed", failures |-> 0, age |-> Recovery]

ResetBreaker == [state |-> "Closed", failures |-> 0, age |-> Recovery]

\* One more failure, saturating at the threshold.
Bump(n) == IF n < Threshold THEN n + 1 ELSE n

\* Mutation: an open breaker accepts a success directly.
OnSuccessClosesOpen(cb) ==
  IF cb.state = "Closed" THEN [cb EXCEPT !.failures = 0] ELSE ResetBreaker

OnSuccess(cb) ==
  CASE cb.state = "HalfOpen" -> ResetBreaker
    [] cb.state = "Closed"   -> [cb EXCEPT !.failures = 0]
    [] OTHER                 -> cb

\* Mutation: the threshold is compared with > instead of >=.
OnFailureLate(cb) ==
  CASE cb.state = "Closed" ->
         [state    |-> IF cb.failures + 1 > Threshold THEN "Open" ELSE "Closed",
          failures |-> Bump(cb.failures),
          age      |-> 0]
    [] cb.state = "HalfOpen" ->
         [state |-> "Open", failures |-> Bump(cb.failures), age |-> 0]
    [] OTHER -> [cb EXCEPT !.age = 0]

OnFailure(cb) ==
  CASE cb.state = "Closed" ->
         [state    |-> IF Bump(cb.failures) >= Threshold THEN "Open" ELSE "Closed",
          failures |-> Bump(cb.failures),
          age      |-> 0]
    [] cb.state = "HalfOpen" ->
         [state |-> "Open", failures |-> Bump(cb.failures), age |-> 0]
    [] OTHER -> [cb EXCEPT !.age = 0]

TransitionBreaker(cb, ok) == IF ok THEN OnSuccess(cb) ELSE OnFailure(cb)

\* HashMap::entry(name).or_insert_with(CircuitBreaker::new).
OrNew(cb) == IF cb.state = "Absent" THEN NewBreaker ELSE cb

\* Mutation: the elapsed time is compared with > instead of >=, on a clock that
\* has no tick to spare.
ProbeBreakerLate(cb) ==
  IF cb.state = "Open" /\ cb.age > Recovery
  THEN [cb EXCEPT !.state = "HalfOpen"]
  ELSE cb

\* is_available and probe: an open breaker whose timeout has elapsed is let
\* through as half-open.
ProbeBreaker(cb) ==
  IF cb.state = "Open" /\ cb.age >= Recovery
  THEN [cb EXCEPT !.state = "HalfOpen"]
  ELSE cb

Older(cb) == [cb EXCEPT !.age = IF @ < Recovery THEN @ + 1 ELSE @]

\* degradation_from_counts(open, total, _) >= Constrained.
AtLeastConstrained(open, total) ==
  open > 0 /\ (open > total \div 2 \/ open > total \div 3)

\* A breaker is tripped exactly when its failures have reached the threshold.
SoundBreaker(cb) ==
  /\ cb.state \in {"Open", "HalfOpen"} => cb.failures = Threshold
  /\ cb.state = "Closed" => cb.failures = 0 \/ cb.failures < Threshold
  /\ cb.state = "Absent" => cb = NoBreaker

\* What may happen to a breaker in one step: it leaves Open only to HalfOpen,
\* once its recovery timeout has run, or to Closed when resetting says that a
\* reset is under way; it never goes from Closed to HalfOpen, or away.
LegalChange(before, after, resetting) ==
  /\ before.state = "Open" /\ after.state # "Open" =>
       \/ after.state = "HalfOpen" /\ before.age = Recovery
       \/ after.state = "Closed" /\ resetting
  /\ before.state = "Closed" => after.state \in {"Closed", "Open"}
  /\ before.state # "Absent" => after.state # "Absent"
=============================================================================
