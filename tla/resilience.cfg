\* One service, two callers and the health-check task: every interleaving of
\* their critical sections, under the fairness of the clock and of that task.
SPECIFICATION FairSpec
CONSTANTS
  a = a
  t1 = t1
  t2 = t2
  Services <- OneService
  Addressable <- AddressableServices
  Threads <- TwoThreads
  Threshold = 2
  Recovery = 2
  SelfHealing = TRUE
  MaxRequests = 3
INVARIANTS TypeOK TripsAtThreshold CountersSane NeverDegraded
PROPERTIES BreakerSteps OpenIsRetried
