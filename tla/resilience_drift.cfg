\* Two callers recording outcomes of one service.
SPECIFICATION RecordSpec
CONSTANTS
  a = a
  t1 = t1
  t2 = t2
  Services <- OneService
  Addressable <- AddressableServices
  Threads <- TwoThreads
  Threshold = 2
  Recovery = 1
  SelfHealing = FALSE
  MaxRequests = 3
INVARIANT NeverDrift
