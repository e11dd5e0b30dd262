SPECIFICATION FairSpec
CONSTANTS
  c1 = c1
  c2 = c2
  c3 = c3
  Worker = Worker
  Nobody = Nobody
  Callers <- MCCallers
  Calls <- MCCalls
  Timeouts <- MCStopWait
  Serialized = TRUE
INVARIANTS Lifecycle JoinSafe
PROPERTIES StartReturns StopReturns WorkerStops
