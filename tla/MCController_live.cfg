SPECIFICATION FairSpec
CONSTANTS
  c1 = c1
  c2 = c2
  Controller = Controller
  Nobody = Nobody
  Clients <- MCClients
  Tasks <- MCTasks
  Throwing <- MCNone
  Invalid <- MCNone
  Calls <- MCCalls
  Delays <- MCFuture
  Waits <- MCWait1
  MaxTime = 2
  MaxQueue = 2
PROPERTIES DueTaskRuns StopEnds ImplementsPool
