SPECIFICATION Spec
CONSTANTS
  c1 = c1
  c2 = c2
  Controller = Controller
  Nobody = Nobody
  Clients <- MCClients
  Tasks <- MCTasks
  Throwing <- MCFirst
  Invalid <- MCNone
  Calls <- MCCalls
  Delays <- MCDelays
  Waits <- MCWaits
  MaxTime = 2
  MaxQueue = 2
INVARIANT QueueExclusive
