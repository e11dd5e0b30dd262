SPECIFICATION Spec
CONSTANTS
  c1 = c1
  c2 = c2
  Controller = Controller
  Nobody = Nobody
  Clients <- MCClients
  Tasks <- MCTasks3
  Throwing <- MCFirst
  Invalid <- MCThird
  Calls <- MCNoRemove
  Delays <- MCFuture2
  Waits <- MCWaits
  MaxTime = 2
  MaxQueue = 2
SYMMETRY MCSymmetry
INVARIANTS QueueGuarded NoLostWakeup EarliestFirst NeverEarly
