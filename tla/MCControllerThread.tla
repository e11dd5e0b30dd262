------------------------- MODULE MCControllerThread -------------------------
(* Values for the model checker.                                           *)
EXTENDS ControllerThread, TLC

CONSTANTS c1, c2

MCClients  == {c1, c2}
MCSymmetry == Permutations(MCClients)
MCTasks    == 1..2
MCTasks3   == 1..3
MCFirst    == {1}
MCThird    == {3}
MCNone     == {}
MCDelays   == {-1, 0, 1}
MCFuture   == {1}
MCFuture2  == {1, 2}
MCWaits    == {0, 1}
MCWait1    == {1}
MCCalls    == Methods
MCNoRemove == Methods \ {"remove"}
=============================================================================
