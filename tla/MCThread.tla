------------------------------ MODULE MCThread ------------------------------
(* Values for the model checker.                                           *)
EXTENDS Thread

CONSTANTS c1, c2, c3

MCCallers   == {c1, c2, c3}
MCCalls     == Methods
MCStopWait  == {"stop", "wait_until"}
=============================================================================
