------------------------------- MODULE MCCSC -------------------------------
(* Values for the model checker.                                            *)
EXTENDS CSC

CONSTANTS t1, t2

MCThreads == {t1, t2}
MCHandled == {2}
=============================================================================
