------------------------------- MODULE MCMPU -------------------------------
(* Small instances of MPU for TLC.                                          *)
EXTENDS MPU

Ask(func, start, count) ==
    [address |-> 1, func |-> func, start |-> start, count |-> count,
     value |-> 256 * start + 9]

MCAddresses == {1}
MCFunctions == {2, 3, 6, 16}
MCReads == { Ask(3, 1, 1), Ask(3, 2, 1) }
MCRequests == MCReads \cup { Ask(2, 1, 1), Ask(6, 2, 1), Ask(16, 1, 2) }
=============================================================================
