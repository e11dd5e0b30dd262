SPECIFICATION FairSpec
CHECK_DEADLOCK FALSE
CONSTANTS
    t1 = t1
    t2 = t2
    Main = Main
    Nobody = Nobody
    Threads <- MCThreads
    CRIO_INTERRUPTS = 2
    Handled <- MCHandled
    MaxTasks = 1
INVARIANTS StartAgreed ClosedFPGAUnused
PROPERTIES ParentAnswers ExitsOnRequest InterruptsServed
