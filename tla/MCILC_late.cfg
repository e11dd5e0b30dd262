SPECIFICATION Spec
CONSTANTS
    one = one
    two = two
    all = all
    Unknown = Unknown
    Addresses <- MCAddresses
    Functions <- MCFunctions
    Actions <- MCActions
    ErrorActions <- MCErrorActions
    Commands <- MCCommands
    Broadcast <- MCBroadcast
    Disturbances = {"noise"}
    Modes = {m1, m2}
    MayTimeOut = TRUE
    MaxErrors = 1
    MaxCommands = 2
    MaxPending = 1
INVARIANTS AnswersHandled NoOverrun LastModeTrue Blameless
PROPERTY CallEnds
