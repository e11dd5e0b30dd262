SPECIFICATION Spec
CONSTANTS
    Addresses <- MCAddresses
    Functions <- MCFunctions
    Actions <- MCFunctions
    ErrorActions = {}
    MaxErrors = 1
    Node = 1
    Requests <- MCRequests
    Faults = {"refused", "garbled", "stray"}
    Readings = {1}
    MaxAddress = 2
    MaxCommands = 2
    MaxInfo = 2
    MaxLine = 0
INVARIANTS FrontThere ReadsTrue StoredWhereRead
