SPECIFICATION Spec
CONSTANTS
    Addresses <- MCAddresses
    Functions <- MCFunctions
    Actions <- MCFunctions
    ErrorActions = {}
    MaxErrors = 1
    Node = 1
    Requests <- MCReads
    Faults = {"refused"}
    Readings = {1}
    MaxAddress = 2
    MaxCommands = 1
    MaxInfo = 2
    MaxLine = 0
INVARIANT AddressWillBeRead
