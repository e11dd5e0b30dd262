SPECIFICATION CliSpec
CONSTANTS
    u1 = u1
    u2 = u2
    b1 = b1
    b2 = b2
    Units = {u1, u2}
    Buses = {b1, b2}
    BusOf <- MCBusOf
    Unruly = {u1}
    Unknown = Unknown
    AddressSpace = 32
    PageSize = 8
    Lines <- MCLines
    Names <- MCNames
    Act <- MCAct
    Map <- MCMap
    Passes <- MCPasses
    File <- MCFile
    Named <- MCNamed
    Order <- MCOrder
    BusOrder <- MCBusOrder
INVARIANTS Programmed OnlyInBootloader NeverRunsUnverified TimeEnough OnlyWhatWasAsked
