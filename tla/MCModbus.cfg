SPECIFICATION MCSpec
CONSTANTS
    Calls <- MCCalls
    ErrorFunc <- MCErrorFunc
    Handled = {145}
    Strays <- MCStrays
    Subclasses <- MCSubclasses
    Data <- MCData
    MaxRecords = 1
    ILCLists <- MCILCLists
    Names = {0, 2}
    Sensors = {1, 2}
    Noise = {1, 84, 193}
    RequestLists <- MCRequestLists
    NUM_TS_ILC = 2
    TxCommand = 19
    MaxSpoilt = 1
INVARIANTS AllAccounted ChangeNoticed Delivered Understood
