SPECIFICATION MCSpec
CONSTANTS
    PIDParameters <- MCParameters
    Errors <- MCErrors
    ActionMin <- MCMin
    ActionMax = 2
    ThawStep = 2
    Bound = 7
    SALCommands = {"start", "stop", "move"}
    Validated = {"move"}
    Events = {"summaryState"}
    Files <- MCFiles
    Nodes <- MCNodes
    Labels <- MCLabels
    Letters <- MCLetters
    CommandLines <- MCCommandLines
INVARIANTS NoWindup OfLastLoad AsGiven
PROPERTIES ThawsSmoothly ThawEnds Answered
CHECK_DEADLOCK FALSE
