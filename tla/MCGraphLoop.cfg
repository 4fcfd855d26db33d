SPECIFICATION Spec
CONSTANTS
    MaxNodes = 3
    MaxVersion = 3
    DataTypes <- BothTypes
    NodeTypes <- LoopNodes
    InputTypes <- LoopPins
    OutputTypes <- LoopPins
INVARIANTS CanConnectIsEnough
CHECK_DEADLOCK FALSE
