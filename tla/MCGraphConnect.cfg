SPECIFICATION Spec
CONSTANTS
    MaxNodes = 2
    MaxVersion = 3
    DataTypes <- BothTypes
    NodeTypes <- PairNodes
    InputTypes <- PairPins
    OutputTypes <- PairPins
INVARIANTS RejectionIsInvalid
CHECK_DEADLOCK FALSE
