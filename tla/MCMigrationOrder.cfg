SPECIFICATION FileSpec
CONSTANTS
    MaxNodes = 3
    MaxVersion = 3
    DataTypes <- Types
    NodeTypes <- Old
    InputTypes <- OldInputs
    OutputTypes <- OldOutputs
    InputNames <- OldInputNames
    OutputNames <- OldOutputNames
    Registry <- OldRegistry
    NewRegistry <- Reordered
    NewNodeTypes <- AllNew
    NewInputTypes <- SameInputs
    NewOutputTypes <- SameOutputs
    NewInputNames <- SameInputNames
    NewOutputNames <- SameOutputNames
    AttributeNames <- OldAttributes
    AttributeTypes <- OldAttributes
    NewAttributeNames <- SameAttributes
    NewAttributeTypes <- SameAttributes
    ValueSize <- Sizes
    Values <- NoValues
    Dummy = "dummy"
INVARIANTS KnownTypesSurvive
CHECK_DEADLOCK FALSE
