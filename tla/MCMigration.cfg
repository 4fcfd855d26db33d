SPECIFICATION FileSpec
CONSTANTS
    MaxNodes = 3
    MaxVersion = 6
    DataTypes <- Types
    NodeTypes <- Three
    InputTypes <- ThreeInputs
    OutputTypes <- ThreeOutputs
    InputNames <- ThreeInputNames
    OutputNames <- ThreeOutputNames
    Registry <- ThreeRegistry
    NewRegistry <- ShrunkRegistry
    NewNodeTypes <- Shrunk
    NewInputTypes <- ShrunkInputs
    NewOutputTypes <- ShrunkOutputs
    NewInputNames <- ShrunkInputNames
    NewOutputNames <- ShrunkOutputNames
    AttributeNames <- ThreeAttributeNames
    AttributeTypes <- ThreeAttributeTypes
    NewAttributeNames <- ShrunkAttributeNames
    NewAttributeTypes <- ShrunkAttributeTypes
    ValueSize <- Sizes
    Values <- ThreeValues
    Dummy = "dummy"
INVARIANTS MigrationAsserts SurvivorsKeepIds FileKeepsTheGraph PositionsFollowNodes
CHECK_DEADLOCK FALSE
