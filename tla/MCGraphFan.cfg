SPECIFICATION Spec
CONSTANTS
    MaxNodes = 4
    MaxVersion = 5
    DataTypes <- BothTypes
    NodeTypes <- FanNodes
    InputTypes <- FanInputs
    OutputTypes <- FanOutputs
INVARIANTS TypeOK InputsAgree OutputListsAreComplete
PROPERTIES VersionsAreFresh ImplementsMultigraph DestroyReturns
CHECK_DEADLOCK FALSE
