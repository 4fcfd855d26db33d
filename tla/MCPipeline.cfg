SPECIFICATION PipelineSpec
CONSTANTS
    MaxNodes = 3
    MaxVersion = 5
    MaxEdits = 2
    DataTypes <- OneType
    NodeTypes <- Kinds
    InputTypes <- KindInputs
    OutputTypes <- KindOutputs
    RequiredInputs <- NeededInputs
    RequiredOutputs <- NeededOutputs
    Graphs <- Topologies
INVARIANTS
    MetasMatchTheGraph ReadyNodesAreScheduled ProducersRunFirst
    ReceivedIsSent NoNodeIsForgotten TransferKeepsTypes
PROPERTIES ExecutionEnds
CHECK_DEADLOCK FALSE
