SPECIFICATION MenuSpec
CONSTANTS
    NULL = NULL
    DataTypes <- Data
    NodeTypes <- Nodes
    Dummy = "dummy"
    Attributes <- NodeAttributes
    InputPins <- NodeInputs
    OutputPins <- NodeOutputs
    DataLayout <- Layouts
    NodeLayout <- NodeLayouts
    MaxDataTypes = 3
    MaxNodeTypes = 3
    HashBits = 3
    Hashes <- AnyHashes
    Group <- Groups
INVARIANTS DataTypesAreCollectedOnce LookupsEnd DefinitionsAreFound NodesAreLaidOut MenuOffersEveryType
