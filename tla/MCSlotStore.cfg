SPECIFICATION Spec
CONSTANTS
    MaxItems = 4
    Items = {a, b}
INVARIANTS InverseArrays
PROPERTIES OthersKeepTheirItems ImplementsTable
