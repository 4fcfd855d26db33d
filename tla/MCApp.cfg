SPECIFICATION Spec
CONSTANTS
    Pipelines = {0, 1}
    MaxDocuments = 2
    Paths = {"p"}
    Contents = {1, 2, 3, 4}
    MaxInputs = 6
INVARIANTS DialogKeepsItsDocument ExecutedPipelineIsLive PipelineDataIsFreedOnce
    CreatedWhereDrawn
PROPERTIES UnsavedWorkIsConfirmed CleanMeansSaved ExecutedGraphIsLeftAlone
CHECK_DEADLOCK FALSE
