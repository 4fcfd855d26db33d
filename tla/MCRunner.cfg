SPECIFICATION Spec
CONSTANTS
    MaxCalls = 4
    MaxOverdraw = 2
INVARIANTS OverdrawsOnlyOnStaleSignals RingHoldsUnread NoLostWakeup
PROPERTIES TerminateReturns StopEndsThePipeline ImplementsContract
CHECK_DEADLOCK FALSE
