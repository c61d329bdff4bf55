SPECIFICATION Spec
CONSTANTS
    NormalCommands <- MCNormalCommands
    PriorityCommands <- MCPriorityCommands
    ProducerMessages <- MCTraffic
    HookMessages <- MCHookMessages
    dumplog = TRUE
    EnqueueMayFail = FALSE
    MaxSends = 3
    MaxEmits = 1
    MaxTicks = 2
INVARIANTS
    TypeOK
    TickConservation
    TickForwardedIffIdle
    DumpLogFlushed
CHECK_DEADLOCK FALSE
