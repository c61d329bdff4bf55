SPECIFICATION Spec
CONSTANTS
    NormalCommands <- MCNormalCommands
    PriorityCommands <- MCPriorityCommands
    ProducerMessages <- MCTraffic
    HookMessages <- MCHookMessages
    dumplog = TRUE
    EnqueueMayFail = TRUE
    MaxSends = 2
    MaxEmits = 0
    MaxTicks = 2
INVARIANTS
    WatchdogAlive
CHECK_DEADLOCK FALSE
