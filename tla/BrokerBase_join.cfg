SPECIFICATION FairSpec
CONSTANTS
    NormalCommands <- MCNormalCommands
    PriorityCommands <- MCPriorityCommands
    ProducerMessages <- MCTraffic
    HookMessages <- MCHookMessages
    dumplog = TRUE
    EnqueueMayFail = FALSE
    MaxSends = 2
    MaxEmits = 1
    MaxTicks = 1
PROPERTIES
    JoinTerminates
    ImplementsLifecycle
CHECK_DEADLOCK FALSE
