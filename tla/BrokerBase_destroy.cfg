SPECIFICATION Spec
CONSTANTS
    NormalCommands <- MCNormalCommands
    PriorityCommands <- MCPriorityCommands
    ProducerMessages <- MCTraffic
    HookMessages <- MCHookMessages
    dumplog = TRUE
    EnqueueMayFail = FALSE
    MaxSends = 2
    MaxEmits = 0
    MaxTicks = 1
PROPERTIES
    NoEnqueueAfterDestroy
CHECK_DEADLOCK FALSE
