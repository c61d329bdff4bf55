SPECIFICATION Spec
CONSTANTS
    NormalCommands <- MCNormalCommands
    PriorityCommands <- MCPriorityCommands
    ProducerMessages <- MCTrafficWithTicks
    HookMessages <- MCHookMessages
    dumplog = TRUE
    EnqueueMayFail = TRUE
    MaxSends = 2
    MaxEmits = 0
    MaxTicks = 2
CONSTRAINT
    TraceBound
INVARIANTS
    TickConservation
CHECK_DEADLOCK FALSE
PROPERTIES
    ImplementsLifecycle
