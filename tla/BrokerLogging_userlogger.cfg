SPECIFICATION Spec
CONSTANTS
    ArgVectors <- MCLoggingArgVectors
    UserLoggers <- MCUserLoggers
    LogLevels <- MCLogLevels
    FederateIds <- MCFederateIds
    global_broker_id = 1
    GeneratedIds <- MCGeneratedIds
    InitialIdentifiers <- MCOneInitialIdentifier
    DefaultFields <- MCDefaultFields
    MaxInits = 2
    NoValue = NoValue
INVARIANTS
    UserLoggerSilencesFile
CHECK_DEADLOCK FALSE
