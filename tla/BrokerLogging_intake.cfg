SPECIFICATION Spec
CONSTANTS
    ArgVectors <- MCArgVectors
    UserLoggers <- MCNoUserLoggers
    LogLevels <- MCNoLogLevels
    FederateIds <- MCNoFederateIds
    global_broker_id = 1
    GeneratedIds <- MCGeneratedIds
    InitialIdentifiers <- MCInitialIdentifiers
    DefaultFields <- MCDefaultFields
    MaxInits = 2
    NoValue = NoValue
INVARIANTS
    TypeOK
PROPERTIES
    PrecedenceRespected
CHECK_DEADLOCK FALSE
