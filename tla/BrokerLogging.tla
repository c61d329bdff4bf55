---------------------------- MODULE BrokerLogging ----------------------------
(***************************************************************************)
(* Configuration and logging of a broker or core (BrokerBase.cpp):         *)
(* initializeFromCmdArgs, setLoggerFunction, setLogLevel, setLogLevels,    *)
(* generateNewIdentifier on the thread of the owner, and sendToLogger on   *)
(* whatever thread logs (the dispatcher's hooks and its dump log, the      *)
(* transports).                                                            *)
(*                                                                         *)
(* The owner's operations run one after another; sendToLogger runs         *)
(* concurrently with them and takes no lock.  It is modelled in two steps, *)
(* the tests and the call; setLoggerFunction in two, the assignment and    *)
(* the halt or restart of the file logger; initializeFromCmdArgs in three, *)
(* the options, the new logger and its start: the steps at which the       *)
(* other thread sees a difference.                                         *)
(*                                                                         *)
(* The Logger object is not part of the sources.  It is a record: whether  *)
(* it exists (loggingObj is not null), whether it is running, whether it   *)
(* was halted, its two levels and its file.  A logger that was halted      *)
(* drops what it is given; what one that was never started does with a     *)
(* message is left open.                                                   *)
(***************************************************************************)
EXTENDS BrokerConfig

CONSTANTS
    ArgVectors,        \* the argument vectors initializeFromCmdArgs is given
    UserLoggers,       \* the callbacks a user may install
    LogLevels,         \* the levels of messages and of setLogLevels
    FederateIds,       \* the federate ids sendToLogger is called with
    global_broker_id,  \* the id the parent broker assigned
    GeneratedIds,      \* what gen_id may return
    InitialIdentifiers,\* the broker_name of the constructor, "" without one
    DefaultFields,     \* the members' default initialisers
    MaxInits           \* bound on the calls of initializeFromCmdArgs

Empty == "empty"       \* a std::function without target

ASSUME /\ Empty \notin UserLoggers
       /\ "" \notin GeneratedIds
       /\ DOMAIN DefaultFields = Fields \ {"identifier", "noAutomaticID"}
       /\ MaxInits \in Nat

VARIABLES
    fields,            \* the members initializeFromCmdArgs assigns
    consoleLogLevel,
    fileLogLevel,
    loggerFunction,
    loggingObj,
    timeCoord,         \* TRUE once the time coordinator exists
    thread,            \* _queue_processing_thread: none, running, joined
    ownerPc,           \* idle, or where the owner is inside an operation
    sender,            \* a sendToLogger between its tests and its call
    delivered,         \* history: what became of the last sendToLogger
    fault,             \* how the process died, "none" while it lives
    inits              \* calls of initializeFromCmdArgs so far

vars == <<fields, consoleLogLevel, fileLogLevel, loggerFunction, loggingObj,
          timeCoord, thread, ownerPc, sender, delivered, fault, inits>>

levelVars == <<consoleLogLevel, fileLogLevel>>
senderVars == <<sender, delivered>>

-----------------------------------------------------------------------------
(* The Logger object                                                       *)

NullLogger ==
    [exists |-> FALSE, running |-> FALSE, halted |-> FALSE, consoleLevel |-> 0,
     fileLevel |-> 0, file |-> ""]

(* std::make_unique<Logger> (), then openFile when a log file is named.    *)
NewLogger(file) == [NullLogger EXCEPT !.exists = TRUE, !.file = file]

startLogging(logger, cLevel, fLevel) ==
    [logger EXCEPT !.running = TRUE, !.halted = FALSE,
                   !.consoleLevel = cLevel, !.fileLevel = fLevel]

(* startLogging (): with the levels the logger has.                        *)
restartLogging(logger) == startLogging(logger, logger.consoleLevel, logger.fileLevel)

haltLogging(logger) == [logger EXCEPT !.running = FALSE, !.halted = TRUE]

changeLevels(logger, cLevel, fLevel) ==
    [logger EXCEPT !.consoleLevel = cLevel, !.fileLevel = fLevel]

-----------------------------------------------------------------------------
(* The owner                                                               *)

(* initializeFromCmdArgs, from argumentParser to the new time coordinator. *)
(* An exception of argumentParser leaves the broker as it was; otherwise   *)
(* the options are read into the members.                                  *)
initializeFromCmdArgs(args, id) ==
    /\ ownerPc = "idle"
    /\ fault = "none"
    /\ inits < MaxInits
    /\ inits' = inits + 1
    /\ LET parsed == argumentParser(args)
       IN \/ /\ parsed.thrown
             /\ UNCHANGED <<fields, timeCoord, ownerPc>>
          \/ /\ ~parsed.thrown
             /\ fields' = Configure(fields, parsed.vm, id)
             /\ timeCoord' = TRUE
             /\ ownerPc' = "newLogger"
    /\ UNCHANGED <<levelVars, loggerFunction, loggingObj, thread, senderVars, fault>>

(* loggingObj = std::make_unique<Logger> (), and openFile when a log file  *)
(* is configured: the logger there was is gone, the new one not started.   *)
replaceLogger ==
    /\ ownerPc = "newLogger"
    /\ fault = "none"
    /\ loggingObj' = NewLogger(fields.logFile)
    /\ ownerPc' = "startLogger"
    /\ UNCHANGED <<fields, levelVars, loggerFunction, timeCoord, thread,
                   senderVars, fault, inits>>

(* Mutant: the logger is started with the console and file levels.         *)
StartedLoggerOwnLevels(logger) == startLogging(logger, consoleLogLevel, fileLogLevel)

(* loggingObj->startLogging (maxLogLevel, maxLogLevel)                     *)
StartedLogger(logger) == startLogging(logger, fields.maxLogLevel, fields.maxLogLevel)

(* The last two statements of initializeFromCmdArgs: the logger is started *)
(* and the thread assigned; assigning to a thread that is joinable ends    *)
(* the process (std::terminate).                                           *)
startLoggerAndThread ==
    /\ ownerPc = "startLogger"
    /\ fault = "none"
    /\ loggingObj' = StartedLogger(loggingObj)
    /\ ownerPc' = "idle"
    /\ \/ thread # "running" /\ thread' = "running" /\ UNCHANGED fault
       \/ thread = "running" /\ fault' = "terminate" /\ UNCHANGED thread
    /\ UNCHANGED <<fields, levelVars, loggerFunction, timeCoord, senderVars, inits>>

(* joinAllThreads, as far as this module sees it: the thread has ended and *)
(* is no longer joinable.                                                  *)
joinAllThreads ==
    /\ ownerPc = "idle"
    /\ fault = "none"
    /\ thread = "running"
    /\ thread' = "joined"
    /\ UNCHANGED <<fields, levelVars, loggerFunction, loggingObj, timeCoord,
                   ownerPc, senderVars, fault, inits>>

(* generateNewIdentifier                                                   *)
generateNewIdentifier(id) ==
    /\ ownerPc = "idle"
    /\ fault = "none"
    /\ fields' = [fields EXCEPT !.identifier = id]
    /\ UNCHANGED <<levelVars, loggerFunction, loggingObj, timeCoord, thread,
                   ownerPc, senderVars, fault, inits>>

(* setLoggerFunction, its first statement: the callback is replaced.       *)
setLoggerFunction(logFunction) ==
    /\ ownerPc = "idle"
    /\ fault = "none"
    /\ loggerFunction' = logFunction
    /\ ownerPc' = "setLogger"
    /\ UNCHANGED <<fields, levelVars, loggingObj, timeCoord, thread, senderVars,
                   fault, inits>>

(* Mutant: the file logger is halted for a callback and never restarted.   *)
AdjustFileLoggerNoRestart ==
    /\ loggingObj' = IF loggerFunction # Empty /\ loggingObj.exists
                     THEN haltLogging(loggingObj)
                     ELSE loggingObj
    /\ UNCHANGED fault

(* The rest of setLoggerFunction.  With a callback a running file logger   *)
(* is halted.  Without one the file logger is restarted when it is not     *)
(* running; that branch does not test loggingObj, which is null before     *)
(* initializeFromCmdArgs.                                                  *)
AdjustFileLogger ==
    \/ /\ loggerFunction # Empty
       /\ loggingObj' = IF loggingObj.exists THEN haltLogging(loggingObj)
                                             ELSE loggingObj
       /\ UNCHANGED fault
    \/ /\ loggerFunction = Empty
       /\ ~loggingObj.exists
       /\ fault' = "null_dereference"
       /\ UNCHANGED loggingObj
    \/ /\ loggerFunction = Empty
       /\ loggingObj.exists
       /\ loggingObj' = IF loggingObj.running THEN loggingObj
                                               ELSE restartLogging(loggingObj)
       /\ UNCHANGED fault

setLoggerFunctionReturns ==
    /\ ownerPc = "setLogger"
    /\ fault = "none"
    /\ AdjustFileLogger
    /\ ownerPc' = "idle"
    /\ UNCHANGED <<fields, levelVars, loggerFunction, timeCoord, thread,
                   senderVars, inits>>

(* setLogLevels: the two levels, their maximum, and the logger's levels    *)
(* when there is a logger.                                                 *)
setLogLevels(consoleLevel, fileLevel) ==
    /\ ownerPc = "idle"
    /\ fault = "none"
    /\ consoleLogLevel' = consoleLevel
    /\ fileLogLevel' = fileLevel
    /\ fields' = [fields EXCEPT !.maxLogLevel = Max({consoleLevel, fileLevel})]
    /\ loggingObj' = IF loggingObj.exists
                     THEN changeLevels(loggingObj, consoleLevel, fileLevel)
                     ELSE loggingObj
    /\ UNCHANGED <<loggerFunction, timeCoord, thread, ownerPc, senderVars, fault, inits>>

(* setLogLevel (level) { setLogLevels (level, level); }                     *)
setLogLevel(level) == setLogLevels(level, level)

-----------------------------------------------------------------------------
(* sendToLogger                                                            *)

(* The tests of sendToLogger: the owner of the log stream, the level, the  *)
(* callback, the logger object.  A call that ends here returns false       *)
(* ("refused") or true.                                                    *)
sendToLogger(federateID, logLevel) ==
    /\ sender = "idle"
    /\ fault = "none"
    /\ \/ /\ federateID \notin {0, global_broker_id}
          /\ delivered' = "refused"
          /\ UNCHANGED sender
       \/ /\ federateID \in {0, global_broker_id}
          /\ logLevel > fields.maxLogLevel
          /\ delivered' = "filtered"
          /\ UNCHANGED sender
       \/ /\ federateID \in {0, global_broker_id}
          /\ logLevel <= fields.maxLogLevel
          /\ loggerFunction # Empty
          /\ sender' = "callback"
          /\ UNCHANGED delivered
       \/ /\ federateID \in {0, global_broker_id}
          /\ logLevel <= fields.maxLogLevel
          /\ loggerFunction = Empty
          /\ loggingObj.exists
          /\ sender' = "logger"
          /\ UNCHANGED delivered
       \/ /\ federateID \in {0, global_broker_id}
          /\ logLevel <= fields.maxLogLevel
          /\ loggerFunction = Empty
          /\ ~loggingObj.exists
          /\ delivered' = "no_sink"
          /\ UNCHANGED sender
    /\ UNCHANGED <<fields, levelVars, loggerFunction, loggingObj, timeCoord,
                   thread, ownerPc, fault, inits>>

(* loggerFunction (logLevel, name, message): the member is read again;     *)
(* calling a function without target throws std::bad_function_call out of  *)
(* the thread that logs.                                                   *)
callLoggerFunction ==
    /\ sender = "callback"
    /\ fault = "none"
    /\ sender' = "idle"
    /\ IF loggerFunction = Empty
       THEN fault' = "bad_function_call" /\ UNCHANGED delivered
       ELSE delivered' = "callback" /\ UNCHANGED fault
    /\ UNCHANGED <<fields, levelVars, loggerFunction, loggingObj, timeCoord,
                   thread, ownerPc, inits>>

(* What becomes of a message handed to the logger.                         *)
Logged(logger) ==
    CASE logger.running -> "logger"
      [] logger.halted -> "halted_logger"
      [] OTHER -> "unstarted_logger"

(* loggingObj->log (logLevel, name + "::" + message)                       *)
callLoggingObj ==
    /\ sender = "logger"
    /\ fault = "none"
    /\ sender' = "idle"
    /\ delivered' = Logged(loggingObj)
    /\ UNCHANGED <<fields, levelVars, loggerFunction, loggingObj, timeCoord,
                   thread, ownerPc, fault, inits>>

-----------------------------------------------------------------------------
(* BrokerBase () and BrokerBase (broker_name); noAutomaticID is set by the *)
(* concrete class before it configures.                                    *)
Init ==
    /\ \E name \in InitialIdentifiers, noAuto \in BOOLEAN :
           fields = [f \in Fields |->
                        CASE f = "identifier" -> name
                          [] f = "noAutomaticID" -> noAuto
                          [] OTHER -> DefaultFields[f]]
    /\ consoleLogLevel = DefaultFields.maxLogLevel
    /\ fileLogLevel = DefaultFields.maxLogLevel
    /\ loggerFunction = Empty
    /\ loggingObj = NullLogger
    /\ timeCoord = FALSE
    /\ thread = "none"
    /\ ownerPc = "idle"
    /\ sender = "idle"
    /\ delivered = "none"
    /\ fault = "none"
    /\ inits = 0

Next ==
    \/ \E args \in ArgVectors, id \in GeneratedIds : initializeFromCmdArgs(args, id)
    \/ replaceLogger
    \/ startLoggerAndThread
    \/ joinAllThreads
    \/ \E id \in GeneratedIds : generateNewIdentifier(id)
    \/ \E f \in UserLoggers \cup {Empty} : setLoggerFunction(f)
    \/ setLoggerFunctionReturns
    \/ \E c, f \in LogLevels : setLogLevels(c, f)
    \/ \E level \in LogLevels : setLogLevel(level)
    \/ \E fed \in FederateIds, level \in LogLevels : sendToLogger(fed, level)
    \/ callLoggerFunction
    \/ callLoggingObj

Spec == Init /\ [][Next]_vars

-----------------------------------------------------------------------------
TypeOK ==
    /\ DOMAIN fields = Fields
    /\ fields._min_federates \in Int /\ fields._min_brokers \in Int
    /\ fields._maxIterations \in Int /\ fields.maxLogLevel \in Int
    /\ fields.timeout \in Int /\ fields.tickTimer \in Int
    /\ fields.dumplog \in BOOLEAN /\ fields.noAutomaticID \in BOOLEAN
    /\ consoleLogLevel \in Int /\ fileLogLevel \in Int
    /\ loggerFunction \in UserLoggers \cup {Empty}
    /\ loggingObj \in [exists : BOOLEAN, running : BOOLEAN, halted : BOOLEAN,
                        consoleLevel : Int, fileLevel : Int,
                        file : {fields.logFile, ""}]
    /\ timeCoord \in BOOLEAN
    /\ thread \in {"none", "running", "joined"}
    /\ ownerPc \in {"idle", "setLogger", "newLogger", "startLogger"}
    /\ sender \in {"idle", "callback", "logger"}
    /\ delivered \in {"none", "refused", "filtered", "no_sink", "callback",
                              "logger", "halted_logger", "unstarted_logger"}
    /\ fault \in {"none", "terminate", "null_dereference", "bad_function_call"}
    /\ inits \in 0..MaxInits

(* The level sendToLogger filters on is the level of the logger behind it: *)
(* when the owner is outside initializeFromCmdArgs and a logger exists,    *)
(* maxLogLevel is the larger of the logger's console and file levels,      *)
(* whatever the order of initializeFromCmdArgs (which starts the logger    *)
(* from maxLogLevel) and setLogLevels (which changes both).  Otherwise     *)
(* sendToLogger passes messages the logger discards, or discards messages  *)
(* the logger would write.                                                 *)
LevelsAgree ==
    ownerPc \in {"idle", "setLogger"} /\ loggingObj.exists =>
        fields.maxLogLevel = Max({loggingObj.consoleLevel, loggingObj.fileLevel})

(* When the owner is outside setLoggerFunction and no callback is          *)
(* installed, a logger that exists is running: removing the callback with  *)
(* setLoggerFunction restarts the file logger that installing it halted,   *)
(* so that log messages have a sink again.                                 *)
QuiescentSinkLive ==
    (ownerPc = "idle" /\ fault = "none" /\ loggerFunction = Empty /\ loggingObj.exists)
        => loggingObj.running

(* The precedence of the options, stated without the order of the          *)
(* statements: per field, the aliases from the strongest to the weakest.   *)
Precedence ==
    [_min_federates |-> <<"federates", "minfed", "min">>,
     _min_brokers   |-> <<"minbroker">>,
     _maxIterations |-> <<"maxiter">>,
     identifier     |-> <<"identifier", "name">>,
     maxLogLevel    |-> <<"loglevel">>,
     logFile        |-> <<"logfile">>,
     timeout        |-> <<"timeout">>,
     tickTimer      |-> <<"tick">>]

(* The argument vectors argumentParser refuses: values it cannot read, a   *)
(* configuration file that is missing or names an option that is not a     *)
(* configuration option.  --help and --version return before the file is   *)
(* looked at.                                                              *)
Informational(args) == {"help", "version"} \cap DOMAIN args.cmd # {}

Rejected(args) ==
    \/ ~args.wellFormed
    \/ /\ ~Informational(args)
       /\ "config-file" \in DOMAIN args.cmd
       /\ ~args.fileExists \/ DOMAIN args.file \ ConfigOptions # {}

(* The options of an argument vector that take effect, and their values:   *)
(* the command line before the file.                                       *)
InEffect(args) ==
    IF Informational(args) \/ Rejected(args) THEN {}
    ELSE (DOMAIN args.cmd \cap CmdLineOptions)
             \cup (IF "config-file" \in DOMAIN args.cmd THEN DOMAIN args.file ELSE {})

ValueInEffect(args, option) ==
    IF option \in DOMAIN args.cmd THEN args.cmd[option] ELSE args.file[option]

Expected(args, before, field) ==
    LET given == SelectSeq(Precedence[field], LAMBDA o : o \in InEffect(args))
    IN  IF given = <<>> THEN before[field] ELSE ValueInEffect(args, Head(given))

(* A call of initializeFromCmdArgs leaves every field with the value of    *)
(* its strongest alias in effect (federates over minfed over min,          *)
(* identifier over name, the command line over the configuration file),    *)
(* and untouched when no alias is given or the arguments are refused;      *)
(* dumplog is switched on and never off; an identifier is generated only   *)
(* for an empty one, only without noAutomaticID and only when the call     *)
(* returns.  This is what argumentParser and the order of the statements   *)
(* in initializeFromCmdArgs have to bring about together.                  *)
PrecedenceRespected ==
    [][\A args \in ArgVectors, id \in GeneratedIds :
        initializeFromCmdArgs(args, id) =>
            /\ \A field \in DOMAIN Precedence \ {"identifier"} :
                   fields'[field] = Expected(args, fields, field)
            /\ fields'.dumplog = (fields.dumplog \/ "dumplog" \in InEffect(args))
            /\ LET named == Expected(args, fields, "identifier")
               IN  IF named = "" /\ ~fields.noAutomaticID /\ ~Rejected(args)
                   THEN fields'.identifier = id
                   ELSE fields'.identifier = named
            /\ fields'.noAutomaticID = fields.noAutomaticID]_vars

(* "If a user logger is installed it takes precedence and the file logger  *)
(* is halted": with a callback installed and the owner outside             *)
(* setLoggerFunction, no file logger is running.  setLoggerFunction halts  *)
(* the logger that exists when it is called; initializeFromCmdArgs creates *)
(* and starts one without looking at loggerFunction.                       *)
UserLoggerSilencesFile ==
    (ownerPc = "idle" /\ loggerFunction # Empty) => ~loggingObj.running

(* A message that sendToLogger accepted while a sink was installed reaches *)
(* a sink: it is not handed to a logger that was halted after the test,    *)
(* and the callback it tested is still there when it is called.            *)
(* sendToLogger reads loggerFunction and loggingObj without a lock while   *)
(* setLoggerFunction writes them.                                          *)
AcceptedReachesSink ==
    /\ delivered # "halted_logger"
    /\ fault # "bad_function_call"
=============================================================================
