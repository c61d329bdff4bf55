--------------------------- MODULE MCBrokerLogging ---------------------------
(***************************************************************************)
(* BrokerLogging for TLC: a family of argument vectors in which every      *)
(* branch of argumentParser and every statement of initializeFromCmdArgs   *)
(* is taken, aliases of one field meet with different values, and the      *)
(* command line meets the configuration file.                              *)
(***************************************************************************)
EXTENDS BrokerLogging, TLC

CONSTANT NoValue   \* what the map stores for a switch: --dumplog, --help, --version

Line(cmd) == [cmd |-> cmd, fileExists |-> FALSE, file |-> EmptyMap, wellFormed |-> TRUE]

WithFile(cmd, file) ==
    [cmd |-> ("config-file" :> "broker.ini") @@ cmd, fileExists |-> TRUE,
     file |-> file, wellFormed |-> TRUE]

(* Every combination of the three aliases of _min_federates, each with a   *)
(* value of its own.                                                       *)
FederateCounts ==
    LET value == [min |-> 2, minfed |-> 3, federates |-> 4]
    IN  {Line(Restrict(value, S)) : S \in SUBSET DOMAIN value}

Names ==
    LET value == [name |-> "n", identifier |-> "i"]
    IN  {Line(Restrict(value, S)) : S \in SUBSET DOMAIN value}

Others ==
    {Line([loglevel |-> 2, logfile |-> "log", fileloglevel |-> 0,
           consoleloglevel |-> 0]),
     Line([loglevel |-> 0, dumplog |-> NoValue]),
     Line([minbroker |-> 2, maxiter |-> 2, timeout |-> 2, tick |-> 2,
           unregistered |-> 9]),
     Line([help |-> NoValue, loglevel |-> 2]),
     Line([version |-> NoValue, name |-> "n"]),
     [Line([minfed |-> 3]) EXCEPT !.wellFormed = FALSE]}

ConfigFiles ==
    {Line("config-file" :> "missing.ini"),
     WithFile([minfed |-> 3], [minfed |-> 0, federates |-> 0, loglevel |-> 0]),
     WithFile([loglevel |-> 2], [loglevel |-> 0, identifier |-> "i"]),
     WithFile(EmptyMap, [min |-> 0]),
     WithFile(EmptyMap, [help |-> NoValue])}

MCArgVectors == FederateCounts \cup Names \cup Others \cup ConfigFiles

MCDefaultFields ==
    [_min_federates |-> 1, _min_brokers |-> 1, _maxIterations |-> 3, dumplog |-> FALSE,
     maxLogLevel |-> 1, logFile |-> "", timeout |-> 4, tickTimer |-> 4]

MCLogLevels == 0..2
MCFederateIds == 0..2
MCUserLoggers == {"userLogger"}
MCGeneratedIds == {"uuid"}
MCInitialIdentifiers == {"", "b"}

(* The run of the configuration intake: no log traffic.                    *)
MCNoLogLevels == {}
MCNoFederateIds == {}
MCNoUserLoggers == {}

(* The runs of the logging: the argument vectors that differ in what the   *)
(* logger is given (no option, a level and a file, the lowest level).      *)
MCLoggingArgVectors ==
    {Line(EmptyMap),
     Line([loglevel |-> 2, logfile |-> "log", fileloglevel |-> 0,
           consoleloglevel |-> 0]),
     Line([loglevel |-> 0, dumplog |-> NoValue])}

MCOneInitialIdentifier == {""}
=============================================================================
