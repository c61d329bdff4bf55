---------------------------- MODULE BrokerConfig ----------------------------
(***************************************************************************)
(* The configuration intake of BrokerBase (BrokerBase.cpp): argumentParser *)
(* and the assignments of initializeFromCmdArgs, as operators.  An         *)
(* argument vector is abstracted to what the parser makes of it:           *)
(*                                                                         *)
(*   cmd         the options on the command line, option |-> value         *)
(*   fileExists  whether the file named by --config-file exists            *)
(*   file        the options in the configuration file                     *)
(*   wellFormed  FALSE when the command line parser rejects the values     *)
(*                                                                         *)
(* Module BrokerLogging turns the operators into the action that           *)
(* configures a broker.                                                    *)
(***************************************************************************)
EXTENDS Integers, Sequences, Functions, SequencesExt

(* The three option groups of argumentParser.                              *)
CmdOnlyOptions == {"help", "version", "config-file"}

ConfigOptions ==
    {"name", "federates", "minfed", "maxiter", "logfile", "loglevel",
     "fileloglevel", "consoleloglevel", "minbroker", "identifier", "tick",
     "dumplog", "timeout"}

HiddenOptions == {"min"}

(* cmd_line and config_file: what each parser accepts.                     *)
CmdLineOptions == CmdOnlyOptions \cup ConfigOptions \cup HiddenOptions
ConfigFileOptions == ConfigOptions

EmptyMap == [o \in {} |-> 0]

(* po::store: an option the map already holds keeps its value.             *)
store(parsed, vm) ==
    [o \in DOMAIN vm \cup DOMAIN parsed |->
        IF o \in DOMAIN vm THEN vm[o] ELSE parsed[o]]

(* command_line_parser with allow_unregistered: options that are not       *)
(* registered are left out of the result.                                  *)
parseCommandLine(cmd) == Restrict(cmd, DOMAIN cmd \cap CmdLineOptions)

Thrown == [thrown |-> TRUE, vm |-> EmptyMap]
Parsed(vm) == [thrown |-> FALSE, vm |-> vm]

(* argumentParser: the map it leaves in vm_map, or the exception.  With    *)
(* --help or --version it returns before anything is stored.  The          *)
(* configuration file is parsed without allow_unregistered: an option that *)
(* config_file does not hold, the hidden `min` included, is an exception.  *)
argumentParser(args) ==
    LET cmd_vm == store(parseCommandLine(args.cmd), EmptyMap)
    IN  IF ~args.wellFormed THEN Thrown
        ELSE IF {"help", "version"} \cap DOMAIN cmd_vm # {} THEN Parsed(EmptyMap)
        ELSE IF "config-file" \notin DOMAIN cmd_vm THEN Parsed(cmd_vm)
        ELSE IF ~args.fileExists THEN Thrown
        ELSE IF ~(DOMAIN args.file \subseteq ConfigFileOptions) THEN Thrown
        ELSE Parsed(store(args.file, cmd_vm))

(* Mutant: `identifier` is read before `name`, `federates` before `minfed`.*)
AssignmentsReordered ==
    << <<"min", "_min_federates">>, <<"federates", "_min_federates">>,
       <<"minfed", "_min_federates">>, <<"minbroker", "_min_brokers">>,
       <<"maxiter", "_maxIterations">>, <<"identifier", "identifier">>,
       <<"dumplog", "dumplog">>, <<"name", "identifier">>,
       <<"loglevel", "maxLogLevel">>, <<"logfile", "logFile">>,
       <<"timeout", "timeout">>, <<"tick", "tickTimer">> >>

(* The `if (vm.count (option) > 0) field = ...` statements of              *)
(* initializeFromCmdArgs, in the order of the code.  fileloglevel and      *)
(* consoleloglevel are registered and never read.                          *)
Assignments ==
    << <<"min", "_min_federates">>, <<"minfed", "_min_federates">>,
       <<"federates", "_min_federates">>, <<"minbroker", "_min_brokers">>,
       <<"maxiter", "_maxIterations">>, <<"name", "identifier">>,
       <<"dumplog", "dumplog">>, <<"identifier", "identifier">>,
       <<"loglevel", "maxLogLevel">>, <<"logfile", "logFile">>,
       <<"timeout", "timeout">>, <<"tick", "tickTimer">> >>

Fields ==
    {"_min_federates", "_min_brokers", "_maxIterations", "identifier", "dumplog",
     "maxLogLevel", "logFile", "timeout", "tickTimer", "noAutomaticID"}

(* Mutant: dumplog takes the value stored for the option, which has none.  *)
assignedStored(vm, option) == vm[option]

(* What one statement assigns: the value of the option, TRUE for the       *)
(* switch --dumplog.                                                       *)
assigned(vm, option) == IF option = "dumplog" THEN TRUE ELSE vm[option]

(* The fields after the statements up to the default of the identifier:    *)
(* without one, and unless noAutomaticID is set, it is gen_id (), here the *)
(* value `id`.                                                             *)
Configure(fields, vm, id) ==
    LET assign(f, a) ==
            IF a[1] \in DOMAIN vm THEN [f EXCEPT ![a[2]] = assigned(vm, a[1])]
                                  ELSE f
        read == FoldLeft(assign, fields, Assignments)
    IN  IF ~read.noAutomaticID /\ read.identifier = ""
        THEN [read EXCEPT !.identifier = id]
        ELSE read
=============================================================================
