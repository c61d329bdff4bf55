# TLA+ models of HELICS: broker core, network configuration, value federate interface, C++98 input

This directory holds TLA+ specifications of the parts of HELICS present in this
repository, the TLC configurations that check them, and `PROJECT.json`, which
maps every definition to the source lines it models and lists the runs, the
mutants, the findings and the hazards.

Sources referred to below:

| short name | file |
|---|---|
| `BrokerBase.cpp` | `src/unnamed/part_000` |
| `NetworkBrokerData.hpp` | `src/src/helics/network/NetworkBrokerData.hpp` (lines 1-168 are the network header, lines 169-776 the `ValueFederate` header) |
| `Input.hpp` | `src/src/helics/cpp98/Input.hpp` |
| MATLAB constants | `src/interfaces/matlab/interface/+helics/*.m` |

## 1. Inventory

### 1.1 Components

| component | where | state | operations | modelled in |
|---|---|---|---|---|
| Dispatcher | `BrokerBase.cpp` 359-449 | `_queue`, `messagesSinceLastTick`, `mainLoopIsRunning`, `haltOperations`, `serviceLoop`, `dumpMessages`, the point the thread has reached | loop start, pop, the branches `CMD_TICK`, `CMD_IGNORE`, `CMD_TERMINATE_IMMEDIATELY`, `CMD_STOP`, default | `BrokerBase` |
| Tick timer and its callback | `BrokerBase.cpp` 331-355, 365-372, 409-410, 415, 422 | the outstanding wait, the completion handlers queued on the io service, the guarded flag `active` | expiry, `timerTickHandler` (success, swallowed exception, aborted wait, exception that leaves the handler, inactive) | `BrokerBase` |
| Owner interface | `BrokerBase.cpp` 142-164, 239, 305-329 | the thread (joinable or not), the object's lifetime | construction, thread start, `addActionMessage`, `joinAllThreads`, destructor | `BrokerBase` |
| Command queue | not in the sources | two FIFO lanes | `push`, `pushPriority`, `pop`, `empty` | `CommandQueue` (from the specification) |
| Configuration intake | `BrokerBase.cpp` 29-138, 166-240 | `identifier`, `minFederateCount`, `minBrokerCount`, `maxLogLevel`, `logFile`, `tickTimer`, `dumplog`, `timeCoord`, `loggingObj` | `argumentParser`, `initializeFromCmdArgs`, `gen_id`, `generateNewIdentifier` | `BrokerConfig`, `BrokerLogging` |
| Logging | `BrokerBase.cpp` 242-303 | `loggerFunction`, `loggingObj` and its running state, `consoleLogLevel`, `fileLogLevel`, `maxLogLevel` | `sendToLogger`, `setLoggerFunction`, `setLogLevel`, `setLogLevels` | `BrokerLogging` |
| Network configuration | `NetworkBrokerData.hpp` 1-168 | ports, addresses, interface kind, server mode, flags; `allowedType` | address splitting and joining, interface lookup, `setInterfaceType`, `commandLineParser`, `checkAndUpdateBrokerAddress` | `NetworkAddress`, `NetworkBrokerData` (the header declares the functions; their rules are those of the specification) |
| Value federate interface | `NetworkBrokerData.hpp` 189-776 | the publication table, the input table, the shortcuts, the value commands waiting for a grant, the granted time, the callbacks | typed, global and indexed registration, subscriptions, shortcuts, defaults, options, targets, callbacks, the overloads of `publish`, `getValue`, `updateTime`, the state transitions, the getters | `ValueFederate` (templates and inline wrappers from the header; the declared members from the specification) |
| cpp98 input wrapper | `Input.hpp` | the C handle `inp` | construction, seven `setDefaultValue` overloads, the readers of one C call and of two, the queries | `Cpp98Input` |
| MATLAB constants | two `.m` files | none | return 110 and 111 | the constants `ONLY_TRANSMIT_ON_CHANGE`, `ONLY_UPDATE_ON_CHANGE` of `ValueFederate` |
| Time coordinator, asio service, logger object | not in the sources | | | represented by what they do to `BrokerBase` |

### 1.2 How the parts interact

Several threads meet in one object:

* **producers** (transports, the federate's threads) call `addActionMessage`,
  which routes a command to the priority lane or the normal lane;
* the **dispatcher thread**, started at the end of `initializeFromCmdArgs`,
  runs `queueProcessingLoop`: it arms the tick timer, then pops commands
  and dispatches them to the hooks of the concrete broker (`processCommand`,
  `processPriorityCommand`, `processDisconnect`);
* the **io service thread**, shared by every broker of the process, runs the
  timer's completion handler `timerTickHandler`, which enqueues `CMD_TICK`
  when the guarded flag `active` is true;
* the **hooks** run on the dispatcher thread and reach the queue again: the
  time coordinator's sender is `[this](msg){ addActionMessage (msg); }`;
* the **owner** calls `joinAllThreads` (the destructor does), which pushes
  `CMD_TERMINATE_IMMEDIATELY` to the normal lane and joins the thread;
* the concrete broker sets `haltOperations`.

On the federate's side there are two actors:

* **user code** registers interfaces, sets defaults and options, publishes and
  reads, through `ValueFederate` or through the C library and the `Input`
  object that wraps one of its handles;
* the **federate's dispatcher** owns the tables of the value manager: value
  commands of other federates reach it at any moment, and `updateTime` applies
  them when a time is granted. It does not wait for user code, so it may take
  a step between two calls user code makes, also between the two C calls of
  one wrapper of `Input.hpp`.

### 1.3 What is hard here

* A tick travels timer -> handler queue -> command queue -> dispatcher ->
  timer. The re-arm (`expires_at`) aborts an outstanding wait, whose handler
  then posts a tick with the error flag. Nothing but the order of these steps
  keeps the number of circulating ticks at one.
* The callback holds a raw `BrokerBase*`; only the guarded flag keeps it from
  using the pointer after the loop has gone. The flag is cleared on two of
  the three return paths, after the cancel.
* The callback swallows an exception of `addActionMessage` on one of its
  two paths only; the timer is re-armed only when a tick is dispatched.
* Whether a tick is forwarded depends on a counter that only one branch of
  the switch increments.
* `joinAllThreads` blocks until the loop reaches a sentinel that waits in
  the normal lane behind all other traffic.
* The indexed registrations build a name from a key and one or two integers
  with `'_'` between them; the same characters come out of different places
  of different structures.
* A name is looked up as a local key, a global key and a shortcut, and the
  free functions `publish` and `getValue` look it up on every call.
* The wrappers of `Input.hpp` read a size with one C call and the data with a
  second, trim a string by a terminator the library may or may not count, and
  pass the length of a vector in bytes in one direction and use it as a count
  of doubles in the other.

### 1.4 Properties worth checking, by component

| component | property | kind |
|---|---|---|
| timer + dispatcher | one tick circulates per source of ticks (`TickConservation`) | invariant |
| timer + dispatcher | while the loop waits, a tick is on its way (`WatchdogAlive`) | invariant |
| dispatcher | a tick is forwarded exactly after an idle interval (`TickForwardedIffIdle`) | invariant over the history |
| dispatcher | a loop that terminated normally has written every popped command to the dump log (`DumpLogFlushed`) | invariant over the history |
| owner + dispatcher | `joinAllThreads` returns (`JoinTerminates`) | liveness |
| owner + timer + dispatcher | the broker goes through the lifecycle of section 4.4 of `spec.md` (`ImplementsLifecycle`) | refinement |
| timer + owner | nothing is enqueued into a destroyed broker (`NoEnqueueAfterDestroy`) | action property |
| timer | no exception leaves the timer's callback (`NoExceptionLeavesTimer`) | invariant over the history |
| logging | the filter level is the logger's level (`LevelsAgree`); a logger without a callback in front of it runs (`QuiescentSinkLive`); a user logger silences the file logger (`UserLoggerSilencesFile`); an accepted message reaches a sink (`AcceptedReachesSink`) | invariants |
| configuration | option precedence and the untouched broker after a refused call (`PrecedenceRespected`) | action property |
| network configuration | an address put together comes apart into the same interface and port (`AddressRoundTrip`); the prioritised list is the tiered order of the two lists (`PrioritizeIsTieredOrder`); a record that was accepted is resolved, however many parses led to it (`ParseResolves`) | invariants, action property |
| value federate | a registered indexed name belongs to one element of its key only (`IndexedNamesDistinct`) | invariant |
| cpp98 input | a name read through a valid handle is the stored name up to the room of the buffer (`NamesReadWithinBuffer`) | invariant |
| cpp98 input | a sized read returns whole data when the value still fits (`SizedReadsWhole`); the string readers are exact under the terminator convention they assume (`StringReadsWhole`); the vector setter and getter are exact under the unit they assume (`VectorLengthsAgree`) | action properties |

## 2. Plan

1. **`CommandQueue`, `BrokerBase`** (done): the dispatcher, the timer, the
   owner. This is where the threads of the broker meet.
2. **`BrokerConfig`, `BrokerLogging`** (done): `argumentParser` and the
   assignments of `initializeFromCmdArgs` as operators, the configuring
   action, `setLoggerFunction`, `setLogLevels` and a concurrent
   `sendToLogger`.
3. **`ValueFederate`, `Cpp98Input`** (done): the value interface with its
   wrappers from the header, and the C++98 input object composed with the
   federate.
4. **Broker lifecycle** (done): `CREATED -> CONFIGURED -> RUNNING ->
   TERMINATING -> DONE` as the abstract specification `BrokerLifecycle`,
   which `BrokerBase` implements under a refinement mapping from `pc`,
   `joinState`, `mainLoopIsRunning`, `ticktimer` and `serviceLoop`.
5. **`NetworkAddress`, `NetworkBrokerData`** (done): the address functions
   as operators over token sequences, the record with the defaults of the
   header, `commandLineParser` with the rules of section 4.2.
6. **Hazards of the wrappers** (done): the names `Input.hpp` reads through
   a buffer of fixed length (`NamesReadWithinBuffer`), and the exception
   that leaves `timerTickHandler` (`NoExceptionLeavesTimer`).
7. **Open**: properties of the value manager (`updateTime`, the update
   flag, transmit-on-change, the uniqueness of keys). The header only
   declares these members, so a property of them would compare the
   specification with itself; they wait for the manager's source. Also
   open: a configuration of the network model among the runs of
   `PROJECT.json` (section 9.3 has the one kept beside them), for the
   same reason. What stays out of the model for good is in section 12.

Modules are composed by `EXTENDS` (`BrokerBase` extends `CommandQueue`,
`BrokerLogging` extends `BrokerConfig`, `Cpp98Input` extends `ValueFederate`,
`NetworkBrokerData` extends `NetworkAddress`) and by `INSTANCE` for
refinement (`BrokerBase` instantiates `BrokerLifecycle`).

## 3. Module `CommandQueue`

The queue's implementation is not in the sources. The module states its
contract as operators over a record of two sequences: `push`, `pushPriority`,
`empty`, `front` (the priority lane's head when it has one), `pop`. A blocking
`pop` is the guard `~empty(queue)` of every dispatch action.

## 4. Module `BrokerBase`

### 4.1 State

| variable | code |
|---|---|
| `queue` | `_queue` |
| `pc` | where the dispatcher thread is: `created` (no thread), `spawned`, `pop` (blocked in or about to call `_queue.pop`), `terminating`, `deactivating`, `stopping`, `disconnecting` (between the statements of the exit branches), `done` (returned) |
| `messagesSinceLastTick`, `mainLoopIsRunning`, `haltOperations`, `dumpMessages` | the variables of these names |
| `serviceLoop` | the handle `runServiceLoop` returned, or `none` |
| `dumpLogged` | what `logDump` passed to `sendToLogger` |
| `ticktimer` | TRUE while an `async_wait` is outstanding |
| `handlers` | completion handlers queued on the io service and not yet run: `ok` for waits that expired, `aborted` for waits ended by `expires_at` or `cancel` |
| `active` | the `guarded<bool>` shared by the loop and the handlers |
| `joinState` | a caller of `joinAllThreads`: `idle`, `waiting` in `join`, `joined` |
| `lifecycle` | the object: `alive`, `destructing`, `destroyed` |
| `trace` | history variable: one entry per dispatched command, with the hook it reached and whether the service loop was rebuilt |
| `sent`, `emitted`, `expired` | counters that bound the environment |
| `injected`, `lost` | history variables: `CMD_TICK` commands that came from a producer; ticks whose enqueue threw, counted apart as `swallowed` (the `catch` of lines 343-346 took the exception) and `escaped` (the call of lines 350-352 has no `try` around it, and the exception left the handler) |

Commands are records of an action and the error flag; the loop branches on
nothing else. Domain commands are two model sets, those `isPriorityCommand`
accepts and those it rejects.

### 4.2 Actions

| action | code |
|---|---|
| `Initialize` | the thread start that ends `initializeFromCmdArgs` (line 239) |
| `Send(m)` | a producer's `addActionMessage` (305-329) |
| `Halt` | the concrete broker setting `haltOperations` |
| `TimerExpires` | the wait completes; its handler is queued |
| `timerTickHandler(error)` | lines 331-355, atomic because the lock on `active` is held throughout: enqueue a tick; or swallow the exception (`EnqueueMayFail`, `Swallowed`); or enqueue an error-flag tick (`PostErrorTick`); or, when that enqueue throws, let the exception out of the handler (`Escaped`); or do nothing when inactive |
| `LoopStart` | lines 361-373 |
| `DispatchTick` | lines 395-411, the hook call included |
| `DispatchIgnore` | lines 412-413 |
| `DispatchCommand` | lines 434-446: `ProcessCounted` or, halted, `Drop`; the test of line 435 and the hook call are one step |
| `DispatchTerminate`, `TerminateFlag`, `Deactivate` | lines 414-416, 417, 418-420 |
| `DispatchStop`, `StopProcess`, `Deactivate` | lines 421-423, 424-427 and 433, 428-430 |
| `JoinAllThreads`, `JoinReturns` | lines 157-164; the `join` returns once the loop has |
| `Destructor`, `Destroyed` | line 146: the call of `joinAllThreads`, and the return |

The exit branches are split where another thread can observe the difference:
after the cancel (a handler may run before the flag is cleared) and after
`mainLoopIsRunning.store(false)`. All other branches are single steps: their
statements touch only the dispatcher's own variables and the queue.

`DispatchCommand` does not separate the test of `haltOperations` from the
call of the hook. The flag is a plain `bool` that another thread writes, and
the sources hold no write of it: `Halt` may come before the step or after
it, and a halt between the test and the call cannot be told from a halt
while the hook runs, which no reading of the code excludes. So nothing is
stated of the hook calls of a halted broker beyond what the branch itself
says.

An exception that leaves `timerTickHandler` reaches the io service's `run`
on the service thread. What becomes of it there is not in the sources; the
model counts it (`lost.escaped`) and goes on, so that the other properties
are also checked of the behaviours behind it.

A hook (`Hook(q)`) either leaves the queue alone or hands one command of
`HookMessages` to `addActionMessage`, at most `MaxEmits` times in a behaviour.

The timer follows the asio contract: `expires_at` and `cancel` complete an
outstanding wait with `operation_aborted`; a handler already queued is not
recalled; handlers run on the service thread at any later time, also after the
loop has returned, because the io service is shared by the process.

### 4.3 Fairness

`FairSpec` assumes weak fairness of `Dispatcher` (a thread of its own that
runs whenever it can) and of `JoinReturns` (`std::thread::join` returns once
the thread has ended). Nothing is assumed of producers, the timer or the
service thread: `JoinTerminates` holds even if no tick ever arrives.

### 4.4 Module `BrokerLifecycle` and the refinement

`BrokerLifecycle` is section 4.4 of `spec.md` without queues, commands, hooks
and handlers: the stage of the broker and the three things another thread
can observe of it.

| abstract action | what it allows |
|---|---|
| `Configure` | `CREATED` to `CONFIGURED`, nothing else changes |
| `Spawn` | `CONFIGURED` to `RUNNING`; `isRunning()` holds, the service loop is held, the timer is armed |
| `Tick` | the timer fires or is armed again, in `RUNNING` only |
| `Stop` | `RUNNING` to `TERMINATING`; the timer and the service loop go in this step |
| `WindDown` | `isRunning()` goes false, in `TERMINATING` only |
| `Finish` | `TERMINATING` to `DONE`, with the timer cancelled, the service loop released and `isRunning()` false, or operations halted |
| `Halt` | operations are halted, at any stage |

`BrokerBase` instantiates it with `state <- Stage`, `running <-
mainLoopIsRunning`, `timerArmed <- ticktimer`, `serviceHeld <- (serviceLoop =
"running")`, `halted <- haltOperations`. `Stage` reads the stage off `pc`:
`created`, `spawned` and `pop` are the first three stages, every later point
of the loop is `TERMINATING`, and `DONE` is `pc = "done"` with `joinState =
"joined"`. `RUNNING` begins where the thread sets the flag (line 362), not where
`initializeFromCmdArgs` creates it (line 239): in between the broker is
configured and `isRunning()` is false. `JoinReturns` is the step that
implements `Finish`; sends, hooks,
handlers, `DispatchIgnore`, `DispatchCommand`, `Deactivate`, the destructor
are stuttering steps.

The guard of `Finish` is wider than the specification's, which has
`TERMINATING -> DONE` with the loop no longer running: a halted broker
reaches `DONE` with `isRunning()` still true, because the `CMD_STOP` branch
returns at line 433 before the store of line 427. With `~running` alone in
that guard TLC reports the step `JoinReturns` of a halted broker; it is the
state finding 1 starts from. `ImplementsLifecycle` is therefore a statement
about brokers that are not halted, and about halted ones only as far as the
order of the stages goes.

## 5. Module `BrokerConfig`

`argumentParser` and the assignments of `initializeFromCmdArgs`, as operators
without state.

An argument vector is abstracted to what the parser makes of it: `cmd`, the
options of the command line as a function from option to value (a positional
argument is the option `min`); `fileExists` and `file`, the configuration
file `--config-file` names; `wellFormed`, false when the command line parser
throws. The name of an option is kept, because the properties are about
which option wins; its text form, the short forms `-n`, `-h`, `-v` and the
printing of help and version are left out.

| definition | code |
|---|---|
| `CmdOnlyOptions`, `ConfigOptions`, `HiddenOptions`, `CmdLineOptions`, `ConfigFileOptions` | the option groups, lines 50-82 |
| `store(parsed, vm)` | `po::store`: an option the map holds keeps its value |
| `parseCommandLine(cmd)` | the command line parser with `allow_unregistered`: options nobody registered are dropped |
| `argumentParser(args)` | lines 41-138, its early returns in their order: parser exception, `--help`, `--version`, no configuration file, missing file, file with an option `config_file` does not hold |
| `Assignments` | the twelve `if (vm.count (...) > 0)` statements, lines 172-221, in the order of the code |
| `Configure(fields, vm, id)` | the statements applied in that order, then the identifier default of lines 222-228 |

## 6. Module `BrokerLogging`

The configuring action, the logging interface and a thread that logs.

### 6.1 State

| variable | code |
|---|---|
| `fields` | the members `initializeFromCmdArgs` assigns, `noAutomaticID` included |
| `consoleLogLevel`, `fileLogLevel`, `loggerFunction` | the members of the same name |
| `loggingObj` | the `unique_ptr<Logger>` and the logger behind it: `exists`, `running`, `halted`, `consoleLevel`, `fileLevel`, `file` |
| `timeCoord` | whether the time coordinator exists |
| `thread` | `_queue_processing_thread`: `none`, `running`, `joined` |
| `ownerPc` | `idle`; `setLogger` between the two steps of `setLoggerFunction`; `newLogger` and `startLogger` between the three steps of `initializeFromCmdArgs` |
| `sender` | the thread that logs: `idle`, or the sink it chose and has not called yet |
| `delivered` | history: what became of the last `sendToLogger`; a message handed to the logger is told apart by the logger it met: running, halted, or created and not yet started |
| `fault` | how the process died, `none` while it lives |
| `inits` | calls of `initializeFromCmdArgs` so far, bounded by `MaxInits` |

The `Logger` class is not in the sources. Its operators (`startLogging`,
`haltLogging`, `changeLevels`) change the record in the way their names and
their use in `BrokerBase.cpp` say; a logger that is not running drops what it
is given. `halted` tells a logger that `haltLogging` stopped from one that
was never started.

### 6.2 Actions

| action | code |
|---|---|
| `initializeFromCmdArgs(args, id)` | lines 166-231: the parser, the assignments, the identifier default, the new time coordinator. An exception of the parser leaves everything as it was |
| `replaceLogger` | lines 233-237: the old logger is destroyed, a new one is created and its file opened; it is not started yet |
| `startLoggerAndThread` | lines 238-240: the logger is started with `maxLogLevel` for both levels, the thread is created. Assigning to a joinable thread is `std::terminate` (`fault = "terminate"`) |
| `joinAllThreads` | lines 157-164, as far as this module sees them: the thread is no longer joinable |
| `generateNewIdentifier(id)` | line 267; `gen_id` (lines 29-39) is a value of `GeneratedIds` |
| `setLoggerFunction(f)`, `setLoggerFunctionReturns` | line 271, and lines 272-285: halt the logger for a callback, restart it without one; the restart branch calls `isRunning` on a null pointer before the broker is configured (`fault = "null_dereference"`) |
| `setLogLevels(c, f)`, `setLogLevel(l)` | lines 294-303 and 288 |
| `sendToLogger(fed, level)` | the tests of lines 247-258: refused, filtered, a callback chosen, the logger chosen, no sink |
| `callLoggerFunction`, `callLoggingObj` | lines 256 and 260: the member is read again when it is used |

The owner's operations are steps of one thread. `sendToLogger` is a thread of
its own: the dispatcher's hooks and its dump log, and the transports, call it
without a lock while the owner changes the callback. `initializeFromCmdArgs`
is cut where that thread can see the difference: `maxLogLevel` is assigned
before the logger is replaced, and the new logger exists before it runs, so
a message may pass the filter of the new level and meet the old logger, or
meet a logger that has not been started. `LevelsAgree` speaks of the states
between the owner's calls and between the two steps of `setLoggerFunction`,
not of the states inside `initializeFromCmdArgs`.

## 7. Module `ValueFederate`

Class `ValueFederate` of `NetworkBrokerData.hpp` (lines 189-776) on top of the
value manager it forwards to. The module has two kinds of definitions, and
`PROJECT.json` tells them apart:

* the **templates and inline wrappers**, whose code is in the header, are
  translated from it and mapped to their lines: the typed and the indexed
  registrations, the subscriptions, the overloads of `publish` and
  `getValue`, the free functions by key, `IndexedName` and `IndexedName2`;
* the **declared members** (`registerPublication`, `registerInput`,
  `addShortcut`, `setDefaultValue`, `publish (pub, data_view)`,
  `getValueRaw`, `updateTime`, the state transitions, `disconnect`, the
  lookups) have no body in the sources. They follow the comment at their
  declaration and sections 3 and 4.6 of `spec.md`, and are marked
  `spec_modelled`, as are the manager's tables.

The properties checked are about the first kind. What the second kind does
(an input after a grant, the update flag, transmit-on-change, the
uniqueness of keys) is stated in the definitions and is the environment the
wrappers and `Cpp98Input` run in; no property is spent on it, because with
no body to compare with it would hold by the way the definition was written.

Names and data blocks are sequences of characters, because what the wrappers
do is put names together (`key + '_' + std::to_string (index1)`) and cut data
at a terminator (`strlen`). `to_string` gives the decimal digits of an integer
with a minus sign, as `std::to_string` does; it is not the identity.

### 7.1 State

| variable | code |
|---|---|
| `phase` | the federate's lifecycle phase: `STARTUP`, `INITIALIZE`, `EXECUTE`, `DONE` |
| `publications` | the publication table in registration order: `key`, `type`, `units`, `targets`, `options`, `lastSent` |
| `inputs` | the input table: `key`, `type`, `units`, `targets`, `default`, `last_value`, `last_update_time`, `updated_flag`, `options`, `callback` |
| `shortcuts` | alias -> input, filled by `addShortcut` |
| `incoming` | value commands that have arrived and wait for a grant: input, time, source, block |
| `currentTime` | the time last granted |
| `genericCallback` | the callback of `setInputNotificationCallback (callback)` |
| `notified` | the `<<input, callback>>` pairs the last `updateTime` invoked |
| `outbound` | the `<<publication, block>>` last handed to the core |
| `returned` | what the last `getValue` returned |

A `Publication` or `Input` object is its position in the table; 0 is an
object that refers to no interface.

### 7.2 Actions

| action | code |
|---|---|
| `registerPublication`, `registerGlobalPublication`, `registerInput`, `registerGlobalInput` | the declared registrations: the local ones prefix the key with the federate's name |
| `registerPublicationOf`, `registerGlobalPublicationOf`, `registerInputOf`, `registerGlobalInputOf` | the templates of lines 245-271 and 327-338: the type is `ValueConverter<X>::type ()` |
| `registerPublicationIndexed`, `registerPublicationIndexed2`, `registerInputIndexed`, `registerInputIndexed2` | lines 281-304 and 346-368: a global registration under `IndexedName`, `IndexedName2` |
| `registerSubscription`, `registerSubscriptionIndexed`, `registerSubscriptionIndexed2` | lines 370-403: an input keyed by its target |
| `addShortcut`, `setDefaultValue`, `setInputOption`, `setPublicationOption`, `addTargetToInput`, `addTargetToPublication`, `setInputNotificationCallback`, `setInputNotificationCallbackFor` | the declared calls of these names, each on one entry of a table |
| `publish`, `publishBlock`, `publishString`, `publishBytes`, `publishValue`, `publishByKey` | lines 470-513 and 697-721: the block as given, a view of the whole `data_block`, up to `strlen`, the first `data_size` bytes, `ValueConverter<X>::convert (value)`, and by the key of the publication |
| `getValueRaw`, `getValue`, `getValueByKey` | lines 440-468 and 723-775 |
| `Deliver` | a value command reaches the federate, for a time after the one granted |
| `updateTime` | the grant of a later time: the commands with `old < t <= new` applied in the order of time and source id, the flags, the callbacks |
| `startupToInitializeStateTransition`, `initializeToExecuteStateTransition`, `disconnect` | the declared overrides |

A call that fails (a registration outside `STARTUP` or with a key that is
taken, a call the header documents with `@throw std::invalid_argument` made
with an object of no interface) raises its exception and leaves the state as
it was: it is a step that is not enabled. `getInput`, `getPublication`,
`getSubscription` and the getters are operators; they change nothing.

Guards the declarations do not give are not added. `addShortcut` documents
no exception and no rule for a name that is an alias already: the model
stores the handle it is given, valid or not, and takes both outcomes for a
repeated name (the first alias kept, the last one kept). `publish` has no
phase rule in the header or the specification. The one guard every call has
is `phase # "DONE"`: interfaces "live until disconnect" (section 3 of
`spec.md`), so a call after it has no interface to work on.

`Next` is `User \/ Dispatch`: user code makes any call with arguments from the
constants, the dispatcher delivers a command or grants a time. `CallsSpec`
is the federate with `User` alone, while nothing reaches it from outside;
the run of the registrations uses it, the run of the input object uses
`Next` through `InputNext`.

The module states safety only. User code and the other federates are under
no obligation to take a step, so no fairness is assumed and nothing is said
to happen eventually. A behaviour may end (the federate has disconnected, or
a bound of the model is used up), so deadlock is not checked in these runs.

## 8. Module `Cpp98Input`

Class `helicscpp::Input` of `Input.hpp`, composed with the federate the input
belongs to: the module extends `ValueFederate` and adds the object.

### 8.1 State

| variable | code |
|---|---|
| `inp` | the member `helics_input inp`; `Input ()` leaves it as it is found, so the initial state takes any handle |
| `abi` | two things about the C library the header does not settle, chosen once: whether the length of a string counts its `'\0'` (`terminator`), whether the length of a vector counts bytes or doubles (`bytes`) |
| `call` | a wrapper between its two C calls: the operation and the size the first call returned |

The C functions are not in the sources. They are operators over the input
table (`helicsInputGetRawValueSize`, `helicsInputGetString`, ...), marked
`spec_modelled`; a call with a `NULL` error argument for a handle of no input
writes nothing and returns the length 0.

### 8.2 Actions

| action | code |
|---|---|
| `Wrap(hsub)` | `Input (hsub)`, the copy constructor, `operator=` |
| `setDefaultRaw`, `setDefaultString`, `setDefaultTyped`, `setDefaultBoolean`, `setDefaultVector` | lines 37-78; the string overload passes `c_str ()` and so cuts at a `'\0'`, the vector overload passes the length in bytes |
| `getRawValue`, `getString`, `getNamedPoint`, `getVectorInto` | lines 81-86, 92-119, 151-156, each in two steps: `Begin` (the size call and the resize) and `End` (the data call, the trimming, the return) |
| `getInteger`, `getBoolean`, `getDouble`, `getComplex`, `getVector` | lines 121-149, one C call each; `getVector (double *, int)` is the only one that passes `hThrowOnError ()` |
| `Single(User)` | any call of `ValueFederate` made by the program that owns the object |
| `Dispatch` | the federate's dispatcher, also while `call` is set |

Containers are sequences: `Buffer(length, written)` is a value-initialised
string or vector with what the C call wrote at its start, `Resized` its
prefix. `Trimmed` is the test of `result[size - 1]` with its two resizes; with
a size of 0 it reads the character before the buffer, and the model takes
both outcomes (`LengthError` for `resize (-1)`, the empty string). `getKey`,
`getUnits` and `getType` construct a string from an array only the library has
written to (`StringOf`): `Indeterminate` when it holds no `'\0'`.

## 9. Modules `NetworkAddress` and `NetworkBrokerData`

Lines 1-168 of `NetworkBrokerData.hpp`. The header has the two enumerations,
the members with their defaults, the constructors and `setInterfaceType`;
these are translated from it. It declares the address functions,
`commandLineParser` and `checkAndUpdateBrokerAddress` with a comment each;
their bodies are in a file that is not among the sources, so the rules are
those of sections 4.1 and 4.2 of `spec.md`. These functions and the helpers
that state their rules are marked `spec_modelled` in `PROJECT.json`: the
two modules are a statement of the specification in TLA+, kept for the day
the bodies are there to compare with, and say nothing yet of the code.

### 9.1 Addresses

An address is a sequence of tokens: a scheme name, the mark `://`, the
brackets, `:` and the pieces between them. `tcp://127.0.0.1:5678` is
`<<"tcp", "://", "127.0.0.1", ":", "5678">>`, `[::1]:80` is `<<"[", ":", ":",
"1", "]", ":", "80">>`. This is the grain the functions work at: they look for
the mark, for the last `:` outside brackets, and read what follows as a
number. `Numeral` (text to number) is `std::stoi`, `PortText` is
`std::to_string`; neither is the identity.

| operator | function | rule |
|---|---|---|
| `stripProtocol`, `removeProtocol` | same names | what follows the mark; the address itself without one |
| `addProtocol`, `insertProtocol` | same names | the scheme of the interface type in front, unless a scheme is there |
| `extractInterfaceandPortString` | same name | split at `PortSeparator`, brackets of the interface removed |
| `extractInterfaceandPort` | same name | the same with the port read as a number; the whole address and -1 without a number |
| `isipv6` | same name | a bracket, or more than one `:` |
| `makePortAddress` | same name | the interface as it is for a negative port or an `ipc`/`inproc` location; otherwise the interface without the port it had, in brackets when it is a bare IPv6 literal, `:` and the port |
| `prioritizeExternalAddresses` | same name | the addresses in both lists, then those of `high` only, then those of `low` only; loopback last within each, no address twice |
| `getLocalExternalAddress`, `...V4`, `...V6` | same names | what the machine reports: the constants `LocalV4`, `LocalV6` |
| `generateMatchingInterfaceAddress` | same name | loopback, the external address or the wildcard of the server's address family, by `interface_networks` |

### 9.2 The record

`netInfo` is the structure with its twenty members (`Defaults` has the values
of lines 46-69), `allowedType` the interface type given to the constructor,
`status` what the last parse reported.

| action | code | effect |
|---|---|---|
| `setInterfaceType (type)` | line 83 | `allowedType` changes; the record is not resolved again |
| `commandLineParser (localAddress, options)` | lines 76-80, 85-88 | the options given overwrite their members, then `checkAndUpdateBrokerAddress` runs; a record that fails it is left as it was and the error is reported |

`checkAndUpdateBrokerAddress` is the rules of section 4.2 in their order:
`MissingBroker` (no broker address, no auto-broker, not a server: refused),
`WithBrokerPort` (the broker port is put into the broker address),
`LocalOnly` (with `LOCAL`, an external address becomes the local one),
`PortsCleared` (`IPC` and `INPROC` keep no port), `ValidPorts` (a port is -1
or positive: otherwise refused).

### 9.3 The configuration

`NetworkBrokerData_config.cfg` with `MCNetworkBrokerData` is not one of the
runs `PROJECT.json` lists, and no hazard of the code rests on it. It is run
by hand (`tlc -config NetworkBrokerData_config.cfg MCNetworkBrokerData`)
and passes with 14,915 states: it shows that the rules of the specification
are consistent with each other. Its constants: the
numerals `1`, `80`, `5678`; broker addresses with and without scheme, port
and brackets, among them `[::1]`, `::1` and an external address; three local
interfaces; option sets that give the broker address with a port, the
interface network, and port numbers 0, -1, 80 and 5678; lists of up to three
of the addresses `a`, `b`, `localhost` for the prioritisation.

* `TypeOK`: the members keep their types, and the ports of a record that was
  accepted are -1 or positive.
* `AddressRoundTrip`: for every server, port and interface network, the
  address `addProtocol (makePortAddress (generateMatchingInterfaceAddress
  (...), port), type)` comes apart under `stripProtocol` and
  `extractInterfaceandPort` into the interface and the port it was made of,
  and `isipv6` says of it what it says of the interface: the brackets that
  `makePortAddress` adds are the ones the split removes.
* `PrioritizeIsTieredOrder`: the result of `prioritizeExternalAddresses`
  holds the addresses of both lists, each once, sorted by tier, then
  loopback, then position in its list; the property ranks the addresses by a
  definition of its own.
* `ParseResolves`: after a parse that was accepted, whatever earlier parses
  left in the record, composing, rewriting and clearing again change
  nothing.

Their mutants: `ValidPortsUnchecked` (port 0 is accepted) breaks `TypeOK`,
`UnbracketedForgotten` (the split keeps the brackets) `AddressRoundTrip`,
`LoopbackLastForgotten` (loopback addresses stay in place)
`PrioritizeIsTieredOrder`, `LocalOnlyForgotten` (`LOCAL` rewrites nothing)
`ParseResolves`.

## 10. Runs

The runs of the dispatcher use `MCBrokerBase`, which gives the constants their values:
domain commands `CMD_TIME_REQUEST` (normal lane) and `CMD_REG_FED` (priority
lane), producer traffic `MCTraffic` (these two, `CMD_IGNORE`, `CMD_STOP`) or
`MCTrafficWithTicks` (a time request, `CMD_STOP`, a plain tick and an
error-flag tick), one command a hook may re-enqueue.

Deadlock is not checked: a behaviour legitimately ends when the loop has
returned and the object is destroyed, or when every bound is used up and the
loop waits in `pop`.

| run | configuration | result | what it shows |
|---|---|---|---|
| `dispatch` | `BrokerBase_dispatch.cfg`: 3 producer commands, 1 hook command, 2 expiries | passes, 1.1 million states | `TypeOK`, `TickConservation`, `TickForwardedIffIdle`, `DumpLogFlushed` under every interleaving |
| `join` | `BrokerBase_join.cfg`: `FairSpec`, 2 producer commands, 1 hook command, 1 expiry | passes, 50 thousand states | `JoinTerminates`, `ImplementsLifecycle` |
| `foreign_ticks` | `BrokerBase_foreign.cfg`: ticks among the producer commands, enqueues may throw, trace bounded by `TraceBound` | passes, 423 thousand states | `TickConservation` in its general form, with the ticks that a swallowed and an escaped exception took counted as lost; `ImplementsLifecycle`; reaches the error-flag branch and both exceptions |
| `destroy_race` | `BrokerBase_destroy.cfg` | violated | `NoEnqueueAfterDestroy`: see Findings |
| `watchdog_lost` | `BrokerBase_watchdog.cfg`: enqueues may throw | violated | `WatchdogAlive` |
| `timer_escape` | `BrokerBase_escape.cfg`: enqueues may throw, 2 producer commands, 2 expiries | violated | `NoExceptionLeavesTimer`: see Findings |
| `config_intake` | `BrokerLogging_intake.cfg`: 22 argument vectors, 2 calls, no log traffic | passes, 2416 states | `TypeOK`, `PrecedenceRespected` |
| `logging_sink` | `BrokerLogging_sink.cfg`: 3 argument vectors, 2 calls, levels 0..2, federate ids 0..2, one user logger | passes, 225 thousand states | `LevelsAgree`, `QuiescentSinkLive` |
| `user_logger` | `BrokerLogging_userlogger.cfg`: as `logging_sink` | violated | `UserLoggerSilencesFile` |
| `log_race` | `BrokerLogging_race.cfg`: as `logging_sink` | violated | `AcceptedReachesSink` |
| `federate_registry` | `ValueFederate_registry.cfg`: `CallsSpec`, keys `a` and `a_1`, index 1, 1 publication, 2 inputs, one shortcut name, publishing with transmit-on-change | passes, 287 thousand states | `TypeOK`, `IndexedNamesDistinct` |
| `input_reads` | `Cpp98Input_reads.cfg`: `InputSpec`, 1 input, every handle and every convention of the library, blocks of 1 and 2 elements, 1 source, buffer of 4 characters | passes, 357 thousand states | `InputTypeOK`, `NamesReadWithinBuffer`, `SizedReadsWhole`, `StringReadsWhole`, `VectorLengthsAgree` |

The runs of configuration and logging use `MCBrokerLogging`. Its argument
vectors are: every subset of the three aliases of `_min_federates`, each with
a value of its own; every subset of `name` and `identifier`; the log options
with the two that are never read; `--dumplog`; the remaining integer options
with an option nobody registered; `--help` and `--version` beside another
option; a command line that does not parse; a configuration file that is
missing, one that repeats options of the command line with other values, one
that holds the hidden `min`, one that holds `help`. `NoValue` is what the map
stores for a switch. The broker starts with or without a name and with or
without `noAutomaticID`.

`PrecedenceRespected` is an action property: it compares the fields before
and after every call with a statement of the precedence that does not use the
order of the assignments (`Precedence`, `InEffect`, `Expected`).

The runs of the federate use `MCValueFederate`, the run of the input object
`MCCpp98Input`. `federate_registry` takes every call of user code with no
value traffic; `input_reads` adds the dispatcher (`Deliver`, `updateTime`)
under the reads of the input object. Between them every action of
`ValueFederate` is taken.

What the properties of these runs say:

* `TypeOK` of `ValueFederate`: among its clauses, the type a publication
  holds is a type name and its units are units. The typed registrations
  pass `ValueConverter<X>::type ()` and the units as two strings side by
  side (lines 245-249); the run has units that are no type name.
* `NoExceptionLeavesTimer`: `lost.escaped` stays 0. Section 7 of `spec.md`
  says exceptions thrown inside `addActionMessage` are logged and swallowed,
  and that the tick timer in particular must never propagate one.
* `IndexedNamesDistinct`: a name an indexed registration has registered is
  the name of one element of its key's structure only. It is compared over
  `IndexRange` = {-1, 1, 2, 11, 12}: `a_1_1` against `a_11`, `a_-1` and the
  like. It holds because the separator is put in front of every index; the
  names of *different* keys do coincide, see section 11.1.
* `ImplementsLifecycle`: section 4.4.
* `NamesReadWithinBuffer`: for a valid handle, what `getKey`, `getUnits` and
  `getType` last returned is a prefix of the stored name and has the length
  of the name or of the buffer less its terminator, whichever is smaller:
  the C string in the array, never the array. For an invalid handle the C
  call writes nothing and the getters return the value `Indeterminate`;
  nothing states what they must return then, so the property says nothing
  of it.
* `SizedReadsWhole`: what `getRawValue` returns never reports more data than
  the buffer has, and when the value held at the second call fits the size of
  the first, it is returned whole. When a longer value has arrived in
  between, the data is cut; when a shorter one has, the vector keeps its
  padding behind the count.
* `StringReadsWhole`: for a valid handle and a value that fits, `getString`
  returns the value held when the library counts the terminator, or when the
  value is not empty and does not end in `'\0'`; `getNamedPoint` returns it
  when the library does not count the terminator.
* `VectorLengthsAgree`: `setDefaultValue (vector)` hands the library the
  vector itself when lengths are bytes; `getVector (vector &)` returns the
  value held when lengths are doubles and the value did not change between
  the calls.

### 10.1 Bounds

* `MaxSends = 3` lets a command, a halt and a stop, or a command between two
  ticks, or a stop followed by more traffic, all happen in one behaviour.
* `MaxTicks = 2` is the least number that shows a tick forwarded, a tick
  absorbed and a second idle tick forwarded again.
* `MaxEmits = 1` lets a hook put a priority or normal command in front of or
  behind the sentinel once; more emissions repeat the same case.
* With foreign ticks every injected tick circulates for ever, so the trace
  grows without bound; `TraceBound` (6 entries) cuts the exploration.
* `join` has `MaxTicks = 1`: the timer fires once and is armed again, the
  two steps that `Tick` of the lifecycle stands for; `foreign_ticks` adds the
  re-arm of an armed timer and the tick that is lost.
* `timer_escape` needs one aborted wait whose handler runs while `active`
  is true: the cancel of an exit branch, and the handler before the flag is
  cleared. The bounds of the run (2 producer commands, 2 expiries) are more
  than that takes; they add the re-arm of an armed timer as a second way
  there.
* `MaxInits = 2` is the least number that shows a field kept from the first
  call when the second does not name it, a call after a refused one, and the
  assignment to a joinable thread.
* Levels `0..2` around the default level 1 give a message below, at and above
  the filter; federate ids `0..2` with `global_broker_id = 1` give the two ids
  that own the log stream and one that does not.
* The logging runs use three argument vectors, the ones that differ in what
  the logger is given; the intake run has no log traffic, which the
  assignments do not depend on.
* `federate_registry`: the keys `a` and `a_1` with index 1 make the indexed
  name of one key the plain name of the other, and a local key (`f.a`) beside
  a global one; `MaxInputs = 2` is the least that lets a shortcut, a local and
  a global key compete for one name; one publication with one target and the
  transmit-on-change option reaches every branch of `publish`, with a block
  `x\0` that the overloads cut differently; the empty units string, which
  is no type name, tells the arguments of a typed registration apart.
* `input_reads`: `MaxInputs = 1` with handles 0 and 1 gives the valid and the
  invalid object; blocks of one and two elements, the second ending in
  `'\0'`, give a value that grows and one that shrinks between two C calls
  and a string that ends in a terminator of its own; `SizeofDouble = 2` tells
  bytes from doubles; `BufferLength = 4` holds the global key of three characters with its
  terminator and cuts the local key of five (`f.key`) to three, so a name
  is read at the limit of the buffer and beyond it. `MaxLen = 2` covers a `maxlen` below, at and above the data.

### 10.2 Mutants

Each property of a passing run is shown to detect a plausible change of the
code, defined in its module before the definition it replaces:

| property | mutation |
|---|---|
| `TypeOK` | the tick decrements the counter instead of resetting it (`ResetTickCounterByOne`) |
| `TickConservation` (`dispatch`) | the timer is not re-armed (`RescheduleTimerForgotten`) |
| `TickForwardedIffIdle` | the counter is not reset by a tick (`ResetTickCounterKept`) |
| `DumpLogFlushed` | `logDump` is not called on the way out (`logDumpForgotten`) |
| `JoinTerminates` | `joinAllThreads` joins without pushing the sentinel (`joinAllThreadsNoSentinel`) |
| `TickConservation` (`foreign_ticks`) | an aborted wait posts nothing (`PostErrorTickSkipped`) |
| `ImplementsLifecycle` (`join`) | the terminate branch does not clear `mainLoopIsRunning` (`TerminateFlagKept`) |
| `ImplementsLifecycle` (`foreign_ticks`) | the loop returns without cancelling the timer (`CancelTimerForgotten`) |
| `TypeOK` (`config_intake`) | `dumplog` takes the value stored for the switch instead of `true` (`assignedStored`) |
| `PrecedenceRespected` | `identifier` is read before `name` and `federates` before `minfed` (`AssignmentsReordered`) |
| `LevelsAgree` | the logger is started with `consoleLogLevel` and `fileLogLevel` (`StartedLoggerOwnLevels`) |
| `QuiescentSinkLive` | removing the callback does not restart the logger (`AdjustFileLoggerNoRestart`) |
| `TypeOK` (`federate_registry`) | the typed registration passes units and type in the wrong order (`registerPublicationOfSwapped`) |
| `IndexedNamesDistinct` | the second separator is left out (`IndexedName2Joined`) |
| `InputTypeOK` | `getVector (vector &)` turns the size into bytes, as the setter does (`getVectorIntoBytes`) |
| `NamesReadWithinBuffer` | the string is built from the whole array, not from the C string in it (`StringOfArray`) |
| `SizedReadsWhole` | the data call is given the length the vector had before the resize (`getRawValueUnsized`) |
| `StringReadsWhole` | `getString` does not look for the terminator (`getStringUntrimmed`) |
| `VectorLengthsAgree` | the setter passes the number of doubles (`VectorGivenCounted`) |

## 11. Findings

1. **Halted stop leaves the callback armed** (`destroy_race`). With
   `haltOperations` set, the `CMD_STOP` branch cancels the timer and returns
   (line 433) without clearing `active` or `mainLoopIsRunning`. The aborted
   wait's handler is still queued; when it runs, the flag is true and it calls
   `bbase->addActionMessage`. `joinAllThreads` has returned by then, so the
   destructor may have finished: a use of a destroyed object.
2. **A failed enqueue stops the ticks** (`watchdog_lost`). The swallowed
   exception in `timerTickHandler` leaves no wait outstanding and no tick in
   the queue; only a dispatched tick re-arms the timer.
3. **A user logger installed first does not silence the file logger**
   (`user_logger`). `setLoggerFunction (f)` halts the logger that exists.
   `initializeFromCmdArgs` afterwards creates a logger and starts it (line
   238) without a look at `loggerFunction`. The design says the file logger
   is halted while a user logger is installed.
4. **`sendToLogger` races `setLoggerFunction`** (`log_race`). The callback is
   tested at line 254 and called at 256; the owner may empty it in between,
   and the call throws `std::bad_function_call` on the logging thread. The
   logger is tested at 258 and used at 260; the owner may halt it in between
   and the accepted message is dropped. Both members are plain, neither
   function takes a lock.

5. **An exception leaves the timer's callback** (`timer_escape`). The
   branch of a completed wait calls `addActionMessage` inside `try` (lines
   339-346). The branch of an aborted wait (lines 348-352) calls it with no
   `try` around it: when the enqueue throws there, the exception leaves
   `timerTickHandler` with the lock on `active` released by unwinding and
   reaches the io service's `run`, on a thread every broker of the process
   shares. Section 7 of `spec.md` says the tick timer must never propagate.
   TLC reaches it in five steps: the thread is started, `joinAllThreads`
   pushes its sentinel, the loop arms the timer, the terminate branch
   cancels it (line 415), and the aborted handler runs before `active` is
   cleared (line 418).

### 11.1 Observations

What the models show and no run is spent on.

Broker: the design says the guarded flag is cleared before the timer is
cancelled; the code cancels first (415, 422) and clears the flag later (418,
428), so a handler that runs in between enqueues a tick nobody will read
(with the object alive this is harmless; on the halted path it is finding 1).
The design's tick idempotence speaks of any non-tick command since the last
tick; the code counts only commands that reached a hook, so a tick after a
`CMD_IGNORE` or a dropped command is forwarded (`TickForwardedIffIdle` states
what the code does, and holds). The halted `CMD_STOP` path returns (line
433) without `logDump ()`: with `--dumplog` the recorded commands of a halted
broker are never written, which `DumpLogFlushed` excludes as not a normal
termination. `setLoggerFunction` with an empty
function before `initializeFromCmdArgs` dereferences a null `loggingObj`
(line 282; the other branch tests the pointer); a second
`initializeFromCmdArgs` without `joinAllThreads` in between assigns to a
joinable `std::thread` (line 239) and ends the process; `--fileloglevel` and
`--consoleloglevel` are registered and never read; `--loglevel` changes
`maxLogLevel` and leaves `consoleLogLevel` and `fileLogLevel` behind. Two
more: the sentinel of `joinAllThreads`
goes to the normal lane, so commands queued before it and every priority
command are dispatched before the loop ends (the design calls the sentinel a
hard cancel "observed within one queue iteration after enqueue", and also
says it is pushed to the normal lane); and `processDisconnect` is called after
the flags are cleared and the dump log is flushed, where the design lists it
before the teardown.

Value federate:

* The indexed names of different keys coincide: `registerInputIndexed ("a",
  1, 2)` and `registerInputIndexed ("a_1", 2)` both register `a_1_2`, and
  the plain key `a_1` is element 1 of `a`. The second registration fails as a
  duplicate, and `getInput ("a", 1)` returns an input that was never
  registered as an element. Within one key the names are distinct
  (`IndexedNamesDistinct`); no property is stated of different keys,
  because neither the header nor the specification says the names must
  differ.
* A local key hides a global key of the same spelling in `getInput` and
  `getPublication`; during `STARTUP` a later registration takes a name over
  from a shortcut or a global key.
* `queryUpdates` after a grant returns every input whose flag is raised,
  also one raised by an earlier grant and not read since, and with
  `ONLY_UPDATE_ON_CHANGE` not one that received the value it held; the
  specification's "exactly the inputs whose flag was set during this step"
  holds only when every update is read before the next grant and the option
  is off.
* `addTargetIndexed` (lines 530-554) calls `addTarget` with three arguments;
  no such overload exists, so the template cannot be instantiated.

Network configuration:

* A bare IPv6 literal has no last `:` that is a port separator, yet the rule
  "the last `:` outside brackets" finds one: `::1` comes apart as interface
  `:` and port 1. `makePortAddress` brackets such a literal, so composed
  addresses are not affected (`AddressRoundTrip`); a broker address a user
  writes that way is.
* The broker address is composed with the broker port before the ports of an
  `IPC` or `INPROC` type are cleared: the address keeps a port the members no
  longer have.
* `brokerPort` and a port already in `brokerAddress` may disagree; the rules
  do not say which one holds. The model keeps the one in the address.
* The grammar of section 4.1 has ports 1..65535; the validity rule of
  section 4.2 has no upper bound.
* Section 4.1 does not say what `extractInterfaceandPort` returns as the
  interface when what follows the separator is not a number; the model
  returns the whole address.

C++98 input:

* **Torn read.** A value that arrives between the size call and the data call
  of `getRawValue`, `getString`, `getNamedPoint` or `getVector (vector &)` is
  returned cut to the old size, or followed by the padding of the old size;
  `getVector (vector &)` discards the count that would tell. The read clears
  the update flag all the same, so the value is not offered again.
* **Terminator.** `getString` trims one character when the last one is
  `'\0'`; `getNamedPoint` does not. If the library counts the terminator,
  `getNamedPoint` returns the name with a `'\0'` at its end; if it does not,
  `getString` removes a `'\0'` that belongs to the value. No convention makes
  both exact.
* **Empty string.** With a length of 0 (an empty value under a library that
  does not count the terminator, or an invalid handle) `getString` tests
  `result[-1]`.
* **Vector lengths.** `setDefaultValue (vector)` passes `size * sizeof
  (double)`, `getVector (vector &)` resizes to the size the library reports
  and passes it on as the capacity. Under a library that counts doubles the
  setter makes it read past the end of the vector; under one that counts
  bytes the getter returns a vector `sizeof (double)` times too long.
* **Uninitialised buffer.** `getKey`, `getUnits` and `getType` read a
  `char[255]` the library has not written to when the handle is invalid; a
  name of 255 characters or more is cut.
* `setDefaultValue (std::string)` cuts the default at an embedded `'\0'`;
  the raw overload keeps it.
* `Input ()` leaves the handle uninitialised, and every member but `getVector
  (double *, int)` passes a `NULL` error argument: a call on such an object
  fails without a sign.

## 12. Not modelled

* The contents of commands beyond action and error flag, the text of log
  lines, the option parser's help output, `displayHelp`, the `Logger` beyond
  its running flag, levels and file.
* The concrete broker's hooks, except that they may re-enqueue a command.
* Two threads inside `joinAllThreads` at once. Both pass `joinable ()` and
  both join one `std::thread`, which is undefined behaviour: every outcome
  is one a build can produce, so no property holds of a model of it, and
  neither the specification nor a comment says the function may be called
  from two threads. The model lets one caller in at a time.
* The overflow of `messagesSinceLastTick`. It takes 2^31 commands without a
  tick; that no tick may ever come again is what `WatchdogAlive` shows. A
  counter of a smaller width would overflow in states the program does not
  reach.
* What `processDisconnect` and the other hooks of a concrete broker do, and
  the move constructor of `ActionMessage`: the sources have neither, so the
  command whose flag line 402 reads after the move is the popped one.
* A repeated `initializeFromCmdArgs` and `setLoggerFunction` with an empty
  function before it: `BrokerLogging` has both and reaches their faults
  (`terminate`, `null_dereference`), but nothing says the calls are allowed
  or forbidden, so they are observations (section 11.1) and no property.
* The time coordinator, the asio service manager and the logger object:
  their code is not in the sources, and `BrokerBase` uses them through
  a handful of calls only (`setMessageSender`, `runServiceLoop`,
  `startLogging`, `isRunning`, `changeLevels`, `log`), which are steps of
  `BrokerBase` and `BrokerLogging`. A model of the time coordinator written
  from section 4.5 of `spec.md` alone would compare the specification with
  itself.
* A composition of the network configuration with the broker: neither the
  sources nor the specification has a call from one to the other.
* Of the network configuration: what `getLocalExternalAddress` asks the
  operating system (two constants), the options of the command line that no
  rule of section 4.2 reads, and the characters inside a host name or a
  number. The bodies of the address functions are not in the sources; the
  model has what the header's comments and sections 4.1 and 4.2 say of them.
* Of `ValueFederate`: `registerInterfaces` and `registerValueInterfaces`
  (they read JSON and TOML files), `localQuery` (a report as a string), the
  overloads of `getInput` and `getPublication` that take a position, the move
  constructor and assignment, `addTargetIndexed` (cannot be instantiated).
  Other federates, the core and time coordination are the environment:
  `Deliver` and `updateTime` with any arguments the contract allows.
* Of the data: the bytes of a typed value. A `ValueConverter<X>` is a
  function from the values of the model to blocks and `interpret` its
  inverse, `Garbage` for a block of another codec.
* The value part of `getNamedPoint` (`double *val`): the name is what the
  wrapper handles.
