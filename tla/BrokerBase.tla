----------------------------- MODULE BrokerBase -----------------------------
(***************************************************************************)
(* The dispatcher of a HELICS broker or core (BrokerBase.cpp): the thread  *)
(* that runs queueProcessingLoop, the tick timer whose completion handler  *)
(* runs on the asio service thread, the threads that hand commands to      *)
(* addActionMessage, and the owner that joins the thread and destroys the  *)
(* object.                                                                 *)
(*                                                                         *)
(* Commands are abstracted to their action and their error flag: the loop  *)
(* branches on nothing else.  The hooks of the concrete broker             *)
(* (processCommand, processPriorityCommand, processDisconnect) are         *)
(* recorded in `trace`; what they may do to this component is hand a       *)
(* command back to addActionMessage, which is how the time coordinator's   *)
(* message sender is wired.                                                *)
(***************************************************************************)
EXTENDS Naturals, Sequences, FiniteSetsExt, CommandQueue

CONSTANTS
    NormalCommands,    \* domain actions isPriorityCommand rejects
    PriorityCommands,  \* domain actions isPriorityCommand accepts
    ProducerMessages,  \* the commands transports and user code may enqueue
    HookMessages,      \* the commands a hook may hand back to the queue
    dumplog,           \* the --dumplog option
    EnqueueMayFail,    \* addActionMessage may throw in the timer callback
    MaxSends,          \* bound on the commands producers enqueue
    MaxEmits,          \* bound on the commands hooks enqueue
    MaxTicks           \* bound on the expirations of the tick timer

CMD_TICK == "CMD_TICK"
CMD_IGNORE == "CMD_IGNORE"
CMD_STOP == "CMD_STOP"
CMD_TERMINATE_IMMEDIATELY == "CMD_TERMINATE_IMMEDIATELY"

LoopCommands == {CMD_TICK, CMD_IGNORE, CMD_STOP, CMD_TERMINATE_IMMEDIATELY}
Actions == LoopCommands \cup NormalCommands \cup PriorityCommands
Message == [action : Actions, error : BOOLEAN]

Cmd(a) == [action |-> a, error |-> FALSE]
ErrorTick == [action |-> CMD_TICK, error |-> TRUE]

ASSUME /\ NormalCommands \cap PriorityCommands = {}
       /\ LoopCommands \cap (NormalCommands \cup PriorityCommands) = {}
       /\ ProducerMessages \subseteq Message
       /\ HookMessages \subseteq Message
       /\ dumplog \in BOOLEAN /\ EnqueueMayFail \in BOOLEAN
       /\ MaxSends \in Nat /\ MaxEmits \in Nat /\ MaxTicks \in Nat

VARIABLES
    queue,                 \* _queue
    pc,                    \* where the dispatcher thread is
    messagesSinceLastTick,
    mainLoopIsRunning,
    haltOperations,
    serviceLoop,           \* the handle runServiceLoop returned, or "none"
    dumpMessages,
    dumpLogged,            \* what logDump handed to the logger
    ticktimer,             \* TRUE while an async_wait is outstanding
    handlers,              \* completion handlers queued on the io service
    active,                \* the guarded bool the handlers share
    joinState,             \* joinAllThreads: idle, waiting in join, joined
    lifecycle,             \* the BrokerBase object: alive .. destroyed
    trace,                 \* history: what the loop did with each command
    sent, emitted, expired,\* bounded counters of the environment
    injected, lost         \* history: ticks not from the timer, ticks whose enqueue threw

loopVars == <<pc, messagesSinceLastTick, mainLoopIsRunning, serviceLoop,
              dumpMessages, dumpLogged, trace>>
timerVars == <<ticktimer, handlers, expired>>
ownerVars == <<joinState, lifecycle>>
envVars == <<sent, injected, haltOperations>>
vars == <<queue, loopVars, timerVars, active, ownerVars, envVars, emitted, lost>>

Hooks == {"processCommand", "processPriorityCommand", "processDisconnect", "none"}
Entry == [action : Actions, hook : Hooks, reset : BOOLEAN]

-----------------------------------------------------------------------------
(* Helpers                                                                 *)

isPriorityCommand(m) == m.action \in PriorityCommands

(* addActionMessage, both overloads: route by isPriorityCommand.           *)
addActionMessage(q, m) ==
    IF isPriorityCommand(m) THEN pushPriority(q, m) ELSE push(q, m)

IsTick(m) == m.action = CMD_TICK

(* The ticks waiting in a queue.                                           *)
TicksIn(q) == Len(SelectSeq(contents(q), IsTick))

(* A hook runs on the dispatcher thread with the rest of the queue `q`.    *)
(* The time coordinator's sender is [this](msg){addActionMessage(msg);},   *)
(* so a hook may put one command back.                                     *)
Hook(q) ==
    \/ /\ queue' = q
       /\ UNCHANGED emitted
    \/ /\ emitted < MaxEmits
       /\ \E e \in HookMessages : queue' = addActionMessage(q, e)
       /\ emitted' = emitted + 1

NoHook(q) == queue' = q /\ UNCHANGED emitted

(* auto command = _queue.pop (); if (dumplog) dumpMessages.push_back       *)
Popped(command) ==
    dumpMessages' = IF dumplog THEN Append(dumpMessages, command.action)
                               ELSE dumpMessages

(* Mutant: the timer is not re-armed.                                      *)
RescheduleTimerForgotten == UNCHANGED <<ticktimer, handlers>>

(* expires_at + async_wait: an outstanding wait completes with             *)
(* operation_aborted, and a new wait is outstanding.                       *)
RescheduleTimer ==
    /\ ticktimer' = TRUE
    /\ handlers' = IF ticktimer THEN [handlers EXCEPT !.aborted = @ + 1]
                                ELSE handlers

(* Mutant: the loop returns without cancelling the timer.                  *)
CancelTimerForgotten == UNCHANGED <<ticktimer, handlers>>

(* ticktimer.cancel(): the outstanding wait completes with                 *)
(* operation_aborted; a handler already queued is not touched.             *)
CancelTimer ==
    /\ ticktimer' = FALSE
    /\ handlers' = IF ticktimer THEN [handlers EXCEPT !.aborted = @ + 1]
                                ELSE handlers

(* Mutant: the counter is not reset by a tick.                             *)
ResetTickCounterKept == UNCHANGED messagesSinceLastTick

(* Mutant: the tick consumes one counted message instead of all of them.   *)
ResetTickCounterByOne == messagesSinceLastTick' = messagesSinceLastTick - 1

(* messagesSinceLastTick = 0 after every tick.                             *)
ResetTickCounter == messagesSinceLastTick' = 0

(* Mutant: the dump log is not written on the way out.                     *)
logDumpForgotten == UNCHANGED dumpLogged

(* The lambda logDump.                                                     *)
logDump == dumpLogged' = IF dumplog THEN dumpMessages ELSE dumpLogged

(* The body of joinAllThreads when the thread is joinable: the sentinel    *)
(* goes to the normal lane, then the caller waits in join.                 *)
Joinable == pc # "created" /\ joinState # "joined"

(* Mutant: joinAllThreads joins without pushing the sentinel.              *)
joinAllThreadsNoSentinel ==
    IF Joinable
    THEN /\ joinState' = "waiting"
         /\ UNCHANGED queue
    ELSE UNCHANGED <<queue, joinState>>

joinAllThreads ==
    IF Joinable
    THEN /\ queue' = push(queue, Cmd(CMD_TERMINATE_IMMEDIATELY))
         /\ joinState' = "waiting"
    ELSE UNCHANGED <<queue, joinState>>

-----------------------------------------------------------------------------
(* The owner: configuration, join, destruction                             *)

(* initializeFromCmdArgs: the options are read (module BrokerConfig), the  *)
(* time coordinator and the logger are created, the thread is started.     *)
Initialize ==
    /\ lifecycle = "alive"
    /\ pc = "created"
    /\ pc' = "spawned"
    /\ UNCHANGED <<queue, messagesSinceLastTick, mainLoopIsRunning, serviceLoop,
                   dumpMessages, dumpLogged, trace, timerVars, active, ownerVars,
                   envVars, emitted, lost>>

(* joinAllThreads called by the concrete broker.                           *)
JoinAllThreads ==
    /\ lifecycle = "alive"
    /\ joinState = "idle"
    /\ Joinable
    /\ joinAllThreads
    /\ UNCHANGED <<loopVars, timerVars, active, lifecycle, envVars, emitted, lost>>

(* std::thread::join returns once queueProcessingLoop has returned.        *)
JoinReturns ==
    /\ joinState = "waiting"
    /\ pc = "done"
    /\ joinState' = "joined"
    /\ UNCHANGED <<queue, loopVars, timerVars, active, lifecycle, envVars,
                   emitted, lost>>

(* ~BrokerBase () { joinAllThreads (); }                                    *)
Destructor ==
    /\ lifecycle = "alive"
    /\ joinState # "waiting"
    /\ lifecycle' = "destructing"
    /\ joinAllThreads
    /\ UNCHANGED <<loopVars, timerVars, active, envVars, emitted, lost>>

(* The destructor returns: the members, the queue among them, are gone.    *)
Destroyed ==
    /\ lifecycle = "destructing"
    /\ joinState # "waiting"
    /\ lifecycle' = "destroyed"
    /\ UNCHANGED <<queue, loopVars, timerVars, active, joinState, envVars,
                   emitted, lost>>

-----------------------------------------------------------------------------
(* The environment: producers and the concrete broker                      *)

(* A transport or the federate's own thread calls addActionMessage.        *)
Send(m) ==
    /\ lifecycle = "alive"
    /\ sent < MaxSends
    /\ queue' = addActionMessage(queue, m)
    /\ sent' = sent + 1
    /\ injected' = IF IsTick(m) THEN injected + 1 ELSE injected
    /\ UNCHANGED <<loopVars, timerVars, active, ownerVars, haltOperations,
                   emitted, lost>>

(* The concrete broker sets haltOperations (on an error or a disconnect).  *)
Halt ==
    /\ lifecycle = "alive"
    /\ ~haltOperations
    /\ haltOperations' = TRUE
    /\ UNCHANGED <<queue, loopVars, timerVars, active, ownerVars, sent, injected,
                   emitted, lost>>

-----------------------------------------------------------------------------
(* The tick timer and its completion handler                               *)

(* The steady timer reaches its expiry: the wait completes successfully    *)
(* and its handler is queued on the io service.                            *)
TimerExpires ==
    /\ ticktimer
    /\ expired < MaxTicks
    /\ ticktimer' = FALSE
    /\ handlers' = [handlers EXCEPT !.ok = @ + 1]
    /\ expired' = expired + 1
    /\ UNCHANGED <<queue, loopVars, active, ownerVars, envVars, emitted, lost>>

(* Mutant: an aborted wait is ignored, as handlers of cancelled waits      *)
(* commonly are.                                                           *)
PostErrorTickSkipped == UNCHANGED <<queue, lost>>

(* The else branch of timerTickHandler: ActionMessage M (CMD_TICK) with    *)
(* the error flag set goes to the queue, outside any try block.            *)
PostErrorTick ==
    /\ queue' = addActionMessage(queue, ErrorTick)
    /\ UNCHANGED lost

(* The catch block of the branch of a completed wait: what                 *)
(* addActionMessage threw is reported and goes no further.                 *)
Swallowed == lost' = [lost EXCEPT !.swallowed = @ + 1]

(* addActionMessage throws in the else branch: no try block is around it,  *)
(* so the exception leaves timerTickHandler for the thread that runs the   *)
(* io service.                                                             *)
Escaped == lost' = [lost EXCEPT !.escaped = @ + 1]

(* timerTickHandler, run by the service thread with the lock on `active`   *)
(* held from the test to the enqueue.  A wait that completed posts a tick  *)
(* and catches what addActionMessage throws; an aborted wait posts a tick  *)
(* with the error flag, outside the try block.  Either way a throwing      *)
(* enqueue leaves no tick in the queue.                                    *)
timerTickHandler(error) ==
    /\ handlers[error] > 0
    /\ handlers' = [handlers EXCEPT ![error] = @ - 1]
    /\ \/ /\ active
          /\ error = "ok"
          /\ queue' = addActionMessage(queue, Cmd(CMD_TICK))
          /\ UNCHANGED lost
       \/ /\ active
          /\ error = "ok"
          /\ EnqueueMayFail
          /\ Swallowed
          /\ UNCHANGED queue
       \/ /\ active
          /\ error = "aborted"
          /\ PostErrorTick
       \/ /\ active
          /\ error = "aborted"
          /\ EnqueueMayFail
          /\ Escaped
          /\ UNCHANGED queue
       \/ /\ ~active
          /\ UNCHANGED <<queue, lost>>
    /\ UNCHANGED <<loopVars, ticktimer, expired, active, ownerVars, envVars, emitted>>

-----------------------------------------------------------------------------
(* The dispatcher thread: queueProcessingLoop                              *)

(* From the start of the thread to the first pop: the flag, the service    *)
(* loop, the timer armed, the counter zero.                                *)
LoopStart ==
    /\ pc = "spawned"
    /\ pc' = "pop"
    /\ mainLoopIsRunning' = TRUE
    /\ serviceLoop' = "running"
    /\ active' = TRUE
    /\ RescheduleTimer
    /\ ResetTickCounter
    /\ dumpMessages' = <<>>
    /\ UNCHANGED <<queue, dumpLogged, trace, expired, ownerVars, envVars,
                   emitted, lost>>

(* case CMD_TICK: forwarded to processCommand when nothing was counted     *)
(* since the last tick; the service loop is rebuilt when the tick carries  *)
(* the error flag; the counter is reset and the timer re-armed.            *)
DispatchTick ==
    /\ pc = "pop"
    /\ ~empty(queue)
    /\ LET command == front(queue)
           forwarded == messagesSinceLastTick = 0
       IN /\ command.action = CMD_TICK
          /\ Popped(command)
          /\ IF forwarded THEN Hook(pop(queue)) ELSE NoHook(pop(queue))
          /\ serviceLoop' = "running"
          /\ trace' = Append(trace,
                 [action |-> CMD_TICK,
                  hook |-> IF forwarded THEN "processCommand" ELSE "none",
                  reset |-> command.error])
    /\ ResetTickCounter
    /\ RescheduleTimer
    /\ UNCHANGED <<pc, mainLoopIsRunning, dumpLogged, expired, active, ownerVars,
                   envVars, lost>>

(* case CMD_IGNORE: break.                                                 *)
DispatchIgnore ==
    /\ pc = "pop"
    /\ ~empty(queue)
    /\ LET command == front(queue)
       IN /\ command.action = CMD_IGNORE
          /\ Popped(command)
          /\ NoHook(pop(queue))
          /\ trace' = Append(trace,
                 [action |-> CMD_IGNORE, hook |-> "none", reset |-> FALSE])
    /\ UNCHANGED <<pc, messagesSinceLastTick, mainLoopIsRunning, serviceLoop,
                   dumpLogged, timerVars, active, ownerVars, envVars, lost>>

(* The body of the default branch: the command is counted and handed to    *)
(* the hook its lane names.                                                *)
ProcessCounted(command) ==
    /\ messagesSinceLastTick' = messagesSinceLastTick + 1
    /\ Hook(pop(queue))
    /\ trace' = Append(trace,
           [action |-> command.action,
            hook |-> IF isPriorityCommand(command) THEN "processPriorityCommand"
                                                   ELSE "processCommand",
            reset |-> FALSE])

(* The default branch with operations halted: the command is neither       *)
(* counted nor handed to a hook.                                           *)
Drop(command) ==
    /\ NoHook(pop(queue))
    /\ UNCHANGED messagesSinceLastTick
    /\ trace' = Append(trace,
           [action |-> command.action, hook |-> "none", reset |-> FALSE])

(* default: a domain command is processed, or dropped when operations are  *)
(* halted.                                                                 *)
DispatchCommand ==
    /\ pc = "pop"
    /\ ~empty(queue)
    /\ LET command == front(queue)
       IN /\ command.action \notin LoopCommands
          /\ Popped(command)
          /\ IF haltOperations THEN Drop(command) ELSE ProcessCounted(command)
    /\ UNCHANGED <<pc, mainLoopIsRunning, serviceLoop, dumpLogged, timerVars,
                   active, ownerVars, envVars, lost>>

(* case CMD_TERMINATE_IMMEDIATELY, first two statements: the timer is      *)
(* cancelled and the service loop released.                                *)
DispatchTerminate ==
    /\ pc = "pop"
    /\ ~empty(queue)
    /\ LET command == front(queue)
       IN /\ command.action = CMD_TERMINATE_IMMEDIATELY
          /\ Popped(command)
          /\ NoHook(pop(queue))
          /\ trace' = Append(trace,
                 [action |-> command.action, hook |-> "none", reset |-> FALSE])
    /\ CancelTimer
    /\ serviceLoop' = "none"
    /\ pc' = "terminating"
    /\ UNCHANGED <<messagesSinceLastTick, mainLoopIsRunning, dumpLogged, expired,
                   active, ownerVars, envVars, lost>>

(* case CMD_STOP, first two statements: as for the terminate command.      *)
DispatchStop ==
    /\ pc = "pop"
    /\ ~empty(queue)
    /\ LET command == front(queue)
       IN /\ command.action = CMD_STOP
          /\ Popped(command)
          /\ NoHook(pop(queue))
    /\ CancelTimer
    /\ serviceLoop' = "none"
    /\ pc' = "stopping"
    /\ UNCHANGED <<messagesSinceLastTick, mainLoopIsRunning, dumpLogged, trace,
                   expired, active, ownerVars, envVars, lost>>

(* Mutant: the terminate branch goes on without clearing the flag.         *)
TerminateFlagKept ==
    /\ pc = "terminating"
    /\ pc' = "deactivating"
    /\ UNCHANGED <<queue, messagesSinceLastTick, mainLoopIsRunning, serviceLoop,
                   dumpMessages, dumpLogged, trace, timerVars, active, ownerVars,
                   envVars, emitted, lost>>

(* mainLoopIsRunning.store (false) of the terminate branch.                *)
TerminateFlag ==
    /\ pc = "terminating"
    /\ mainLoopIsRunning' = FALSE
    /\ pc' = "deactivating"
    /\ UNCHANGED <<queue, messagesSinceLastTick, serviceLoop, dumpMessages,
                   dumpLogged, trace, timerVars, active, ownerVars, envVars,
                   emitted, lost>>

(* The stop branch after the cancel: a halted broker returns at once,      *)
(* leaving both flags as they are; otherwise the stop command is           *)
(* processed and mainLoopIsRunning cleared.                                *)
StopProcess ==
    /\ pc = "stopping"
    /\ IF haltOperations
       THEN /\ pc' = "done"
            /\ NoHook(queue)
            /\ trace' = Append(trace,
                   [action |-> CMD_STOP, hook |-> "none", reset |-> FALSE])
            /\ UNCHANGED mainLoopIsRunning
       ELSE /\ pc' = "disconnecting"
            /\ Hook(queue)
            /\ trace' = Append(trace,
                   [action |-> CMD_STOP, hook |-> "processCommand", reset |-> FALSE])
            /\ mainLoopIsRunning' = FALSE
    /\ UNCHANGED <<messagesSinceLastTick, serviceLoop, dumpMessages, dumpLogged,
                   timerVars, active, ownerVars, envVars, lost>>

(* active->store (false); logDump (); and the return: plain after a        *)
(* terminate command, through processDisconnect after a stop.              *)
Deactivate ==
    /\ pc \in {"deactivating", "disconnecting"}
    /\ active' = FALSE
    /\ logDump
    /\ trace' = IF pc = "disconnecting"
                THEN Append(trace, [action |-> CMD_STOP,
                                    hook |-> "processDisconnect", reset |-> FALSE])
                ELSE trace
    /\ pc' = "done"
    /\ UNCHANGED <<queue, messagesSinceLastTick, mainLoopIsRunning, serviceLoop,
                   dumpMessages, timerVars, ownerVars, envVars, emitted, lost>>

Dispatcher ==
    \/ LoopStart
    \/ DispatchTick
    \/ DispatchIgnore
    \/ DispatchCommand
    \/ DispatchTerminate
    \/ DispatchStop
    \/ TerminateFlag
    \/ StopProcess
    \/ Deactivate

-----------------------------------------------------------------------------
Init ==
    /\ queue = EmptyQueue
    /\ pc = "created"
    /\ messagesSinceLastTick = 0
    /\ mainLoopIsRunning = FALSE
    /\ haltOperations = FALSE
    /\ serviceLoop = "none"
    /\ dumpMessages = <<>>
    /\ dumpLogged = <<>>
    /\ ticktimer = FALSE
    /\ handlers = [ok |-> 0, aborted |-> 0]
    /\ active = FALSE
    /\ joinState = "idle"
    /\ lifecycle = "alive"
    /\ trace = <<>>
    /\ sent = 0 /\ emitted = 0 /\ expired = 0
    /\ injected = 0 /\ lost = [swallowed |-> 0, escaped |-> 0]

Next ==
    \/ Initialize
    \/ JoinAllThreads
    \/ JoinReturns
    \/ Destructor
    \/ Destroyed
    \/ \E m \in ProducerMessages : Send(m)
    \/ Halt
    \/ TimerExpires
    \/ \E error \in {"ok", "aborted"} : timerTickHandler(error)
    \/ Dispatcher

Spec == Init /\ [][Next]_vars

(* The dispatcher is a thread of its own and the joining thread is         *)
(* scheduled: each keeps taking the step it can take.  Nothing is assumed  *)
(* of producers, of the timer, or of the service thread.                   *)
Fairness == WF_vars(Dispatcher) /\ WF_vars(JoinReturns)

FairSpec == Spec /\ Fairness
-----------------------------------------------------------------------------
(* Properties                                                              *)

TypeOK ==
    /\ queue \in [priority : Seq(Message), normal : Seq(Message)]
    /\ pc \in {"created", "spawned", "pop", "terminating", "deactivating",
               "stopping", "disconnecting", "done"}
    /\ messagesSinceLastTick \in Nat
    /\ mainLoopIsRunning \in BOOLEAN
    /\ haltOperations \in BOOLEAN
    /\ serviceLoop \in {"none", "running"}
    /\ dumpMessages \in Seq(Actions)
    /\ dumpLogged \in Seq(Actions)
    /\ ticktimer \in BOOLEAN
    /\ handlers \in [ok : Nat, aborted : Nat]
    /\ active \in BOOLEAN
    /\ joinState \in {"idle", "waiting", "joined"}
    /\ lifecycle \in {"alive", "destructing", "destroyed"}
    /\ trace \in Seq(Entry)
    /\ sent \in 0..MaxSends /\ emitted \in 0..MaxEmits /\ expired \in 0..MaxTicks
    /\ injected \in 0..MaxSends /\ lost \in [swallowed : Nat, escaped : Nat]

(* The ticks on their way to the dispatcher: the outstanding wait, the     *)
(* handlers queued on the io service, the ticks in the command queue.      *)
Outstanding ==
    (IF ticktimer THEN 1 ELSE 0) + handlers.ok + handlers.aborted + TicksIn(queue)

(* Tick conservation.  From the moment the loop arms the timer until it    *)
(* clears `active`, one tick circulates between timer, handler and queue   *)
(* for the timer itself, plus one for every CMD_TICK that came from        *)
(* elsewhere, minus the ticks whose enqueue threw: the re-arm in the       *)
(* CMD_TICK branch, the cancel on exit and timerTickHandler neither        *)
(* duplicate a tick nor let one vanish.  Without foreign ticks exactly one *)
(* circulates, so the error_flag branch of the loop is never entered.      *)
TickConservation ==
    active => Outstanding + lost.swallowed + lost.escaped = 1 + injected

(* No exception leaves the timer callback: whatever addActionMessage       *)
(* throws inside timerTickHandler, in the branch of a completed wait or of *)
(* an aborted one, is caught there and never reaches the thread that runs  *)
(* the io service.                                                         *)
NoExceptionLeavesTimer == lost.escaped = 0

(* The watchdog is alive: while the loop waits in pop a tick is on its     *)
(* way, so the dispatcher cannot sleep forever on an idle queue.  This is  *)
(* what "the tick timer fires every tickTimer ms" needs of the loop and    *)
(* the handler together.                                                   *)
WatchdogAlive == pc = "pop" => Outstanding >= 1

TickAt(i) == trace[i].action = CMD_TICK

(* The commands dispatched after the previous tick and before entry i.     *)
SinceLastTick(i) == {j \in 1..(i - 1) : \A k \in j..(i - 1) : ~TickAt(k)}

(* A tick is forwarded to processCommand exactly when no command reached a *)
(* hook since the previous tick (messagesSinceLastTick, its increment in   *)
(* the default branch and its reset in the CMD_TICK branch): two idle tick *)
(* intervals trigger the secondary action, and traffic suppresses it.      *)
TickForwardedIffIdle ==
    \A i \in DOMAIN trace :
        TickAt(i) => (trace[i].hook = "processCommand"
                        <=> \A j \in SinceLastTick(i) : trace[j].hook = "none")

(* The commands the loop has popped, in the order it popped them: every   *)
(* entry of the trace but the one processDisconnect adds.                  *)
PoppedActions ==
    LET popped == SelectSeq(trace, LAMBDA e : e.hook # "processDisconnect")
    IN [i \in DOMAIN popped |-> popped[i].action]

(* A broker that was halted when it popped CMD_STOP: the one return that   *)
(* is not a normal termination.                                            *)
HaltedStop ==
    /\ trace # <<>>
    /\ trace[Len(trace)] = [action |-> CMD_STOP, hook |-> "none", reset |-> FALSE]

(* With --dumplog, a loop that has terminated normally (by the sentinel    *)
(* of joinAllThreads or by a CMD_STOP it processed) has handed the logger  *)
(* every command it ever popped, the terminating one and the ones that     *)
(* were ignored, absorbed or dropped included, in the order of the pops:   *)
(* dumpMessages.push_back on every pop and logDump on the way out.         *)
DumpLogFlushed ==
    dumplog /\ pc = "done" /\ ~HaltedStop => dumpLogged = PoppedActions

(* joinAllThreads returns: the sentinel it pushed to the normal lane is    *)
(* reached behind whatever was queued before it, whatever the hooks add    *)
(* and whether or not the loop had already returned.                       *)
JoinTerminates == (joinState = "waiting") ~> (joinState = "joined")

(* The stage of section 4.4 the broker is in: the dispatcher's place in    *)
(* queueProcessingLoop, and DONE once joinAllThreads has its thread back.  *)
Stage ==
    IF pc = "done" /\ joinState = "joined"
    THEN "DONE"
    ELSE [created |-> "CREATED", spawned |-> "CONFIGURED", pop |-> "RUNNING",
          terminating |-> "TERMINATING", stopping |-> "TERMINATING",
          deactivating |-> "TERMINATING", disconnecting |-> "TERMINATING",
          done |-> "TERMINATING"][pc]

Life ==
    INSTANCE BrokerLifecycle WITH
        state <- Stage,
        running <- mainLoopIsRunning,
        timerArmed <- ticktimer,
        serviceHeld <- (serviceLoop = "running"),
        halted <- haltOperations

(* The broker goes through the lifecycle of section 4.4 and through no     *)
(* other: every step of the owner, the producers, the timer, its handlers  *)
(* and queueProcessingLoop is a step of BrokerLifecycle or leaves what it  *)
(* describes alone.  So isRunning() holds from LoopStart to the store in   *)
(* the terminate or stop branch; ticktimer is armed only between LoopStart *)
(* and the cancel, whatever the handlers and the CMD_TICK branch do in     *)
(* between; and when joinAllThreads returns the timer is cancelled, the    *)
(* service loop released and, unless operations were halted, isRunning()   *)
(* false.                                                                  *)
ImplementsLifecycle == Life!Spec

(* The timer callback holds a raw pointer to the broker; `active` is what  *)
(* keeps it from using the pointer after the loop is gone.  Once the       *)
(* destructor has returned nothing enqueues into the broker's queue.       *)
NoEnqueueAfterDestroy ==
    [][lifecycle = "destroyed" => queue' = queue]_vars
=============================================================================
