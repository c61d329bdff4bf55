--------------------------- MODULE BrokerLifecycle --------------------------
(***************************************************************************)
(* The life of a broker as section 4.4 of spec.md states it,               *)
(*     CREATED -> CONFIGURED -> RUNNING -> TERMINATING -> DONE,            *)
(* with what each transition promises about the things another thread can *)
(* observe: isRunning(), the tick timer and the service loop.  Queues,     *)
(* commands, hooks and handlers are absent; BrokerBase is shown to         *)
(* implement this.                                                         *)
(*                                                                         *)
(* One transition is wider than the specification's: a broker whose        *)
(* operations were halted may reach DONE reporting isRunning(), since the  *)
(* CMD_STOP branch of queueProcessingLoop returns before it clears the     *)
(* flag.  Finish says so in its guard.                                     *)
(***************************************************************************)
VARIABLES
    state,       \* the stage of the lifecycle
    running,     \* what isRunning() answers
    timerArmed,  \* a wait of the tick timer is outstanding
    serviceHeld, \* the broker holds the asynchronous service loop
    halted       \* operations were halted

lifeVars == <<state, running, timerArmed, serviceHeld, halted>>

States == {"CREATED", "CONFIGURED", "RUNNING", "TERMINATING", "DONE"}

TypeOK ==
    /\ state \in States
    /\ {running, timerArmed, serviceHeld, halted} \subseteq BOOLEAN

Init ==
    /\ state = "CREATED"
    /\ running = FALSE /\ timerArmed = FALSE /\ serviceHeld = FALSE /\ halted = FALSE

\* Configuration intake succeeded.
Configure ==
    /\ state = "CREATED"
    /\ state' = "CONFIGURED"
    /\ UNCHANGED <<running, timerArmed, serviceHeld, halted>>

\* The dispatcher starts: from here on isRunning() holds, the service loop
\* is held and the tick timer is armed.
Spawn ==
    /\ state = "CONFIGURED"
    /\ state' = "RUNNING"
    /\ running' = TRUE /\ timerArmed' = TRUE /\ serviceHeld' = TRUE
    /\ UNCHANGED halted

\* The tick timer fires, and is armed again, only while the broker runs.
Tick ==
    /\ state = "RUNNING"
    /\ timerArmed' = ~timerArmed
    /\ UNCHANGED <<state, running, serviceHeld, halted>>

\* A stop or terminate command is popped: the timer and the service loop
\* go in the same step, before anything else of the teardown.
Stop ==
    /\ state = "RUNNING"
    /\ state' = "TERMINATING"
    /\ timerArmed' = FALSE /\ serviceHeld' = FALSE
    /\ UNCHANGED <<running, halted>>

\* isRunning() goes false during the teardown and at no other time.
WindDown ==
    /\ state = "TERMINATING"
    /\ running /\ running' = FALSE
    /\ UNCHANGED <<state, timerArmed, serviceHeld, halted>>

\* joinAllThreads returns on a broker that is torn down.
Finish ==
    /\ state = "TERMINATING"
    /\ ~timerArmed /\ ~serviceHeld
    /\ ~running \/ halted
    /\ state' = "DONE"
    /\ UNCHANGED <<running, timerArmed, serviceHeld, halted>>

Halt ==
    /\ ~halted /\ halted' = TRUE
    /\ UNCHANGED <<state, running, timerArmed, serviceHeld>>

Next == Configure \/ Spawn \/ Tick \/ Stop \/ WindDown \/ Finish \/ Halt

Spec == Init /\ [][Next]_lifeVars

=============================================================================
