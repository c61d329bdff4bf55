---------------------------- MODULE MCBrokerBase ----------------------------
(***************************************************************************)
(* BrokerBase for TLC: one domain command of each lane, and the sets of    *)
(* commands the runs let producers and hooks enqueue.                      *)
(***************************************************************************)
EXTENDS BrokerBase

CMD_TIME_REQUEST == "CMD_TIME_REQUEST"
CMD_REG_FED == "CMD_REG_FED"

MCNormalCommands == {CMD_TIME_REQUEST}
MCPriorityCommands == {CMD_REG_FED}

(* What a transport or the federate sends in normal operation.             *)
MCTraffic == {Cmd(a) : a \in {CMD_TIME_REQUEST, CMD_REG_FED, CMD_IGNORE, CMD_STOP}}

(* A peer that also sends CMD_TICK, with or without the error flag.        *)
MCTrafficWithTicks == {Cmd(CMD_TIME_REQUEST), Cmd(CMD_STOP), Cmd(CMD_TICK), ErrorTick}

(* The time coordinator answers with a time command.                       *)
MCHookMessages == {Cmd(CMD_TIME_REQUEST)}

(* Foreign ticks circulate for ever; the trace is cut where every case has *)
(* been seen.                                                              *)
MaxTrace == 6
TraceBound == Len(trace) <= MaxTrace
=============================================================================
