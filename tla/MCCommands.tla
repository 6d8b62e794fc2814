----------------------------- MODULE MCCommands -----------------------------
(***************************************************************************)
(* What reaches the device from outside, side by side: the control channel *)
(* and its replay cache, the commands polled from the console, the pausing *)
(* of processes, and what a policy decides.  They share no state: `area`   *)
(* picks, at the start, the one whose operations are explored.             *)
(***************************************************************************)
EXTENDS ControlChannel, CommandReplay, DeviceCommands, DeviceControl, PolicyRules

CONSTANTS k1, k2, k3, x, y, a1, a2, o

VARIABLE area

SomePolicies == {[effect |-> "allow", perMinute |-> 0], [effect |-> "allow", perMinute |-> 1],
                 [effect |-> "deny", perMinute |-> 0]}

areaVars == <<vars, replayVars, commandVars, controlVars, case, area>>

AreasInit ==
    /\ Init /\ ReplayInit /\ CommandInit /\ ControlInit
    /\ \/ area \in {"channel", "replay", "commands", "control"} /\ case = [kind |-> "none"]
       \/ area = "rules" /\ RulesInit
    /\ area = "channel" \/ platform = "docker"

InChannel(A) == area = "channel" /\ A /\ UNCHANGED <<replayVars, commandVars, controlVars, case, area>>
InCommands(A) == area = "commands" /\ A /\ UNCHANGED <<vars, replayVars, controlVars, case, area>>

AreasNext ==
    \/ InChannel(Next)
    \/ InCommands(CommandNext)
    \/ /\ UNCHANGED <<area, vars, commandVars>>
       /\ \/ area = "replay" /\ ReplayNext /\ UNCHANGED <<controlVars, case>>
          \/ area = "control" /\ ControlNext /\ UNCHANGED <<replayVars, case>>
          \/ area = "rules" /\ RulesNext /\ UNCHANGED <<replayVars, controlVars>>

\* The channel's own fairness; the poll is on a timer, an execution ends, a
\* report that is sent again and again gets through.
AreasSpec ==
    /\ AreasInit /\ [][AreasNext]_areaVars
    /\ WF_areaVars(InChannel(Dial)) /\ WF_areaVars(InChannel(socket = "closing" /\ LinkEnds))
    /\ \A n \in 1 .. MaxFrames : WF_areaVars(InChannel(LlmTimeout(n)))
    /\ WF_areaVars(InCommands(PollCommands))
    /\ WF_areaVars(InCommands(RunCommand))
    /\ WF_areaVars(InCommands(ReportCommand))
-----------------------------------------------------------------------------
(* Every command the console queued gets a report, a refusal as well: none *)
(* is left pending because the policy or the ceiling refused it (poll of   *)
(* device-commands.js:208).                                                *)
EveryCommandGetsItsReport == \A c \in Command : area = "commands" ~> c \notin queued

(* What is sent arrives or is answered: a frame queued while the link was  *)
(* down goes out (control.js:129), a request to the model settles once     *)
(* (:250), a queued command gets its report (device-commands.js:208).      *)
WhatIsSentArrives == []ChannelTypeOK /\ QueuedIsSent /\ EveryRequestSettles /\ EveryCommandGetsItsReport

(* Commands are not executed too often: not above the ceiling of a minute, *)
(* not again without a lost report (device-commands.js:53, :197), and the  *)
(* cache that keeps replayed frames out stays within its bound             *)
(* (packages/protocol/src/index.mjs:132).                                  *)
CommandsHold == ReplayTypeOK /\ CeilingHolds /\ NoRerunWithoutLoss
=============================================================================
