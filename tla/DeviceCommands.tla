--------------------------- MODULE DeviceCommands ---------------------------
(***************************************************************************)
(* Commands the hosted console queues for this device, and the policy that *)
(* admits them: apps/desktop/src/device-commands.js, the rules and the     *)
(* rate limiter of packages/engine/src/policy.js.  What a command does on  *)
(* the device is its outcome; DeviceControl has the part that pauses.      *)
(***************************************************************************)
EXTENDS Naturals, Sequences, SequencesExt, FiniteSets

CONSTANTS
    Command,      \* commands the console queued
    Policies,     \* contents of the policy file: records [effect, perMinute]
    RateMax,      \* RATE_MAX
    Window,       \* RATE_WINDOW_MS, the limiter's minute, in ticks
    MaxTime,      \* bound: the clock
    MaxLosses     \* bound: lost reports, and restarts, each

ASSUME CommandAssumption ==
    /\ Policies \subseteq [effect : {"allow", "deny", "confirm"}, perMinute : Nat]
    /\ IsFiniteSet(Command)
    /\ RateMax \in Nat \ {0} /\ Window \in Nat \ {0} /\ MaxTime \in Nat /\ MaxLosses \in Nat

VARIABLES
    queued,       \* commands the cloud offers: those without a report
    policyFile,   \* what the policy file says
    held,         \* the policy instance held across polls: [raw, hits]
    commanded,    \* times of the commands executed in the last minute
    batch,        \* the commands of the poll under way (<<>>: no poll)
    verdict,      \* the verdict of the first of them, before its report
    clock,
    executed,     \* history: times of the executions, newest last
    runs,         \* history: executions of each command
    lostReports,  \* history: reports of each command that were lost
    reborn        \* restarts of the daemon

commandVars == <<queued, policyFile, held, commanded, batch, verdict, clock, executed, runs, lostReports, reborn>>

\* The filter.  The times are in order: what it drops comes first.
First(times) == Min({i \in DOMAIN times : clock - times[i] < Window} \cup {Len(times) + 1})
Recent(times) == SubSeq(times, First(times), Len(times))

\* RateLimiter.allow: no limit, or fewer hits than that in the window.
UnderLimit(limit, hits) == limit = 0 \/ Len(Recent(hits)) < limit

\* The policy file is read anew; the instance held is replaced when it changed.
Current == IF held.raw = policyFile THEN held ELSE [raw |-> policyFile, hits |-> <<>>]

\* Policy.check for the fleet tool: the effect of the rule or tier, then the limit.
PolicyAllows(p) == p.raw.effect = "allow" /\ UnderLimit(p.raw.perMinute, p.hits)
Charged(p) == IF PolicyAllows(p) /\ p.raw.perMinute # 0
              THEN [p EXCEPT !.hits = Append(Recent(@), clock)] ELSE p

(* mutant: a poll starts beside the one under way *)
MutPollCommands ==
    /\ queued # {}
    /\ \E q \in SetToSeqs(queued) : batch' = batch \o q
    /\ Len(batch') < 4
    /\ UNCHANGED <<queued, policyFile, held, commanded, verdict, clock, executed, runs, lostReports, reborn>>

\* The poll reads what is offered; while one is under way there is no other.
PollCommands ==
    /\ batch = <<>>
    /\ queued # {}
    /\ batch' \in SetToSeqs(queued)
    /\ UNCHANGED <<queued, policyFile, held, commanded, verdict, clock, executed, runs, lostReports, reborn>>

\* The rate ceiling of the device, whatever the policy allows.
UnderCeiling == Len(Recent(commanded)) < RateMax

\* runDeviceCommand: policy, ceiling, execution.
RunCommand ==
    /\ batch # <<>> /\ verdict = "none"
    /\ held' = Charged(Current)
    /\ IF PolicyAllows(Current) /\ UnderCeiling
       THEN /\ commanded' = Append(Recent(commanded), clock)
            /\ executed' = Append(Recent(executed), clock)
            /\ runs' = [runs EXCEPT ![Head(batch)] = @ + 1]
            /\ verdict' \in {"done", "failed"}
       ELSE /\ verdict' = "refused"
            /\ commanded' = IF PolicyAllows(Current) THEN Recent(commanded) ELSE commanded
            /\ UNCHANGED <<executed, runs>>
    /\ UNCHANGED <<queued, policyFile, batch, clock, lostReports, reborn>>

\* The verdict is reported, refused ones too; a failed report is only logged.
ReportCommand ==
    /\ verdict # "none"
    /\ \/ queued' = queued \ {Head(batch)} /\ UNCHANGED lostReports
       \/ /\ lostReports[Head(batch)] < MaxLosses
          /\ lostReports' = [lostReports EXCEPT ![Head(batch)] = @ + 1]
          /\ UNCHANGED queued
    /\ batch' = Tail(batch)
    /\ verdict' = "none"
    /\ UNCHANGED <<policyFile, held, commanded, clock, executed, runs, reborn>>

EditPolicy ==
    /\ policyFile' \in Policies \ {policyFile}
    /\ UNCHANGED <<queued, held, commanded, batch, verdict, clock, executed, runs, lostReports, reborn>>

\* The daemon ends, an execution under way with it, and is started again.
DaemonRestart ==
    /\ reborn < MaxLosses
    /\ reborn' = reborn + 1
    /\ held' = [raw |-> policyFile, hits |-> <<>>]
    /\ commanded' = <<>> /\ batch' = <<>> /\ verdict' = "none"
    /\ executed' = <<>>
    /\ lostReports' = IF verdict = "none" THEN lostReports ELSE [lostReports EXCEPT ![Head(batch)] = @ + 1]
    /\ UNCHANGED <<queued, policyFile, clock, runs>>

MinutePasses ==
    /\ clock < MaxTime /\ clock' = clock + 1
    /\ UNCHANGED <<queued, policyFile, held, commanded, batch, verdict, executed, runs, lostReports, reborn>>

CommandInit ==
    /\ queued = Command /\ policyFile \in Policies
    /\ held = [raw |-> policyFile, hits |-> <<>>]
    /\ commanded = <<>> /\ batch = <<>> /\ verdict = "none" /\ clock = 0
    /\ executed = <<>> /\ runs = [c \in Command |-> 0]
    /\ lostReports = [c \in Command |-> 0] /\ reborn = 0

CommandNext == PollCommands \/ RunCommand \/ ReportCommand \/ EditPolicy \/ DaemonRestart \/ MinutePasses

CommandSpec == CommandInit /\ [][CommandNext]_commandVars

-----------------------------------------------------------------------------
(* The device executes at most RATE_MAX commands in any minute of one life *)
(* of the daemon, whatever the policy file says and however it is edited   *)
(* (rateLimitReason, device-commands.js:53).                               *)
CeilingHolds == Len(Recent(executed)) <= RateMax

(* A command is executed again only when the report of an execution was    *)
(* lost, or the daemon ended before it reported: polls never overlap, and  *)
(* what was reported is not offered again (pollDeviceCommands, :197).      *)
NoRerunWithoutLoss == \A c \in Command : runs[c] <= 1 + lostReports[c]
=============================================================================
