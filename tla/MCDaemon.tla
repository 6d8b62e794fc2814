------------------------------ MODULE MCDaemon ------------------------------
(***************************************************************************)
(* What goes on while a task runs, side by side: the loop of its steps,    *)
(* with its sub-agents, its budget and its tool cache, and the audit log   *)
(* that every process of the device writes to.  They share no state:       *)
(* `area` picks, at the start, the one whose operations are explored.      *)
(***************************************************************************)
EXTENDS TaskLoop, AuditLog

CONSTANTS daemon, cli

VARIABLE area

areaVars == <<vars, logVars, area>>

InLoop(A) == area = "loop" /\ A /\ UNCHANGED <<logVars, area>>
InLog(A) == area = "log" /\ A /\ UNCHANGED <<vars, area>>

AreasInit == area \in {"loop", "log"} /\ Init /\ LogInit
AreasNext == InLoop(Next) \/ InLog(LogNext)

\* Each area's own fairness, as its module states it.
AreasSpec ==
    /\ AreasInit /\ [][AreasNext]_areaVars
    /\ WF_areaVars(InLoop(Conclude)) /\ \A l \in Loops : WF_areaVars(InLoop(Progress(l)))
    /\ \A p \in Procs : WF_areaVars(InLog(Step(p)))

(* The daemon goes on: every run and every sub-agent answers in the end    *)
(* (loop.js:10), every writer of the audit log returns (policy.js:262).    *)
DaemonGoesOn == EveryRunEnds /\ WriterReturns
=============================================================================
