--------------------------- MODULE DeviceControl ---------------------------
(***************************************************************************)
(* Pausing and resuming the processes of the machine: the sampler          *)
(* (apps/desktop/src/device-sampler.js), the plan of a focus mode          *)
(* (packages/engine/src/device-control.js) and the surfaces that call them *)
(* (focus.js, tools/device.js).  A paused process is remembered under a    *)
(* number while the program that paused it lives, and under the text of    *)
(* that number once it was read back from the file.                        *)
(***************************************************************************)
EXTENDS Naturals

CONSTANTS
    Pid,          \* processes of the machine
    Fleet,        \* those the census calls agents
    Owner,        \* those that own a control port (or are init, or this process)
    MaxRestarts   \* bound: restarts of the program

ASSUME ControlAssumption ==
    Fleet \subseteq Pid /\ Owner \subseteq Pid /\ MaxRestarts \in Nat

VARIABLES
    proc,         \* what each process does
    byNumber,     \* `paused`: keys set by this program
    byText,       \* `paused`: keys read from the file
    pauseFile,    \* focus-paused.json
    gate,         \* focus-gate.json: the automatic controllers are armed
    restarts

controlVars == <<proc, byNumber, byText, pauseFile, gate, restarts>>

Modes == {"agents", "balanced", "gaming", "pause", "resume"}
Gone == {p \in Pid : proc[p] = "gone"}
Signalled(pids, s) == [p \in Pid |-> IF p \in pids \ Gone THEN s ELSE proc[p]]

SavePaused == pauseFile' = byNumber' \cup byText'

\* Protected pids are refused, and so is a pid that is gone.
PauseSet(pids) == (pids \ Owner) \ Gone
(* mutant: the set is left to be written by the next resume *)
MutPausePids(pids) ==
    /\ proc' = Signalled(PauseSet(pids), "stopped")
    /\ byNumber' = byNumber \cup PauseSet(pids)
    /\ UNCHANGED <<byText, pauseFile>>

PausePids(pids) ==
    /\ proc' = Signalled(PauseSet(pids), "stopped")
    /\ byNumber' = byNumber \cup PauseSet(pids)
    /\ UNCHANGED byText
    /\ SavePaused

\* paused.delete(Number(pid)): a key that came from the file is a text.
ResumePids(pids) ==
    /\ proc' = Signalled(pids, "running")
    /\ byNumber' = byNumber \ pids
    /\ UNCHANGED byText
    /\ SavePaused

Paused == byNumber \cup byText

Pause == \E pids \in (SUBSET Fleet) \cup {{p} : p \in Pid} : PausePids(pids) /\ UNCHANGED <<gate, restarts>>
Resume == \E pids \in {Paused} \cup {{p} : p \in Pid} : ResumePids(pids) /\ UNCHANGED <<gate, restarts>>

\* planMode: which controllers a mode arms, and whom it pauses.
Armed(mode) == CASE mode = "balanced" -> TRUE [] mode \in {"agents", "gaming"} -> FALSE [] OTHER -> gate
Victims(mode, census) == IF mode \in {"gaming", "pause"} THEN PauseSet(census) ELSE {}

\* applyMode: everything paused is resumed, then the fleet of the census is
\* paused.  The census leaves out what is idle and small.
ApplyMode(mode, census) ==
    /\ gate' = Armed(mode)
    /\ LET victims == Victims(mode, census)
       IN /\ proc' = [p \in Pid |-> IF p \in victims THEN "stopped"
                                    ELSE IF p \in Paused \ Gone THEN "running" ELSE proc[p]]
          /\ byNumber' = victims
    /\ UNCHANGED <<byText, restarts>>
    /\ SavePaused

KillPid(p) ==
    /\ p \notin Owner
    /\ proc' = [proc EXCEPT ![p] = "gone"]
    /\ UNCHANGED <<byNumber, byText, pauseFile, gate, restarts>>

\* The program ends and is started again; SIGSTOP outlives it.
SamplerRestart ==
    /\ restarts < MaxRestarts
    /\ restarts' = restarts + 1
    /\ byNumber' = {}
    /\ byText' = pauseFile
    /\ UNCHANGED <<proc, pauseFile, gate>>

ControlInit ==
    /\ proc = [p \in Pid |-> "running"]
    /\ byNumber = {} /\ byText = {} /\ pauseFile = {}
    /\ gate = TRUE /\ restarts = 0

ControlNext ==
    \/ Pause \/ Resume
    \/ \E mode \in Modes, census \in SUBSET Fleet : ApplyMode(mode, census)
    \/ \E p \in Pid : KillPid(p)
    \/ SamplerRestart

ControlSpec == ControlInit /\ [][ControlNext]_controlVars

-----------------------------------------------------------------------------
(* Every process the program has stopped is in the set and in the file, so *)
(* that a later resume - by the same program or by `focus --resume-all`    *)
(* after it died - reaches it (device-sampler.js:30, 86).                  *)
StoppedIsRemembered ==
    \A p \in Pid : proc[p] = "stopped" => p \in Paused /\ p \in pauseFile

(* No mode and no pause stops the owner of a control port, through which   *)
(* the device would be resumed.                                            *)
OwnersRunOn == \A p \in Owner : proc[p] # "stopped"

(* After a mode has been applied exactly its fleet stands still: what an   *)
(* earlier mode, a single pause or an earlier run of the program had       *)
(* stopped runs again (applyMode, device-sampler.js:119).                  *)
ModeIsInForce ==
    [][\A mode \in Modes, census \in SUBSET Fleet : ApplyMode(mode, census) =>
          {p \in Pid : proc'[p] = "stopped"} = Victims(mode, census)]_controlVars

(* Nobody is stopped for ever: every stopped process is on record for a    *)
(* later resume, and a mode that is applied leaves exactly its own fleet   *)
(* standing still, and no owner of a control port (device-sampler.js:86,   *)
(* :119).                                                                  *)
StoppedCanResume == [](StoppedIsRemembered /\ OwnersRunOn) /\ ModeIsInForce
=============================================================================
