------------------------------- MODULE Sessions -------------------------------
(***************************************************************************)
(* What runs and can be ended: the sessions of the session layer, and the  *)
(* daemon itself, found by its pid file.                                   *)
(*                                                                         *)
(* Sessions (apps/desktop/src/session.js, tools/session.js): a working     *)
(* session is started and ended; its record, the rolling summary and       *)
(* state.json are files that are read and written with awaits in between,  *)
(* by tool calls of the task and of its sub-agents.                        *)
(***************************************************************************)
EXTENDS Naturals, Sequences, SequencesExt

CONSTANTS
    Caller,       \* tool calls in flight at a time
    MaxSessions,  \* bound: sessions started
    LogRoom,      \* MAX_SUMMARY_ENTRIES
    MaxStops      \* bound: ends of the daemon

ASSUME SessionAssumption == {MaxSessions, LogRoom} \subseteq Nat \ {0} /\ MaxStops \in Nat

VARIABLES
    callers,      \* the callers of this behaviour: one, or all side by side
    current,      \* currentSession, 0 for none
    stateFile,    \* last_session of state.json: [id, active]
    records,      \* SESSION-<id>.json that exist
    summaryLog,   \* SUMMARY.md: ids, oldest first
    step,         \* where a call stands: [at, id, log]
    started,      \* sessions started so far
    told,         \* history: what calls that returned answered: [open, ended]
    stops

sessionVars == <<callers, current, stateFile, records, summaryLog, step, started, told, stops>>

NoStep == [at |-> "idle", id |-> 0, log |-> <<>>]
Nothing == [id |-> 0, active |-> FALSE]

\* What endSession and sessionStatus take for the active session.
Active == IF current # 0 THEN current ELSE IF stateFile.active THEN stateFile.id ELSE 0

At(c, where) == step[c].at = where
StepTo(c, where) == step' = [step EXCEPT ![c].at = where]
Return(c) == step' = [step EXCEPT ![c] = NoStep]

\* startSession up to its first await
BeginStart(c) ==
    /\ c \in callers /\ At(c, "idle") /\ started < MaxSessions
    /\ started' = started + 1
    /\ current' = started + 1
    /\ step' = [step EXCEPT ![c] = [NoStep EXCEPT !.at = "write started", !.id = started + 1]]
    /\ UNCHANGED <<callers, stateFile, records, summaryLog, told, stops>>

SaveStarted(c) ==
    /\ At(c, "write started")
    /\ stateFile' = [id |-> step[c].id, active |-> TRUE]
    /\ told' = [told EXCEPT !.open = step[c].id]
    /\ Return(c)
    /\ UNCHANGED <<callers, current, records, summaryLog, started, stops>>

\* endSession after it has read the state: refused without an active session.
BeginEnd(c) ==
    /\ c \in callers /\ At(c, "idle") /\ Active # 0
    /\ step' = [step EXCEPT ![c] = [NoStep EXCEPT !.at = "write record", !.id = Active]]
    /\ UNCHANGED <<callers, current, stateFile, records, summaryLog, started, told, stops>>

WriteRecord(c) ==
    /\ At(c, "write record")
    /\ records' = records \cup {step[c].id}
    /\ StepTo(c, "read log")
    /\ UNCHANGED <<callers, current, stateFile, summaryLog, started, told, stops>>

\* appendSummary reads the log ...
ReadLog(c) ==
    /\ At(c, "read log")
    /\ step' = [step EXCEPT ![c].at = "write log", ![c].log = summaryLog]
    /\ UNCHANGED <<callers, current, stateFile, records, summaryLog, started, told, stops>>

Newest(log) == IF Len(log) > LogRoom THEN SubSeq(log, Len(log) - LogRoom + 1, Len(log)) ELSE log

\* ... and writes it back with the entry; the handle is dropped, whoever's it is.
WriteLog(c) ==
    /\ At(c, "write log")
    /\ summaryLog' = Newest(Append(step[c].log, step[c].id))
    /\ current' = 0
    /\ StepTo(c, "write ended")
    /\ UNCHANGED <<callers, stateFile, records, started, told, stops>>

(* mutant: the state is not written at the end *)
MutSaveEnded(c) ==
    /\ At(c, "write ended")
    /\ told' = [open |-> IF told.open = step[c].id THEN 0 ELSE told.open, ended |-> told.ended \cup {step[c].id}]
    /\ Return(c)
    /\ UNCHANGED <<callers, current, stateFile, records, summaryLog, started, stops>>
SaveEnded(c) ==
    /\ At(c, "write ended")
    /\ stateFile' = [id |-> step[c].id, active |-> FALSE]
    /\ told' = [open |-> IF told.open = step[c].id THEN 0 ELSE told.open, ended |-> told.ended \cup {step[c].id}]
    /\ Return(c)
    /\ UNCHANGED <<callers, current, records, summaryLog, started, stops>>

\* The daemon ends; a write of state.json that it interrupts leaves a file
\* that does not parse, which readState takes for no state at all.
SessionCrash ==
    /\ stops < MaxStops
    /\ stops' = stops + 1
    /\ current' = 0
    /\ step' = [c \in Caller |-> NoStep]
    /\ \/ UNCHANGED stateFile
       \/ (\E c \in Caller : step[c].at \in {"write started", "write ended"}) /\ stateFile' = Nothing
    /\ told' = [told EXCEPT !.open = IF stateFile' = stateFile THEN @ ELSE 0]
    /\ UNCHANGED <<callers, records, summaryLog, started>>

SessionInit ==
    /\ callers \in {{CHOOSE c \in Caller : TRUE}, Caller}
    /\ current = 0 /\ stateFile = Nothing /\ records = {} /\ summaryLog = <<>>
    /\ step = [c \in Caller |-> NoStep] /\ started = 0
    /\ told = [open |-> 0, ended |-> {}] /\ stops = 0

SessionNext ==
    \/ \E c \in Caller : BeginStart(c) \/ SaveStarted(c) \/ BeginEnd(c) \/ WriteRecord(c)
                         \/ ReadLog(c) \/ WriteLog(c) \/ SaveEnded(c)
    \/ SessionCrash

SessionSpec == SessionInit /\ [][SessionNext]_sessionVars
-----------------------------------------------------------------------------
OneCaller == \A c, d \in callers : c = d
Quiet == \A c \in Caller : At(c, "idle")

(* With one call at a time, the session that was started last can be       *)
(* ended, after a restart as well, until it is (startSession, "crash-safe: *)
(* the id survives a restart", session.js:129).                            *)
StartedCanBeEnded == OneCaller /\ Quiet /\ told.open # 0 => Active = told.open

(* With one call at a time, a session that was ended is not active again,  *)
(* whatever restarts (endSession, session.js:187).                         *)
EndedIsNotActive == OneCaller /\ Quiet => Active \notin told.ended

(* What state.json calls ended has its record on disk, however calls       *)
(* interleave and wherever the daemon stops (session.js:182).              *)
EndedHasItsRecord == stateFile.id # 0 /\ ~stateFile.active => stateFile.id \in records

(* With one call at a time the log ends with the session ended last        *)
(* (appendSummary, session.js:88).                                         *)
LogEndsWithTheLast ==
    OneCaller /\ Quiet /\ stateFile.id \in told.ended /\ ~stateFile.active => Last(summaryLog) = stateFile.id
-----------------------------------------------------------------------------
(***************************************************************************)
(* The single-instance guard (apps/desktop/src/daemon.js, start and close  *)
(* of agent.js, `remote-agent start | daemon install | stop | uninstall`): *)
(* a file with the pid of the daemon, checked and written by each start    *)
(* that is not forced.  The service units start with --force.              *)
(***************************************************************************)
CONSTANTS
    Daemon,   \* daemons somebody starts by hand
    service,  \* the one the service manager starts
    MaxStarts \* bound: daemons started

ASSUME GuardAssumption == service \notin Daemon /\ "" \notin Daemon \cup {service} /\ MaxStarts \in Nat

VARIABLES
    life,    \* of each daemon: off, checked, up, told to stop
    pidFile, \* whose pid daemon.pid holds, "" for none
    reused,  \* those whose pid another program has by now
    unit,    \* the service is installed
    starts,
    ruled    \* history: no start was forced or overlapped another, no uninstall

guardVars == <<life, pidFile, reused, unit, starts, ruled>>

Anyone == Daemon \cup {service}
Up == {d \in Anyone : life[d] \in {"up", "told"}}
PidAlive == pidFile # "" /\ (pidFile \in reused \/ life[pidFile] # "off")

Lives0(d, at) == life' = [life EXCEPT ![d] = at]
StartOf(d) == life[d] = "off" /\ d \notin reused /\ starts < MaxStarts /\ starts' = starts + 1

\* alreadyRunning: a file whose process is gone is removed.
CheckPid(d) ==
    /\ d # service /\ StartOf(d) /\ ~PidAlive
    /\ Lives0(d, "checked") /\ pidFile' = ""
    /\ ruled' = (ruled /\ \A e \in Anyone : life[e] # "checked")
    /\ UNCHANGED <<reused, unit>>

\* start --force, by the service manager: at once when it is installed, and
\* again whenever the daemon has failed
ForceStart ==
    /\ unit /\ StartOf(service)
    /\ Lives0(service, "checked") /\ ruled' = FALSE
    /\ UNCHANGED <<pidFile, reused, unit>>

WritePid(d) ==
    /\ life[d] = "checked"
    /\ Lives0(d, "up") /\ pidFile' = d
    /\ UNCHANGED <<reused, unit, starts, ruled>>

\* stopRunningDaemon: SIGTERM to whoever has that pid
StopRunning ==
    /\ PidAlive /\ life[pidFile] = "up"
    /\ Lives0(pidFile, "told")
    /\ UNCHANGED <<pidFile, reused, unit, starts, ruled>>

\* close: the file is removed, whoever it names.
CloseDaemon(d) ==
    /\ life[d] = "told" /\ Lives0(d, "off") /\ pidFile' = ""
    /\ UNCHANGED <<reused, unit, starts, ruled>>

\* The process is killed, or exits because its key was rejected.
Die(d) ==
    /\ life[d] # "off" /\ Lives0(d, "off")
    /\ UNCHANGED <<pidFile, reused, unit, starts, ruled>>

\* Another program gets the pid of a daemon that is gone.
Reuse(d) ==
    /\ life[d] = "off" /\ d = pidFile /\ reused' = reused \cup {d}
    /\ UNCHANGED <<life, pidFile, unit, starts, ruled>>

Install == ~unit /\ unit' = TRUE /\ UNCHANGED <<life, pidFile, reused, starts, ruled>>

\* daemonUninstall: the manager stops its daemon, and the file is removed.
Uninstall ==
    /\ unit' = FALSE /\ pidFile' = "" /\ ruled' = FALSE
    /\ life' = [life EXCEPT ![service] = "off"]
    /\ UNCHANGED <<reused, starts>>

GuardInit ==
    /\ life = [d \in Anyone |-> "off"] /\ pidFile = "" /\ reused = {} /\ unit = FALSE
    /\ starts = 0 /\ ruled = TRUE

GuardNext ==
    \/ ForceStart \/ StopRunning \/ Install \/ Uninstall
    \/ \E d \in Anyone : CheckPid(d) \/ WritePid(d) \/ CloseDaemon(d) \/ Die(d) \/ Reuse(d)

GuardSpec == GuardInit /\ [][GuardNext]_guardVars
-----------------------------------------------------------------------------
(* Without a service, and when no two starts overlap, the file names every *)
(* daemon that runs, however daemons are stopped and killed: there is one  *)
(* at a time, and whoever wants to stop it finds it (daemon.js:10, 213).   *)
FileNamesTheDaemon == ruled => \A d \in Up : pidFile = d
=============================================================================
