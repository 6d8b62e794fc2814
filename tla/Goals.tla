------------------------------- MODULE Goals -------------------------------
(***************************************************************************)
(* Objectives pursued over several rounds: the goal store of               *)
(* packages/engine/src/goal.js, the goal tool and the part of agent.js     *)
(* that queues a round and closes it.  A round is a task of the serial     *)
(* queue, seen here as the goals and round numbers that wait in it.        *)
(***************************************************************************)
EXTENDS Naturals, Sequences, SequencesExt

CONSTANTS
    Goal,         \* goals
    MaxRounds,    \* maxRounds of each goal
    QueueRoom,    \* the rounds the task queue has room for
    MaxResumes    \* bound: resumes of a goal, restarts

ASSUME GoalAssumption ==
    {MaxRounds, QueueRoom} \subseteq Nat \ {0} /\ MaxResumes \in Nat /\ "none" \notin Goal

VARIABLES
    goals,        \* the store in memory: [status, completed, kept] of each goal
    goalFile,     \* goals.json
    goalQueue,    \* rounds that wait: [goal, no]
    served,       \* the round that runs, or NoRound
    resumed,      \* resumes of each goal
    goalRestarts,
    excused       \* history: goals that lost a round to a failure, a full queue or a restart

goalVars == <<goals, goalFile, goalQueue, served, resumed, goalRestarts, excused>>

NoRound == [goal |-> "none", no |-> 0]
UnknownGoal == [status |-> "absent", completed |-> 0, kept |-> 0]
Ended == {"complete", "aborted", "blocked"}

\* GoalStore.#save, best effort: a write that fails is not noticed.
SaveGoals == goalFile' = goals' \/ goalFile' = goalFile

LastRound(no) == no >= MaxRounds

\* #enqueueGoalRound; what enqueue() answers is not looked at.
EnqueueRound(g, no) ==
    IF Len(goalQueue) < QueueRoom
    THEN goalQueue' = Append(goalQueue, [goal |-> g, no |-> no]) /\ UNCHANGED excused
    ELSE excused' = excused \cup {g} /\ UNCHANGED goalQueue

StartGoal(g) ==
    /\ goals[g] = UnknownGoal
    /\ goals' = [goals EXCEPT ![g] = [status |-> "active", completed |-> 0, kept |-> 0]]
    /\ SaveGoals
    /\ EnqueueRound(g, 1)
    /\ UNCHANGED <<served, resumed, goalRestarts>>

\* resume: while a round of the goal waits or runs as well
ResumeGoal(g) ==
    /\ goals[g].status = "active" /\ goals[g].completed < MaxRounds
    /\ resumed[g] < MaxResumes
    /\ resumed' = [resumed EXCEPT ![g] = @ + 1]
    /\ EnqueueRound(g, goals[g].completed + 1)
    /\ UNCHANGED <<goals, goalFile, served, goalRestarts>>

\* abort: whatever the status is
AbortGoal(g) ==
    /\ goals[g] # UnknownGoal
    /\ goals' = [goals EXCEPT ![g].status = "aborted"]
    /\ SaveGoals
    /\ UNCHANGED <<goalQueue, served, resumed, goalRestarts, excused>>

\* The queue starts the round, whatever has become of its goal.
ServeRound ==
    /\ served = NoRound /\ goalQueue # <<>>
    /\ served' = Head(goalQueue) /\ goalQueue' = Tail(goalQueue)
    /\ UNCHANGED <<goals, goalFile, resumed, goalRestarts, excused>>

\* The task of the round fails or is cancelled: nothing is recorded.
RoundFails ==
    /\ served # NoRound
    /\ served' = NoRound
    /\ excused' = excused \cup {served.goal}
    /\ UNCHANGED <<goals, goalFile, goalQueue, resumed, goalRestarts>>

\* recordRound: the number of rounds is taken before the list is cut.
Recorded(rec) ==
    [rec EXCEPT !.completed = rec.kept + 1,
                !.kept = IF rec.kept < MaxRounds THEN rec.kept + 1 ELSE MaxRounds]

(* mutant: a round is recorded whatever the goal's status *)
MutRoundEnds(complete) ==
    /\ served # NoRound
    /\ goals' = [goals EXCEPT ![served.goal] = [Recorded(@) EXCEPT !.status = IF complete THEN "complete" ELSE @]]
    /\ SaveGoals /\ served' = NoRound
    /\ IF ~complete /\ ~LastRound(served.no) THEN EnqueueRound(served.goal, served.no + 1) ELSE UNCHANGED <<goalQueue, excused>>
    /\ UNCHANGED <<resumed, goalRestarts>>

\* #finalizeGoalRound: the round is recorded; complete, at the cap, or the next one.
RoundEnds(complete) ==
    /\ served # NoRound
    /\ served' = NoRound
    /\ LET g == served.goal
           after == IF complete THEN "complete" ELSE IF LastRound(served.no) THEN "blocked" ELSE "active"
       IN IF goals[g].status # "active"
          THEN UNCHANGED <<goals, goalFile, goalQueue, excused>>
          ELSE /\ goals' = [goals EXCEPT ![g] = [Recorded(@) EXCEPT !.status = after]]
               /\ SaveGoals
               /\ IF after = "active" THEN EnqueueRound(g, served.no + 1) ELSE UNCHANGED <<goalQueue, excused>>
    /\ UNCHANGED <<resumed, goalRestarts>>

\* The daemon starts again: the queue is empty, the file is read back, and no
\* round is queued for the goals that are active in it.
GoalRestart ==
    /\ goalRestarts < MaxResumes
    /\ goalRestarts' = goalRestarts + 1
    /\ goals' = goalFile
    /\ goalQueue' = <<>> /\ served' = NoRound
    /\ excused' = Goal
    /\ UNCHANGED <<goalFile, resumed>>

GoalInit ==
    /\ goals = [g \in Goal |-> UnknownGoal] /\ goalFile = goals
    /\ goalQueue = <<>> /\ served = NoRound
    /\ resumed = [g \in Goal |-> 0] /\ goalRestarts = 0 /\ excused = {}

GoalNext ==
    \/ \E g \in Goal : StartGoal(g) \/ ResumeGoal(g) \/ AbortGoal(g)
    \/ ServeRound \/ RoundFails \/ (\E complete \in BOOLEAN : RoundEnds(complete))
    \/ GoalRestart

GoalSpec == GoalInit /\ [][GoalNext]_goalVars
-----------------------------------------------------------------------------
(* The rounds of g that wait or run. *)
Pending(g) == {i \in DOMAIN goalQueue : goalQueue[i].goal = g} \cup {0 : r \in {served} \cap [goal : {g}, no : Nat]}

(* No round past the cap is ever queued, however resumes and the rounds    *)
(* already queued interleave (#finalizeGoalRound, agent.js:1341; resume,   *)
(* agent.js:1308).                                                         *)
RoundsStayUnderTheCap == \A i \in DOMAIN goalQueue : goalQueue[i].no <= MaxRounds

(* What a goal ended as stands while the daemon lives: a late round, from  *)
(* a resume beside the chain, neither completes an aborted goal nor blocks *)
(* one that is complete; only abort() may still be called                  *)
(* (#finalizeGoalRound, agent.js:1325).                                    *)
EndedStands ==
    [][\A g \in Goal : goals[g].status \in Ended /\ goalRestarts' = goalRestarts
          => goals'[g].status \in {goals[g].status, "aborted"} /\ goals'[g].completed = goals[g].completed]_goalVars

(* A goal that is active has a round that waits or runs, unless a round of *)
(* it failed, met a full queue or was lost with the daemon: nothing else   *)
(* makes a goal stand still (#enqueueGoalRound, agent.js:1313).            *)
ActiveGoalMoves == \A g \in Goal : goals[g].status = "active" => Pending(g) # {} \/ g \in excused

(* A goal (agent.js:1304-1341) stays within its rounds, moves while it is  *)
(* active and stays what it ended as, over resumes, aborts, failed rounds, *)
(* a full queue and restarts.                                              *)
GoalsHold == [](RoundsStayUnderTheCap /\ ActiveGoalMoves) /\ EndedStands
=============================================================================
