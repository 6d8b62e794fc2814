----------------------------- MODULE TaskLoop ------------------------------
(***************************************************************************)
(* The task loop of packages/engine (loop.js) with what its runs share:    *)
(* the daily budget (budget.js), the cache of tool results (tool-cache.js) *)
(* and the workspace.  Main is the loop of the task the daemon works on;   *)
(* the delegate tool (delegate.js) starts sub-agents in pools of a few     *)
(* workers: loops with a context of their own and a cache of their own,    *)
(* which dies with them and is left out.                                   *)
(*                                                                         *)
(* A step is what runs between two awaits: the brain and the tools answer  *)
(* in any order, other programs change the workspace, the day changes, the *)
(* daemon may crash.  The workspace is one file, whose content is the      *)
(* number of changes made to it.                                           *)
(***************************************************************************)
EXTENDS Naturals, FiniteSets

CONSTANTS
  Main,       \* the loop of the task
  Subs,       \* sub-agents
  MaxDepth,   \* MAX_DELEGATE_DEPTH: delegations under way at once
  Workers,    \* concurrency of one delegation
  MaxSteps,   \* step limit of Main
  SubSteps,   \* step limit of a sub-agent
  MaxNudges,  \* MAX_CORRECTIONS
  MaxCalls,   \* bound: tool calls of one reply
  MaxUse,     \* bound: tokens the brain reports for one call
  Cap,        \* daily cap of the budget, in tokens
  Ttl,        \* how long a cached file is served, in instants
  DayLength,  \* bound: instants of a day
  MaxClock,   \* bound: instants
  MaxDisk     \* bound: changes of the workspace

ASSUME LoopAssumption ==
  /\ Main \notin Subs
  /\ {MaxDepth, Workers, MaxSteps, SubSteps, MaxCalls, MaxUse, Cap, DayLength} \subseteq Nat \ {0}
  /\ {MaxNudges, Ttl, MaxClock, MaxDisk} \subseteq Nat
  /\ IsFiniteSet(Subs)

VARIABLES
  clock,    \* Date.now(), in instants
  disk,     \* the content of the workspace
  loop,     \* where each loop is, and its counters
  team,     \* sub-agents each loop's delegation has not started yet
  cache,    \* the entry of Main's cache, which the daemon keeps in a file
  budget,   \* the budget in memory: its day and tokens
  saved,    \* budget.json
  burnt,    \* history: the day, and the tokens the brain reported on it
  wrote     \* history: the content after Main's last write or delete

work == <<loop, team>>
money == <<budget, saved, burnt>>
files == <<disk, cache, wrote>>
vars == <<clock, work, money, files>>

Loops == {Main} \cup Subs
Steps(l) == IF l = Main THEN MaxSteps ELSE SubSteps
Today == clock \div DayLength

(* A loop: where it is, its step, the nudges in a row, the calls of the    *)
(* reply that are left, the tool that runs and the content it met, and the *)
(* loop whose delegation it works for.                                     *)
Off == [at |-> "off", step |-> 0, nudges |-> 0, left |-> 0,
        op |-> "none", seen |-> 0, boss |-> Main]
NoEntry == [kept |-> FALSE, val |-> 0, at |-> 0]
Idle(l) == loop[l].at = "off"
Become(l, r) == loop' = [loop EXCEPT ![l] = r]
-----------------------------------------------------------------------------
(* canRun: a budget that is not exhausted, of whatever day it is           *)
CanRun == budget.tokens < Cap

(* spend starts a new day when it has to, and saves.                       *)
Charged(b, use) == IF b.day = Today THEN [b EXCEPT !.tokens = @ + use]
                                    ELSE [day |-> Today, tokens |-> use]
(* mutant: only the first expense of a day is saved *)
MutSpend(use) ==
  /\ budget' = Charged(budget, use)
  /\ saved' = IF budget.day = Today THEN saved ELSE budget'
  /\ burnt' = Charged(burnt, use)
Spend(use) ==
  /\ budget' = Charged(budget, use)
  /\ saved' = budget'
  /\ burnt' = Charged(burnt, use)
-----------------------------------------------------------------------------
(* After a reply that ended nothing: the next step, or, with the steps     *)
(* used up, one forced conclusion, which sub-agents do without.            *)
Advanced(l, nudges) ==
  IF loop[l].step < Steps(l)
  THEN [loop[l] EXCEPT !.at = "think", !.step = @ + 1, !.nudges = nudges,
                       !.left = 0, !.op = "none", !.seen = 0]
  ELSE IF l = Main THEN [Off EXCEPT !.at = "conclude"] ELSE Off

(* mutant: a reply of tool calls does not use up a step *)
MutAfterCall(l) ==
  [loop[l] EXCEPT !.at = IF loop[l].left > 1 THEN "call" ELSE "think",
                  !.left = @ - 1, !.op = "none", !.seen = 0]
(* A call has its result: the next call of the reply, or the next step     *)
AfterCall(l) ==
  IF loop[l].left > 1
  THEN [loop[l] EXCEPT !.at = "call", !.left = @ - 1, !.op = "none", !.seen = 0]
  ELSE Advanced(l, 0)

(* mutant: the gate is left to the caller *)
MutStartRun ==
  /\ Idle(Main)
  /\ Become(Main, [Off EXCEPT !.at = "think", !.step = 1])
  /\ UNCHANGED <<clock, team, money, files>>
(* A task begins, if the budget lets it: the gates of #runTask and run     *)
StartRun ==
  /\ Idle(Main)
  /\ CanRun
  /\ Become(Main, [Off EXCEPT !.at = "think", !.step = 1])
  /\ UNCHANGED <<clock, team, money, files>>

(* The brain replies: with an answer or text, which ends the run; with     *)
(* tool calls; or with something that is neither, to which a corrective    *)
(* nudge responds unless there were too many.  A reply without usage is    *)
(* not charged.                                                            *)
Think(l) ==
  /\ loop[l].at = "think"
  /\ UNCHANGED money \/ \E use \in 0..MaxUse : Spend(use)
  /\ \/ Become(l, Off)
     \/ \E n \in 1..MaxCalls :
          Become(l, [loop[l] EXCEPT !.at = "call", !.left = n, !.nudges = 0])
     \/ /\ loop[l].nudges < MaxNudges
        /\ Become(l, Advanced(l, loop[l].nudges + 1))
  /\ UNCHANGED <<clock, team, files>>

(* The brain fails or is aborted: the answer is the error.                 *)
ThinkFails(l) ==
  /\ loop[l].at = "think"
  /\ Become(l, Off)
  /\ UNCHANGED <<clock, team, money, files>>

(* The forced conclusion, or a canned one when it fails; its usage is not  *)
(* charged.                                                                *)
Conclude ==
  /\ loop[Main].at = "conclude"
  /\ Become(Main, Off)
  /\ UNCHANGED <<clock, team, money, files>>
-----------------------------------------------------------------------------
(* The tools *)
Servable == cache.kept /\ clock - cache.at <= Ttl

(* A call that is answered at once: the policy denies it, the tool refuses *)
(* its arguments, a delegation is too deep, or the cache serves the file.  *)
AnswerAtOnce(l) ==
  /\ loop[l].at = "call"
  /\ Become(l, AfterCall(l))
  /\ UNCHANGED <<clock, team, money, files>>

(* A read that the cache does not serve *)
Read(l) ==
  /\ loop[l].at = "call"
  /\ l = Main => ~Servable
  /\ Become(l, [loop[l] EXCEPT !.at = "tool", !.op = "read", !.seen = disk])
  /\ UNCHANGED <<clock, team, money, files>>

(* "write": write and delete.  "other": what the cache does not hear of,    *)
(* rename, copy, mkdir and restore of the files tool, and the shell.       *)
Change(l) ==
  /\ loop[l].at = "call"
  /\ disk < MaxDisk
  /\ disk' = disk + 1
  /\ \E op \in {"write", "other"} :
       Become(l, [loop[l] EXCEPT !.at = "tool", !.op = op, !.seen = disk'])
  /\ UNCHANGED <<clock, team, money, cache, wrote>>

(* mutant: what was cached outlives a write *)
MutKeep(op, val) ==
  IF op = "read" THEN cache' = [kept |-> TRUE, val |-> val, at |-> clock] ELSE UNCHANGED cache
(* What the loop's #runTool does with its cache after a tool returned      *)
Keep(op, val) ==
  CASE op = "read"  -> cache' = [kept |-> TRUE, val |-> val, at |-> clock]
    [] op = "write" -> cache' = NoEntry
    [] OTHER -> UNCHANGED cache

ToolReturns(l) ==
  /\ loop[l].at = "tool"
  /\ IF l = Main
     THEN /\ Keep(loop[l].op, loop[l].seen)
          /\ wrote' = IF loop[l].op = "write" THEN loop[l].seen ELSE wrote
     ELSE UNCHANGED <<cache, wrote>>
  /\ Become(l, AfterCall(l))
  /\ UNCHANGED <<clock, team, money, disk>>

(* The tool throws or answers with an error; it may have done its work.    *)
ToolFails(l) ==
  /\ loop[l].at = "tool"
  /\ Become(l, AfterCall(l))
  /\ UNCHANGED <<clock, team, money, files>>
-----------------------------------------------------------------------------
(* Delegation: #runSubTasks counts the delegations under way, runSubtasks  *)
(* keeps a pool of workers busy until every sub-task has its result.       *)
Resting == {s \in Subs : Idle(s) /\ \A l \in Loops : s \notin team[l]}
Busy(l) == {s \in Subs : ~Idle(s) /\ loop[s].boss = l}

Delegate(l) ==
  /\ loop[l].at = "call"
  /\ Cardinality({k \in Loops : loop[k].at = "wait"}) < MaxDepth
  /\ \E S \in (SUBSET Resting) \ {{}} : team' = [team EXCEPT ![l] = S]
  /\ Become(l, [loop[l] EXCEPT !.at = "wait"])
  /\ UNCHANGED <<clock, money, files>>

(* A worker takes the next sub-task; an exhausted budget blocks it.        *)
StartSub(l, s) ==
  /\ s \in team[l]
  /\ Cardinality(Busy(l)) < Workers
  /\ team' = [team EXCEPT ![l] = @ \ {s}]
  /\ Become(s, IF CanRun THEN [Off EXCEPT !.at = "think", !.step = 1, !.boss = l] ELSE Off)
  /\ UNCHANGED <<clock, money, files>>

(* Every sub-task has its result, which is the result of the call.         *)
Gather(l) ==
  /\ loop[l].at = "wait"
  /\ team[l] = {} /\ Busy(l) = {}
  /\ Become(l, AfterCall(l))
  /\ UNCHANGED <<clock, team, money, files>>
-----------------------------------------------------------------------------
Outsider ==
  /\ disk < MaxDisk
  /\ disk' = disk + 1
  /\ UNCHANGED <<clock, work, money, cache, wrote>>

Tick ==
  /\ clock < MaxClock
  /\ clock' = clock + 1
  /\ UNCHANGED <<work, money, files>>

(* Crash and start: the budget and the cache of Main are read from their   *)
(* files, a budget of an earlier day starts anew.                          *)
Restart ==
  /\ loop' = [l \in Loops |-> Off]
  /\ team' = [l \in Loops |-> {}]
  /\ budget' = Charged(saved, 0)
  /\ saved' = budget'
  /\ UNCHANGED <<clock, burnt, files>>

Init ==
  /\ clock = 0
  /\ disk = 0
  /\ loop = [l \in Loops |-> Off]
  /\ team = [l \in Loops |-> {}]
  /\ cache = NoEntry
  /\ budget = [day |-> 0, tokens |-> 0]
  /\ saved = budget
  /\ burnt = budget
  /\ wrote = 0

Progress(l) ==
  \/ Think(l) \/ ThinkFails(l)
  \/ AnswerAtOnce(l) \/ Read(l) \/ Change(l) \/ Delegate(l)
  \/ ToolReturns(l) \/ ToolFails(l)
  \/ (\E s \in Subs : StartSub(l, s)) \/ Gather(l)

Next ==
  \/ StartRun \/ Conclude
  \/ \E l \in Loops : Progress(l)
  \/ Outsider \/ Tick \/ Restart

(* The brain and the tools end, with a result or an error: the timeout of  *)
(* the registry only asks a tool to end (registry.js L151).                *)
Spec == Init /\ [][Next]_vars /\ WF_vars(Conclude) /\ \A l \in Loops : WF_vars(Progress(l))
-----------------------------------------------------------------------------
Sheets == [day : Nat, tokens : Nat]
LoopTypeOK ==
  /\ clock \in Nat /\ disk \in Nat
  /\ loop \in [Loops -> [at : {"off", "think", "call", "tool", "wait", "conclude"},
                          step : Nat, nudges : 0..MaxNudges,
                          left : 0..MaxCalls, op : {"none", "read", "write", "other"},
                          seen : Nat, boss : Loops]]
  /\ \A l \in Loops : loop[l].step <= Steps(l)
  /\ team \in [Loops -> SUBSET Subs]
  /\ cache \in [kept : BOOLEAN, val : Nat, at : Nat]
  /\ budget \in Sheets /\ saved \in Sheets /\ burnt \in Sheets
  /\ wrote \in Nat

(* Today's tokens on a sheet *)
Of(b) == IF b.day = Today THEN b.tokens ELSE 0

(* "Hard daily token caps" (budget.js L1) that "survive restarts" (L10):   *)
(* the budget in memory and the one on file say of today what the brain    *)
(* reported today, whichever loops spent it and whenever the day changed.  *)
BooksAgree == Of(budget) = Of(burnt) /\ Of(saved) = Of(burnt)

(* The cap is overrun by no more than what the loops alive when it was     *)
(* reached may spend in the steps that are left to them.                   *)
SpendIsBounded ==
  burnt.tokens < Cap + MaxUse * (MaxSteps + MaxDepth * Workers * SubSteps)

(* The brain "never re-reads stale content right after mutating the        *)
(* filesystem" (loop.js L463), when it does so by a write or a delete.     *)
OwnWritesAreSeen == Servable => cache.val >= wrote

(* Every run answers in the end, whatever the brain replies (loop.js L10,  *)
(* "never hangs"), and whatever its sub-agents meet.                       *)
EveryRunEnds == \A l \in Loops : ~Idle(l) ~> Idle(l)

(* "Budget resets tomorrow" (loop.js L291, agent.js L689): the gate that a *)
(* task meets on a new day is open.                                        *)
NewDayOpensTheGate == budget.day # Today => CanRun

(* No run goes on for ever or spends without limit (loop.js:291, :312,     *)
(* :351): depth, steps and counters stay in their bounds, and the daily    *)
(* cap is overrun by what the loops alive may still spend at most.         *)
LoopIsBounded == LoopTypeOK /\ SpendIsBounded
=============================================================================
