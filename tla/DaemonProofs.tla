---------------------------- MODULE DaemonProofs ----------------------------
(***************************************************************************)
(* Theorems about what goes on while a task runs.                          *)
(*                                                                         *)
(* The task loop: types, the books of the daily budget, the share of it    *)
(* that sub-agents are left, and what the cache may serve after a write,   *)
(* for any number of sub-agents, any limits and any day.                   *)
(*                                                                         *)
(* The audit log, for any number of processes and records: as long as it   *)
(* is calm (no crash, no line cut off, nobody waited 500 ms for the lock), *)
(* the lock file excludes and the chain holds; and what holds of it        *)
(* whatever happens.                                                       *)
(***************************************************************************)
EXTENDS MCDaemon, DataLemmas

States == [at : {"off", "think", "call", "tool", "wait", "conclude"},
           step : Nat, nudges : 0..MaxNudges,
           left : 0..MaxCalls, op : {"none", "read", "write", "other"},
           seen : Nat, boss : Loops]

(* LoopTypeOK, by what the actions leave alone together *)
WorkOK == /\ loop \in [Loops -> States]
          /\ \A l \in Loops : loop[l].step <= Steps(l)
          /\ team \in [Loops -> SUBSET Subs]
MoneyOK == budget \in Sheets /\ saved \in Sheets /\ burnt \in Sheets
FilesOK == /\ disk \in Nat
           /\ cache \in [kept : BOOLEAN, val : Nat, at : Nat]
           /\ wrote \in Nat

(* The type invariant is the three of them and a clock.                    *)
LEMMA TypeParts == LoopTypeOK <=> clock \in Nat /\ WorkOK /\ MoneyOK /\ FilesOK
BY DEF LoopTypeOK, WorkOK, MoneyOK, FilesOK, States

(* A day is never followed by an earlier one.                              *)
LEMMA DaysGoOn ==
  ASSUME clock \in Nat
  PROVE  /\ Today \in Nat
         /\ (clock + 1) \div DayLength \in Nat
         /\ Today <= (clock + 1) \div DayLength
BY LoopAssumption DEF Today

(* A loop that becomes a state of its own keeps the others' types.         *)
LEMMA BecomeOK ==
  ASSUME WorkOK, NEW l \in Loops, NEW r \in States, r.step <= Steps(l), Become(l, r)
  PROVE  loop' \in [Loops -> States] /\ \A k \in Loops : loop'[k].step <= Steps(k)
BY DEF WorkOK, Become

(* The limits are numbers; the steps of a loop are at least one.           *)
LEMMA LimitsOK ==
  /\ 0 \in 0..MaxNudges /\ 0 \in 0..MaxCalls /\ MaxNudges \in Nat /\ MaxCalls \in Nat
  /\ Main \in Loops
  /\ \A l \in Loops : Steps(l) \in Nat /\ 1 <= Steps(l)
<1>1. MaxNudges \in Nat /\ MaxCalls \in Nat /\ MaxSteps \in Nat \ {0} /\ SubSteps \in Nat \ {0}
  BY LoopAssumption
<1> QED BY <1>1 DEF Loops, Steps

(* Setting some fields of a state gives a state.                           *)
LEMMA StepOK ==
  ASSUME NEW r \in States, NEW n \in 0..MaxNudges, NEW k \in Nat
  PROVE  /\ [r EXCEPT !.at = "think", !.step = k, !.nudges = n,
                      !.left = 0, !.op = "none", !.seen = 0] \in States
         /\ [r EXCEPT !.at = "think", !.step = k, !.nudges = n,
                      !.left = 0, !.op = "none", !.seen = 0].step = k
BY LimitsOK DEF States

LEMMA StartOK ==
  ASSUME NEW r \in States, NEW b \in Loops
  PROVE  /\ [r EXCEPT !.at = "think", !.step = 1] \in States
         /\ [r EXCEPT !.at = "think", !.step = 1].step = 1
         /\ [r EXCEPT !.at = "think", !.step = 1, !.boss = b] \in States
         /\ [r EXCEPT !.at = "think", !.step = 1, !.boss = b].step = 1
         /\ [r EXCEPT !.at = "conclude"] \in States
         /\ [r EXCEPT !.at = "conclude"].step = r.step
BY DEF States

(* The states a loop starts, ends and concludes in.                        *)
LEMMA FreshOK ==
  ASSUME NEW l \in Loops, NEW b \in Loops
  PROVE  /\ Off \in States /\ Off.step <= Steps(l)
         /\ [Off EXCEPT !.at = "conclude"] \in States
         /\ [Off EXCEPT !.at = "conclude"].step <= Steps(l)
         /\ [Off EXCEPT !.at = "think", !.step = 1] \in States
         /\ [Off EXCEPT !.at = "think", !.step = 1].step <= Steps(l)
         /\ [Off EXCEPT !.at = "think", !.step = 1, !.boss = b] \in States
         /\ [Off EXCEPT !.at = "think", !.step = 1, !.boss = b].step <= Steps(l)
<1>1. Off \in States /\ Off.step = 0
  BY LimitsOK DEF Off, States
<1>2. 0 <= Steps(l) /\ 1 <= Steps(l)
  BY LimitsOK
<1> QED BY <1>1, <1>2, StartOK

LEMMA NextOK ==
  ASSUME NEW r \in States, NEW n \in 0..MaxNudges
  PROVE  /\ [r EXCEPT !.at = "think", !.step = @ + 1, !.nudges = n,
                      !.left = 0, !.op = "none", !.seen = 0] \in States
         /\ [r EXCEPT !.at = "think", !.step = @ + 1, !.nudges = n,
                      !.left = 0, !.op = "none", !.seen = 0].step = r.step + 1
<1>1. r.step + 1 \in Nat
  BY DEF States
<1> QED BY <1>1, StepOK DEF States

(* The next step of a loop is within its limit.                            *)
LEMMA AdvancedOK ==
  ASSUME WorkOK, NEW l \in Loops, NEW n \in 0..MaxNudges
  PROVE  Advanced(l, n) \in States /\ Advanced(l, n).step <= Steps(l)
<1>1. loop[l] \in States /\ loop[l].step \in Nat /\ Steps(l) \in Nat
  BY LimitsOK DEF WorkOK, States
<1>2. CASE loop[l].step < Steps(l)
  <2>1. loop[l].step + 1 \in Nat /\ loop[l].step + 1 <= Steps(l)
    BY <1>1, <1>2
  <2>2. loop[l] \in States
    BY <1>1
  <2>3. Advanced(l, n) \in States /\ Advanced(l, n).step = loop[l].step + 1
    BY <1>2, <2>2, NextOK, Zenon DEF Advanced
  <2> QED BY <2>1, <2>3
<1>3. CASE ~(loop[l].step < Steps(l))
  BY <1>3, FreshOK DEF Advanced
<1> QED BY <1>2, <1>3

(* So is what follows a call.                                              *)
LEMMA CallOK ==
  ASSUME NEW r \in States, NEW n \in 0..MaxCalls
  PROVE  /\ [r EXCEPT !.at = "call", !.left = n, !.op = "none", !.seen = 0] \in States
         /\ [r EXCEPT !.at = "call", !.left = n, !.op = "none", !.seen = 0].step = r.step
         /\ [r EXCEPT !.at = "call", !.left = n, !.nudges = 0] \in States
         /\ [r EXCEPT !.at = "call", !.left = n, !.nudges = 0].step = r.step
BY LimitsOK DEF States

LEMMA AfterCallOK ==
  ASSUME WorkOK, NEW l \in Loops
  PROVE  AfterCall(l) \in States /\ AfterCall(l).step <= Steps(l)
<1>1. loop[l] \in States /\ loop[l].step <= Steps(l)
  BY DEF WorkOK
<1>2. CASE loop[l].left > 1
  <2>1. loop[l].left - 1 \in 0..MaxCalls
    BY <1>1, <1>2, LimitsOK DEF States
  <2>2. AfterCall(l) \in States /\ AfterCall(l).step = loop[l].step
    BY <1>1, <1>2, <2>1, CallOK DEF AfterCall
  <2> QED BY <1>1, <2>2
<1>3. CASE ~(loop[l].left > 1)
  BY <1>3, AdvancedOK, LimitsOK DEF AfterCall
<1> QED BY <1>2, <1>3
-----------------------------------------------------------------------------
(* A step that moves one loop keeps the types of the work.                 *)
LEMMA MoveOK ==
  ASSUME WorkOK, NEW l \in Loops, NEW r \in States, r.step <= Steps(l), Become(l, r), team' = team
  PROVE  WorkOK'
BY BecomeOK DEF WorkOK

(* A charged sheet is a sheet, of today.                                   *)
LEMMA ChargedOK ==
  ASSUME clock \in Nat, NEW b \in Sheets, NEW use \in Nat
  PROVE  Charged(b, use) \in Sheets /\ Charged(b, use).day = Today
BY DaysGoOn DEF Charged, Sheets

LEMMA SpendOK ==
  ASSUME clock \in Nat, MoneyOK, NEW use \in 0..MaxUse, Spend(use)
  PROVE  MoneyOK'
<1>1. use \in Nat
  BY LoopAssumption
<1> QED BY <1>1, ChargedOK DEF MoneyOK, Spend

Types == clock \in Nat /\ WorkOK /\ MoneyOK /\ FilesOK

(* The reply of the brain keeps the types.                                 *)
LEMMA ThinkOK ==
  ASSUME Types, NEW l \in Loops, Think(l)
  PROVE  Types'
<1>1. WorkOK /\ loop[l] \in States /\ loop[l].step <= Steps(l)
  BY DEF Types, WorkOK
<1>2. MoneyOK'
  BY SpendOK DEF Think, Types, money, MoneyOK
<1>3. WorkOK'
  <2>1. team' = team
    BY DEF Think
  <2>2. CASE Become(l, Off)
    BY <1>1, <2>1, <2>2, FreshOK, LimitsOK, MoveOK
  <2>3. ASSUME NEW n \in 1..MaxCalls,
               Become(l, [loop[l] EXCEPT !.at = "call", !.left = n, !.nudges = 0])
        PROVE  WorkOK'
    <3>1. n \in 0..MaxCalls
      BY LimitsOK
    <3> QED BY <1>1, <2>1, <2>3, <3>1, CallOK, MoveOK
  <2>4. CASE loop[l].nudges < MaxNudges /\ Become(l, Advanced(l, loop[l].nudges + 1))
    <3>1. loop[l].nudges + 1 \in 0..MaxNudges
      BY <1>1, <2>4, LimitsOK DEF States
    <3> QED BY <1>1, <2>1, <2>4, <3>1, AdvancedOK, MoveOK
  <2> QED BY <2>2, <2>3, <2>4 DEF Think
<1>4. clock' \in Nat /\ FilesOK'
  BY DEF Think, Types, files, FilesOK
<1> QED BY <1>2, <1>3, <1>4 DEF Types

(* So do a call that is answered at once, a tool that fails, and the       *)
(* result of a delegation.                                                 *)
LEMMA CallEndsOK ==
  ASSUME Types, NEW l \in Loops, AnswerAtOnce(l) \/ ToolFails(l) \/ Gather(l)
  PROVE  Types'
<1>1. Become(l, AfterCall(l)) /\ UNCHANGED <<clock, team, money, files>>
  BY DEF AnswerAtOnce, ToolFails, Gather
<1>2. WorkOK'
  BY <1>1, AfterCallOK, MoveOK DEF Types
<1> QED BY <1>1, <1>2 DEF Types, money, files, MoneyOK, FilesOK

(* A tool that starts.                                                     *)
LEMMA ToolStartsOK ==
  ASSUME Types, NEW l \in Loops, Read(l) \/ Change(l)
  PROVE  Types'
<1>1. WorkOK /\ disk \in Nat /\ loop[l] \in States /\ loop[l].step <= Steps(l)
  BY DEF Types, WorkOK, FilesOK
<1>2. ASSUME NEW op \in {"read", "write", "other"}, NEW val \in Nat
      PROVE  /\ [loop[l] EXCEPT !.at = "tool", !.op = op, !.seen = val] \in States
             /\ [loop[l] EXCEPT !.at = "tool", !.op = op, !.seen = val].step = loop[l].step
  BY <1>1 DEF States
<1>3. CASE Read(l)
  <2>1. WorkOK'
    BY <1>1, <1>2, <1>3, MoveOK DEF Read
  <2> QED BY <1>3, <2>1 DEF Read, Types, money, files, MoneyOK, FilesOK
<1>4. CASE Change(l)
  <2>1. disk' \in Nat
    BY <1>1, <1>4 DEF Change
  <2>2. WorkOK'
    BY <1>1, <1>2, <1>4, <2>1, MoveOK DEF Change
  <2> QED BY <1>4, <2>1, <2>2 DEF Change, Types, money, MoneyOK, FilesOK
<1> QED BY <1>3, <1>4

(* A tool that returns.                                                    *)
LEMMA ToolReturnsOK ==
  ASSUME Types, NEW l \in Loops, ToolReturns(l)
  PROVE  Types'
<1>1. WorkOK'
  BY AfterCallOK, MoveOK DEF ToolReturns, Types
<1>2. loop[l].seen \in Nat /\ clock \in Nat
  BY DEF Types, WorkOK, States
<1>3. FilesOK'
  <2>1. CASE l = Main
    <3>1. Keep(loop[l].op, loop[l].seen) /\ wrote' \in {loop[l].seen, wrote}
          /\ disk' = disk
      BY <2>1 DEF ToolReturns
    <3>2. FilesOK /\ cache' \in {cache, NoEntry, [kept |-> TRUE, val |-> loop[l].seen, at |-> clock]}
      BY <3>1 DEF Keep, Types
    <3>3. cache' \in [kept : BOOLEAN, val : Nat, at : Nat]
      <4>1. NoEntry \in [kept : BOOLEAN, val : Nat, at : Nat]
        BY DEF NoEntry
      <4>2. [kept |-> TRUE, val |-> loop[l].seen, at |-> clock] \in [kept : BOOLEAN, val : Nat, at : Nat]
        BY <1>2
      <4> QED BY <3>2, <4>1, <4>2 DEF FilesOK
    <3>4. wrote' \in Nat
      BY <1>2, <3>1, <3>2 DEF FilesOK
    <3> QED BY <3>1, <3>2, <3>3, <3>4 DEF FilesOK
  <2>2. CASE l # Main
    BY <2>2 DEF ToolReturns, FilesOK, Types
  <2> QED BY <2>1, <2>2
<1> QED BY <1>1, <1>3 DEF ToolReturns, Types, money, MoneyOK

(* A delegation and its sub-agents.                                        *)
LEMMA TeamOK ==
  ASSUME Types, NEW l \in Loops, Delegate(l) \/ (\E s \in Subs : StartSub(l, s))
  PROVE  Types'
<1>1. WorkOK /\ loop[l] \in States /\ loop[l].step <= Steps(l)
  BY DEF Types, WorkOK
<1>2. CASE Delegate(l)
  <2>1. /\ [loop[l] EXCEPT !.at = "wait"] \in States
        /\ [loop[l] EXCEPT !.at = "wait"].step = loop[l].step
    BY <1>1 DEF States
  <2>2. Become(l, [loop[l] EXCEPT !.at = "wait"])
    BY <1>2 DEF Delegate
  <2>3. loop' \in [Loops -> States] /\ \A k \in Loops : loop'[k].step <= Steps(k)
    BY <1>1, <2>1, <2>2, BecomeOK
  <2>4. team' \in [Loops -> SUBSET Subs]
    BY <1>1, <1>2 DEF Delegate, Resting, WorkOK
  <2> QED BY <1>2, <2>3, <2>4 DEF Delegate, Types, WorkOK, money, files, MoneyOK, FilesOK
<1>3. ASSUME NEW s \in Subs, StartSub(l, s)
      PROVE  Types'
  <2>1. s \in Loops
    BY DEF Loops
  <2>2. loop' \in [Loops -> States] /\ \A k \in Loops : loop'[k].step <= Steps(k)
    <3>1. CASE CanRun
      <4>1. Become(s, [Off EXCEPT !.at = "think", !.step = 1, !.boss = l])
        BY <1>3, <3>1 DEF StartSub
      <4> QED BY <1>1, <2>1, <4>1, FreshOK, BecomeOK
    <3>2. CASE ~CanRun
      <4>1. Become(s, Off)
        BY <1>3, <3>2 DEF StartSub
      <4> QED BY <1>1, <2>1, <4>1, FreshOK, BecomeOK
    <3> QED BY <3>1, <3>2
  <2>3. team' \in [Loops -> SUBSET Subs]
    BY <1>1, <1>3 DEF StartSub, WorkOK
  <2> QED BY <1>3, <2>2, <2>3 DEF StartSub, Types, WorkOK, money, files, MoneyOK, FilesOK
<1> QED BY <1>2, <1>3

(* A crash and a start.                                                    *)
LEMMA RestartOK == Types /\ Restart => Types'
<1> SUFFICES ASSUME Types, Restart PROVE Types'
  OBVIOUS
<1>1. \A l \in Loops : Off \in States /\ Off.step <= Steps(l)
  BY FreshOK
<1>2. WorkOK'
  BY <1>1 DEF Restart, WorkOK
<1>3. MoneyOK'
  BY ChargedOK DEF Restart, Types, MoneyOK
<1> QED BY <1>2, <1>3 DEF Restart, Types, files, FilesOK

(* Every step keeps the types.                                             *)
LEMMA TypesStep == Types /\ [Next]_vars => Types'
<1> SUFFICES ASSUME Types, [Next]_vars PROVE Types'
  OBVIOUS
<1>1. CASE StartRun
  <2>1. WorkOK'
    BY <1>1, FreshOK, LimitsOK, MoveOK DEF StartRun, Types
  <2> QED BY <1>1, <2>1 DEF StartRun, Types, money, files, MoneyOK, FilesOK
<1>2. CASE Conclude
  <2>1. WorkOK'
    BY <1>2, FreshOK, LimitsOK, MoveOK DEF Conclude, Types
  <2> QED BY <1>2, <2>1 DEF Conclude, Types, money, files, MoneyOK, FilesOK
<1>3. ASSUME NEW l \in Loops, Progress(l)
      PROVE  Types'
  <2>1. CASE ThinkFails(l)
    <3>1. WorkOK'
      BY <2>1, FreshOK, LimitsOK, MoveOK DEF ThinkFails, Types
    <3> QED BY <2>1, <3>1 DEF ThinkFails, Types, money, files, MoneyOK, FilesOK
  <2> QED BY <1>3, <2>1, ThinkOK, CallEndsOK, ToolStartsOK, ToolReturnsOK, TeamOK DEF Progress
<1>4. CASE Outsider
  BY <1>4 DEF Outsider, Types, work, money, WorkOK, MoneyOK, FilesOK
<1>5. CASE Tick
  BY <1>5 DEF Tick, Types, work, money, files, WorkOK, MoneyOK, FilesOK
<1>6. CASE Restart
  BY <1>6, RestartOK
<1>7. CASE UNCHANGED vars
  BY <1>7 DEF vars, Types, work, money, files, WorkOK, MoneyOK, FilesOK
<1> QED BY <1>1, <1>2, <1>3, <1>4, <1>5, <1>6, <1>7 DEF Next

LEMMA TypesInit == Init => Types
<1> SUFFICES ASSUME Init PROVE Types
  OBVIOUS
<1>1. \A l \in Loops : Off \in States /\ Off.step <= Steps(l)
  BY FreshOK
<1> QED BY <1>1 DEF Init, Types, WorkOK, MoneyOK, FilesOK, NoEntry, Sheets

(* The loops, the sheets of the budget and the cache keep their types, and *)
(* no loop takes more steps than its limit (loop.js L278).                 *)
THEOREM TypeCorrect == Spec => []LoopTypeOK
<1>1. Types => LoopTypeOK
  BY TypeParts DEF Types
<1> QED BY <1>1, TypesInit, TypesStep, PTL DEF Spec
-----------------------------------------------------------------------------
(* The budget in memory is the one on file, no sheet is of a day to come,  *)
(* and of today both say what was burnt.                                   *)
Books ==
  /\ budget = saved
  /\ budget.day <= Today /\ burnt.day <= Today
  /\ Of(budget) = Of(burnt)

(* What an expense does to the tokens of today.                            *)
LEMMA ChargedOf ==
  ASSUME NEW b \in Sheets, NEW use \in Nat, clock \in Nat
  PROVE  Of(Charged(b, use)) = Of(b) + use
BY DaysGoOn DEF Of, Charged, Sheets

LEMMA BooksStep == Types /\ Books /\ [Next]_vars => Books'
<1> SUFFICES ASSUME Types, Books, [Next]_vars PROVE Books'
  OBVIOUS
<1>1. clock \in Nat /\ budget \in Sheets /\ saved \in Sheets /\ burnt \in Sheets
  BY DEF Types, MoneyOK
<1>2. CASE UNCHANGED <<clock, money>>
  <2>1. Today' = Today /\ budget' = budget /\ saved' = saved /\ burnt' = burnt
    BY <1>2 DEF money, Today
  <2> QED BY <2>1 DEF Books, Of
<1>3. ASSUME NEW use \in 0..MaxUse, Spend(use), UNCHANGED clock
      PROVE  Books'
  <2>1. use \in Nat /\ Today' = Today /\ Today \in Nat
    BY <1>1, <1>3, LoopAssumption, DaysGoOn DEF Today
  <2>2. /\ budget' = Charged(budget, use) /\ saved' = budget'
        /\ burnt' = Charged(burnt, use)
    BY <1>3 DEF Spend
  <2>3. budget'.day = Today /\ burnt'.day = Today
    BY <1>1, <2>1, <2>2, ChargedOK
  <2>4. Of(Charged(budget, use)) = Of(Charged(burnt, use))
    BY <1>1, <2>1, ChargedOf DEF Books
  <2> QED BY <2>1, <2>2, <2>3, <2>4 DEF Books, Of
<1>4. CASE Restart
  <2>1. Today' = Today /\ Today \in Nat
    BY <1>1, <1>4, DaysGoOn DEF Restart, Today
  <2>2. /\ budget' = Charged(budget, 0) /\ saved' = budget'
        /\ burnt' = burnt
    BY <1>4 DEF Restart, Books
  <2>3. budget'.day = Today /\ Of(Charged(budget, 0)) = Of(budget) + 0
    BY <1>1, <2>1, <2>2, ChargedOK, ChargedOf
  <2>4. Of(budget) \in Nat
    BY <1>1 DEF Of, Sheets
  <2> QED BY <2>1, <2>2, <2>3, <2>4 DEF Books, Of
<1>5. CASE Tick
  <2>1. /\ Today \in Nat /\ Today' \in Nat /\ Today <= Today'
        /\ budget' = budget /\ saved' = saved /\ burnt' = burnt
    BY <1>1, <1>5, DaysGoOn DEF Tick, money, Today
  <2>2. budget.day \in Nat /\ burnt.day \in Nat
    BY <1>1 DEF Sheets
  <2> QED BY <2>1, <2>2 DEF Books, Of
<1>6. ASSUME NEW l \in Loops, Progress(l)
      PROVE  Books'
  <2>1. CASE Think(l)
    BY <1>2, <1>3, <2>1 DEF Think
  <2>2. CASE ~Think(l)
    BY <1>2, <1>6, <2>2 DEF Progress, ThinkFails, AnswerAtOnce, Read, Change, Delegate,
                            ToolReturns, ToolFails, StartSub, Gather
  <2> QED BY <2>1, <2>2
<1> QED BY <1>2, <1>4, <1>5, <1>6 DEF Next, vars, StartRun, Conclude, Outsider

LEMMA BooksInit == Init => Books
<1>1. Init => clock \in Nat /\ budget.day = 0 /\ burnt = budget /\ saved = budget
  BY DEF Init
<1> QED BY <1>1, DaysGoOn DEF Books

(* However many loops spend at once, and whenever the day changes or the   *)
(* daemon starts again, the budget in memory and the one on file say of    *)
(* today what the brain reported today.                                    *)
THEOREM BooksAlwaysAgree == Spec => []BooksAgree
<1>1. Books => BooksAgree
  BY DEF Books, BooksAgree
<1> QED BY <1>1, BooksInit, TypesInit, TypesStep, BooksStep, PTL DEF Spec
-----------------------------------------------------------------------------
(* Main has seen its own last write: the content its read has met, and the *)
(* one that is cached, are no older.                                       *)
Fresh ==
  /\ wrote <= disk
  /\ loop[Main].at = "tool" => /\ loop[Main].seen <= disk
                               /\ loop[Main].op = "read" => wrote <= loop[Main].seen
  /\ cache.kept => wrote <= cache.val

(* A step that does not start or end a tool of Main keeps it so.           *)
LEMMA FreshStays ==
  ASSUME Types, Fresh, disk <= disk', disk' \in Nat, wrote' = wrote, cache' = cache,
         loop'[Main] = loop[Main] \/ loop'[Main].at # "tool"
  PROVE  Fresh'
BY LimitsOK DEF Fresh, Types, WorkOK, States, FilesOK

(* No call leaves a tool running.                                          *)
LEMMA NoToolAfter ==
  ASSUME Types, NEW l \in Loops
  PROVE  /\ AfterCall(l).at # "tool" /\ Off.at # "tool"
         /\ \A n \in 0..MaxNudges : Advanced(l, n).at # "tool"
<1>1. loop[l] \in States
  BY DEF Types, WorkOK
<1>2. Off.at # "tool" /\ [Off EXCEPT !.at = "conclude"].at # "tool"
  BY DEF Off
<1>3. \A n \in 0..MaxNudges : Advanced(l, n).at # "tool"
  BY <1>1, <1>2 DEF Advanced, States
<1>4. AfterCall(l).at # "tool"
  BY <1>1, <1>3, LimitsOK DEF AfterCall, States
<1> QED BY <1>2, <1>3, <1>4

LEMMA FreshStep == Types /\ Fresh /\ [Next]_vars => Fresh'
<1> SUFFICES ASSUME Types, Fresh, [Next]_vars PROVE Fresh'
  OBVIOUS
<1>1. /\ Main \in Loops /\ disk \in Nat /\ disk <= disk /\ disk <= disk + 1 /\ disk + 1 \in Nat
      /\ loop \in [Loops -> States]
  BY LimitsOK DEF Types, WorkOK, FilesOK
<1>2. CASE UNCHANGED files /\ (loop'[Main] = loop[Main] \/ loop'[Main].at # "tool")
  BY <1>1, <1>2, FreshStays DEF files
<1>3. ASSUME NEW l \in Loops, NEW r, Become(l, r), r.at # "tool" \/ l # Main
      PROVE  loop'[Main] = loop[Main] \/ loop'[Main].at # "tool"
  BY <1>1, <1>3 DEF Become
<1>4. CASE StartRun \/ Conclude
  <2>1. /\ UNCHANGED files
        /\ \/ Become(Main, [Off EXCEPT !.at = "think", !.step = 1])
           \/ Become(Main, Off)
    BY <1>4 DEF StartRun, Conclude
  <2>2. [Off EXCEPT !.at = "think", !.step = 1].at # "tool" /\ Off.at # "tool"
    BY DEF Off
  <2> QED BY <1>1, <1>2, <1>3, <2>1, <2>2
<1>5. ASSUME NEW l \in Loops, Progress(l)
      PROVE  Fresh'
  <2>1. CASE Think(l)
    <3>1. UNCHANGED files
      BY <2>1 DEF Think
    <3>2. CASE Become(l, Off)
      BY <1>2, <1>3, <3>1, <3>2, NoToolAfter
    <3>3. ASSUME NEW n \in 1..MaxCalls,
                 Become(l, [loop[l] EXCEPT !.at = "call", !.left = n, !.nudges = 0])
          PROVE  Fresh'
      <4>1. [loop[l] EXCEPT !.at = "call", !.left = n, !.nudges = 0].at # "tool"
        BY <1>1 DEF States
      <4> QED BY <1>2, <1>3, <3>1, <3>3, <4>1
    <3>4. CASE loop[l].nudges < MaxNudges /\ Become(l, Advanced(l, loop[l].nudges + 1))
      <4>1. loop[l].nudges + 1 \in 0..MaxNudges
        BY <1>1, <3>4, LimitsOK DEF States
      <4> QED BY <1>2, <1>3, <3>1, <3>4, <4>1, NoToolAfter
    <3> QED BY <2>1, <3>2, <3>3, <3>4 DEF Think
  <2>2. CASE ThinkFails(l)
    BY <1>1, <1>2, <1>3, <2>2, NoToolAfter DEF ThinkFails
  <2>3. CASE AnswerAtOnce(l) \/ ToolFails(l) \/ Gather(l)
    BY <1>1, <1>2, <1>3, <2>3, NoToolAfter DEF AnswerAtOnce, ToolFails, Gather
  <2>4. CASE Read(l)
    <3>1. UNCHANGED files /\ Become(l, [loop[l] EXCEPT !.at = "tool", !.op = "read", !.seen = disk])
      BY <2>4 DEF Read
    <3>2. CASE l = Main
      <4>1. loop'[Main].seen = disk
        BY <1>1, <3>1, <3>2 DEF Become, States
      <4> QED BY <1>1, <3>1, <4>1 DEF Fresh, files
    <3>3. CASE l # Main
      BY <1>2, <1>3, <3>1, <3>3
    <3> QED BY <3>2, <3>3
  <2>5. CASE Change(l)
    <3>1. PICK op \in {"write", "other"} :
            Become(l, [loop[l] EXCEPT !.at = "tool", !.op = op, !.seen = disk'])
      BY <2>5 DEF Change
    <3>2. disk' = disk + 1 /\ cache' = cache /\ wrote' = wrote
      BY <2>5 DEF Change
    <3>3. CASE l = Main
      <4>1. loop'[Main].seen = disk' /\ loop'[Main].op # "read"
        BY <1>1, <3>1, <3>3 DEF Become, States
      <4>2. wrote <= disk' /\ disk' <= disk'
        BY <1>1, <3>2 DEF Fresh, Types, FilesOK
      <4> QED BY <3>2, <4>1, <4>2 DEF Fresh
    <3>4. CASE l # Main
      BY <1>1, <1>3, <3>1, <3>2, <3>4, FreshStays
    <3> QED BY <3>3, <3>4
  <2>6. CASE ToolReturns(l)
    <3>1. Become(l, AfterCall(l)) /\ disk' = disk /\ AfterCall(l).at # "tool"
      BY <2>6, NoToolAfter DEF ToolReturns
    <3>2. loop'[Main] = loop[Main] \/ loop'[Main].at # "tool"
      BY <1>3, <3>1
    <3>3. CASE l # Main
      BY <1>1, <2>6, <3>1, <3>2, <3>3, FreshStays DEF ToolReturns
    <3>4. CASE l = Main
      <4>1. /\ loop[Main].at = "tool"
            /\ loop[Main].seen <= disk
            /\ loop[Main].op = "read" => wrote <= loop[Main].seen
        BY <2>6, <3>4 DEF ToolReturns, Fresh
      <4>2. loop'[Main].at # "tool"
        BY <1>1, <3>1, <3>4 DEF Become
      <4>3. wrote' = IF loop[Main].op = "write" THEN loop[Main].seen ELSE wrote
        BY <2>6, <3>4 DEF ToolReturns
      <4>4. wrote' <= disk'
        BY <3>1, <4>1, <4>3 DEF Fresh
      <4>5. cache'.kept => wrote' <= cache'.val
        <5>1. Keep(loop[Main].op, loop[Main].seen)
          BY <2>6, <3>4 DEF ToolReturns
        <5>2. CASE loop[Main].op = "read"
          BY <4>1, <4>3, <5>1, <5>2 DEF Keep
        <5>3. CASE loop[Main].op = "write"
          BY <5>1, <5>3 DEF Keep, NoEntry
        <5>4. CASE loop[Main].op \notin {"read", "write"}
          BY <4>3, <5>1, <5>4 DEF Keep, Fresh
        <5> QED BY <5>2, <5>3, <5>4
      <4> QED BY <4>2, <4>4, <4>5 DEF Fresh
    <3> QED BY <3>3, <3>4
  <2>7. CASE Delegate(l) \/ (\E s \in Subs : StartSub(l, s))
    <3>1. CASE Delegate(l)
      <4>1. [loop[l] EXCEPT !.at = "wait"].at # "tool"
        BY <1>1 DEF States
      <4> QED BY <1>2, <1>3, <3>1, <4>1 DEF Delegate
    <3>2. ASSUME NEW s \in Subs, StartSub(l, s)
          PROVE  Fresh'
      <4>1. s \in Loops /\ s # Main
        BY LoopAssumption DEF Loops
      <4>2. UNCHANGED files /\ \E r : Become(s, r)
        BY <3>2 DEF StartSub
      <4> QED BY <1>2, <1>3, <4>1, <4>2
    <3> QED BY <2>7, <3>1, <3>2
  <2> QED BY <1>5, <2>1, <2>2, <2>3, <2>4, <2>5, <2>6, <2>7 DEF Progress
<1>6. CASE Outsider
  BY <1>1, <1>6, FreshStays DEF Outsider, work
<1>7. CASE Tick
  BY <1>1, <1>2, <1>7 DEF Tick, work
<1>8. CASE Restart
  BY <1>1, <1>2, <1>8, NoToolAfter DEF Restart
<1>9. CASE UNCHANGED vars
  BY <1>1, <1>2, <1>9 DEF vars, work
<1> QED BY <1>4, <1>5, <1>6, <1>7, <1>8, <1>9 DEF Next

(* Whatever other programs and sub-agents do to the workspace meanwhile,   *)
(* the cache never serves Main a content older than its own last write or  *)
(* delete.                                                                 *)
THEOREM WritesAreSeen == Spec => []OwnWritesAreSeen
<1>1. Init => Fresh
  BY LimitsOK DEF Init, Fresh, Off, NoEntry
<1>2. Types /\ Fresh => OwnWritesAreSeen
  BY DEF Types, FilesOK, Fresh, OwnWritesAreSeen, Servable
<1> QED BY <1>1, <1>2, TypesInit, TypesStep, FreshStep, PTL DEF Spec
-----------------------------------------------------------------------------
(* How far the cap may be overrun.  A loop that is under way has so many   *)
(* replies of the brain before it.                                         *)
Rem(r, steps) ==
  IF r.at \in {"off", "conclude"} THEN 0
  ELSE IF r.at = "think" THEN steps - r.step + 1 ELSE steps - r.step

(* All replies that the loops under way may still get                      *)
Left == {q \in Loops \X Nat : q[2] \in 1 .. Rem(loop[q[1]], Steps(q[1]))}

Waiting == {k \in Loops : loop[k].at = "wait"}

(* Delegations are few, each keeps few sub-agents busy, and who works for  *)
(* a loop works for one that waits for it.                                 *)
TeamInv ==
  /\ Cardinality(Waiting) <= MaxDepth
  /\ \A l \in Loops : Cardinality(Busy(l)) <= Workers
  /\ \A s \in Subs : ~Idle(s) => loop[loop[s].boss].at = "wait"
  /\ \A l \in Loops : loop[l].at \in {"think", "call", "tool", "wait"} => loop[l].step >= 1
  /\ \A l \in Loops : team[l] # {} => loop[l].at = "wait"
  /\ \A l \in Loops : \A s \in team[l] : Idle(s)
  /\ \A l, k \in Loops : l # k => team[l] \cap team[k] = {}

(* What a loop may become by itself, when it goes on with no more replies  *)
(* before it than it had                                                   *)
Fit(l, r) ==
  /\ r \in States /\ r.step <= Steps(l) /\ r.at # "wait"
  /\ r.at \in {"think", "call", "tool"} => r.step >= 1 /\ (l = Main \/ r.boss = loop[l].boss)
  /\ r.at = "conclude" => l = Main
Milder(l, r) == Fit(l, r) /\ Rem(r, Steps(l)) <= Rem(loop[l], Steps(l))

(* It moves by itself when nobody works for it.                            *)
Alone(l) == (loop[l].at # "off" \/ l = Main) /\ team[l] = {} /\ Busy(l) = {}

LEMMA FiniteLoops ==
  /\ IsFiniteSet(Loops) /\ IsFiniteSet(Subs) /\ IsFiniteSet(Waiting)
  /\ \A l \in Loops : IsFiniteSet(Busy(l)) /\ Busy(l) \in SUBSET Subs
  /\ Main \in Loops /\ Main \notin Subs /\ Subs \subseteq Loops
  /\ \A l \in Loops : l = Main \/ l \in Subs
<1>1. IsFiniteSet(Subs) /\ IsFiniteSet({Main}) /\ Main \notin Subs
  BY LoopAssumption, FS_Singleton
<1>2. IsFiniteSet(Loops)
  BY <1>1, FS_Union DEF Loops
<1>3. IsFiniteSet(Waiting)
  BY <1>2, FS_Subset DEF Waiting
<1>4. \A l \in Loops : IsFiniteSet(Busy(l)) /\ Busy(l) \in SUBSET Subs
  BY <1>1, FS_Subset DEF Busy
<1>. QED BY <1>1, <1>2, <1>3, <1>4 DEF Loops

(* A loop that is not waiting has nobody working for it.                   *)
LEMMA NotWaitingAlone ==
  ASSUME TeamInv, NEW l \in Loops, loop[l].at # "wait", loop[l].at # "off" \/ l = Main
  PROVE  Alone(l)
BY FiniteLoops DEF TeamInv, Alone, Busy

LEMMA MoveKeepsTeam ==
  ASSUME WorkOK, TeamInv, NEW l \in Loops, NEW r, Fit(l, r), Alone(l), Become(l, r), team' = team
  PROVE  TeamInv'
<1>1. /\ loop \in [Loops -> States] /\ team \in [Loops -> SUBSET Subs]
      /\ loop' = [loop EXCEPT ![l] = r] /\ r.at # "wait"
      /\ \A k \in Loops : loop[k].boss \in Loops
  BY DEF WorkOK, Become, Fit, States
<1>2. \A k \in Loops : k # l => loop'[k] = loop[k]
  BY <1>1
<1>3. loop'[l] = r
  BY <1>1
<1>4. \A s \in Subs : ~(loop'[s].at = "off") => ~Idle(s) /\ loop'[s].boss = loop[s].boss /\ loop[s].boss # l
  <2>1. ASSUME NEW s \in Subs, loop'[s].at # "off"
        PROVE  ~Idle(s) /\ loop'[s].boss = loop[s].boss
    <3>1. CASE s = l
      BY <1>1, <1>3, <2>1, <3>1, FiniteLoops DEF Idle, Alone, Fit, States
    <3>2. CASE s # l
      BY <1>2, <2>1, <3>2, FiniteLoops DEF Idle
    <3>. QED BY <3>1, <3>2
  <2>2. \A s \in Subs : ~Idle(s) => loop[s].boss # l
    BY DEF Alone, Busy
  <2>. QED BY <2>1, <2>2
<1>5. Waiting' \in SUBSET Waiting
  BY <1>1, <1>2, <1>3 DEF Waiting
<1>6. \A k \in Loops : Busy(k)' \in SUBSET Busy(k)
  BY <1>4 DEF Busy, Idle
<1>7. Cardinality(Waiting') <= MaxDepth
  BY <1>5, FiniteLoops, FS_Subset, FS_CardinalityType, LoopAssumption, SMTT(60) DEF TeamInv
<1>8. \A k \in Loops : Cardinality(Busy(k)') <= Workers
  BY <1>6, FiniteLoops, FS_Subset, FS_CardinalityType, LoopAssumption, SMTT(60) DEF TeamInv
<1>9. \A s \in Subs : ~Idle(s)' => loop'[loop'[s].boss].at = "wait"
  BY <1>1, <1>2, <1>4, FiniteLoops DEF TeamInv, Idle
<1>10. \A k \in Loops : loop'[k].at \in {"think", "call", "tool", "wait"} => loop'[k].step >= 1
  BY <1>1, <1>2, <1>3 DEF TeamInv, Fit
<1>11. \A k \in Loops : team[k] # {} => loop'[k].at = "wait"
  BY <1>2 DEF TeamInv, Alone
<1>12. \A k \in Loops : \A s \in team[k] : Idle(s)'
  BY <1>1, <1>2, FiniteLoops DEF TeamInv, Idle, Alone
<1>. QED BY <1>7, <1>8, <1>9, <1>10, <1>11, <1>12 DEF TeamInv

(* Replies left: few enough, and fewer when a loop moves.                  *)
LEMMA RemFacts ==
  ASSUME WorkOK, TeamInv, NEW l \in Loops
  PROVE  /\ Rem(loop[l], Steps(l)) \in 0 .. Steps(l)
         /\ loop[l].at = "think" => Rem(loop[l], Steps(l)) >= 1
<1>1. /\ loop[l] \in States /\ loop[l].step <= Steps(l) /\ Steps(l) \in Nat /\ loop[l].step \in Nat
      /\ loop[l].at \in {"off", "think", "call", "tool", "wait", "conclude"}
      /\ loop[l].at \in {"think", "call", "tool", "wait"} => loop[l].step >= 1
  BY LimitsOK DEF WorkOK, States, TeamInv
<1>. QED BY <1>1 DEF Rem

Bound == MaxSteps + MaxDepth * Workers * SubSteps

LEMMA BoundIsNat ==
  /\ MaxSteps \in Nat \ {0} /\ MaxDepth \in Nat \ {0} /\ Workers \in Nat \ {0} /\ SubSteps \in Nat \ {0}
  /\ MaxUse \in Nat \ {0} /\ Cap \in Nat \ {0}
  /\ MaxDepth * Workers \in Nat /\ MaxDepth * Workers * SubSteps \in Nat
  /\ Bound \in Nat /\ Bound >= 1
<1>1. /\ MaxSteps \in Nat \ {0} /\ MaxDepth \in Nat \ {0} /\ Workers \in Nat \ {0} /\ SubSteps \in Nat \ {0}
      /\ MaxUse \in Nat \ {0} /\ Cap \in Nat \ {0}
  BY LoopAssumption
<1>2. MaxDepth * Workers \in Nat
  BY <1>1
<1>3. MaxDepth * Workers * SubSteps \in Nat
  BY <1>1, <1>2
<1>. QED BY <1>1, <1>2, <1>3 DEF Bound

LEMMA Monotone ==
  ASSUME NEW a \in Nat, NEW b \in Nat, NEW c \in Nat, a <= b
  PROVE  a * c <= b * c /\ c * a <= c * b /\ a * c \in Nat /\ c * a \in Nat
<1>1. PICK d \in Nat : b = a + d
  BY b - a \in Nat
<1>2. b * c = a * c + d * c /\ c * b = c * a + c * d
  BY <1>1
<1>3. a * c \in Nat /\ d * c \in Nat /\ c * a \in Nat /\ c * d \in Nat
  BY <1>1
<1>. QED BY <1>2, <1>3

LEMMA LeftIsFinite ==
  ASSUME WorkOK, TeamInv
  PROVE  IsFiniteSet(Left) /\ Cardinality(Left) \in Nat /\ Cardinality(Left) <= Bound
<1>. DEFINE Working == {s \in Subs : ~Idle(s)}
            Team == [l \in Waiting |-> Busy(l)]
            Most == ({Main} \X (1 .. MaxSteps)) \cup (Working \X (1 .. SubSteps))
<1>1. /\ IsFiniteSet(Working) /\ Cardinality(Working) \in Nat
      /\ Cardinality(Working) <= MaxDepth * Workers
  <2>1. /\ IsFiniteSet(Waiting) /\ Workers \in Nat
        /\ \A l \in Waiting : IsFiniteSet(Team[l]) /\ Cardinality(Team[l]) <= Workers
    BY FiniteLoops, BoundIsNat DEF TeamInv, Waiting
  <2>. DEFINE U == UNION {Team[l] : l \in Waiting}
  <2>2. Working \subseteq U
    <3>1. ASSUME NEW s \in Working PROVE s \in Busy(loop[s].boss) /\ loop[s].boss \in Waiting
      BY FiniteLoops DEF TeamInv, Busy, Waiting, WorkOK, States
    <3>. QED BY <3>1
  <2>. HIDE DEF Team
  <2>3. IsFiniteSet(U) /\ Cardinality(U) <= Cardinality(Waiting) * Workers
    BY <2>1, UnionBound
  <2>. HIDE DEF U, Working
  <2>4. IsFiniteSet(Working) /\ Cardinality(Working) <= Cardinality(U) /\ Cardinality(Working) \in Nat
        /\ Cardinality(U) \in Nat
    BY <2>2, <2>3, FS_Subset, FS_CardinalityType
  <2>5. Cardinality(Waiting) * Workers <= MaxDepth * Workers /\ Cardinality(Waiting) * Workers \in Nat
    BY <2>1, BoundIsNat, FS_CardinalityType, Monotone DEF TeamInv
  <2>. QED BY <2>3, <2>4, <2>5, BoundIsNat
<1>2. Left \subseteq Most
  <2>1. ASSUME NEW q \in Left PROVE q \in Most
    <3>. DEFINE l == q[1]
    <3>1. l \in Loops /\ q = <<q[1], q[2]>> /\ q[2] \in 1 .. Rem(loop[l], Steps(l)) /\ q[2] \in Nat
      BY DEF Left
    <3>2. q[2] \in 1 .. Steps(l) /\ Rem(loop[l], Steps(l)) # 0
      <4>1. Rem(loop[l], Steps(l)) \in 0 .. Steps(l) /\ Steps(l) \in Nat
        BY <3>1, RemFacts, LimitsOK
      <4>. QED BY <3>1, <4>1
    <3>3. ~Idle(l)
      BY <3>2 DEF Rem, Idle
    <3>4. CASE l = Main
      BY <3>1, <3>2, <3>4 DEF Steps
    <3>5. CASE l # Main
      BY <3>1, <3>2, <3>3, <3>5, FiniteLoops DEF Steps
    <3>. QED BY <3>4, <3>5
  <2>. QED BY <2>1
<1>. HIDE DEF Working
<1>3. IsFiniteSet(Most) /\ Cardinality(Most) <= Bound /\ Cardinality(Most) \in Nat
  <2>. DEFINE M == {Main} \X (1 .. MaxSteps)
              W == Working \X (1 .. SubSteps)
  <2>1. /\ IsFiniteSet({Main}) /\ Cardinality({Main}) = 1
        /\ IsFiniteSet(1 .. MaxSteps) /\ Cardinality(1 .. MaxSteps) = MaxSteps
        /\ IsFiniteSet(1 .. SubSteps) /\ Cardinality(1 .. SubSteps) = SubSteps
    <3>1. \A n \in Nat \ {0} : IsFiniteSet(1 .. n) /\ Cardinality(1 .. n) = n
      <4>. TAKE n \in Nat \ {0}
      <4>1. IsFiniteSet(1 .. n) /\ Cardinality(1 .. n) = IF 1 > n THEN 0 ELSE n - 1 + 1
        BY FS_Interval
      <4>. QED BY <4>1
    <3>. QED BY <3>1, FS_Singleton, BoundIsNat
  <2>2. IsFiniteSet(M) /\ Cardinality(M) = 1 * MaxSteps
    <3>. DEFINE A == {Main}
                B == 1 .. MaxSteps
    <3>1. IsFiniteSet(A) /\ IsFiniteSet(B) /\ Cardinality(A) = 1 /\ Cardinality(B) = MaxSteps
      BY <2>1
    <3>. HIDE DEF A, B
    <3>2. IsFiniteSet(A \X B) /\ Cardinality(A \X B) = Cardinality(A) * Cardinality(B)
      BY <3>1, FS_Product
    <3>. QED BY <3>1, <3>2 DEF A, B
  <2>3. IsFiniteSet(W) /\ Cardinality(W) = Cardinality(Working) * SubSteps
    BY <1>1, <2>1, FS_Product
  <2>4. Cardinality(W) <= MaxDepth * Workers * SubSteps
    BY <1>1, <2>3, BoundIsNat, Monotone
  <2>. HIDE DEF M, W
  <2>5. IsFiniteSet(M \cup W) /\ Cardinality(M \cup W) = Cardinality(M) + Cardinality(W) - Cardinality(M \cap W)
    BY <2>2, <2>3, FS_Union
  <2>6. Cardinality(M \cap W) \in Nat /\ Cardinality(M) \in Nat /\ Cardinality(W) \in Nat
        /\ Cardinality(M \cup W) \in Nat
    BY <2>2, <2>3, <2>5, FS_Subset, FS_CardinalityType, M \cap W \in SUBSET M
  <2>7. Cardinality(M \cup W) <= Bound
    BY <2>2, <2>4, <2>5, <2>6, BoundIsNat DEF Bound
  <2>. QED BY <2>5, <2>6, <2>7 DEF M, W
<1>. HIDE DEF Most
<1>. QED BY <1>2, <1>3, FS_Subset, FS_CardinalityType, BoundIsNat

LEMMA LeftShrinks ==
  ASSUME WorkOK, TeamInv, NEW l \in Loops, NEW r, Milder(l, r), Become(l, r)
  PROVE  /\ Left' \in SUBSET Left
         /\ Rem(r, Steps(l)) < Rem(loop[l], Steps(l)) => Left' # Left
<1>1. /\ loop \in [Loops -> States] /\ loop' = [loop EXCEPT ![l] = r] /\ r \in States
      /\ Rem(r, Steps(l)) <= Rem(loop[l], Steps(l))
  BY DEF WorkOK, Become, Milder, Fit
<1>2. \A k \in Loops : k # l => loop'[k] = loop[k]
  BY <1>1
<1>3. loop'[l] = r
  BY <1>1
<1>4. Rem(r, Steps(l)) \in Int /\ Rem(loop[l], Steps(l)) \in Nat /\ Steps(l) \in Nat
  BY <1>1, RemFacts, LimitsOK DEF Rem, States
<1>5. ASSUME NEW q \in Left' PROVE q \in Left
  <2>1. q \in Loops \X Nat /\ q[2] \in 1 .. Rem(loop'[q[1]], Steps(q[1]))
    BY <1>5 DEF Left, Steps
  <2>2. CASE q[1] = l
    BY <1>1, <1>3, <1>4, <2>1, <2>2 DEF Left
  <2>3. CASE q[1] # l
    BY <1>2, <2>1, <2>3 DEF Left
  <2>. QED BY <2>2, <2>3
<1>6. ASSUME Rem(r, Steps(l)) < Rem(loop[l], Steps(l)) PROVE Left' # Left
  <2>. DEFINE q == <<l, Rem(loop[l], Steps(l))>>
  <2>1. q[2] >= 1 \/ Rem(r, Steps(l)) < 0
    BY <1>4, <1>6
  <2>2. Rem(r, Steps(l)) >= 0
    BY <1>1, LimitsOK DEF Milder, Fit, Rem, States
  <2>3. q \in Left
    BY <1>4, <2>1, <2>2 DEF Left
  <2>4. q \notin Left'
    BY <1>3, <1>4, <1>6 DEF Left, Steps
  <2>. QED BY <2>3, <2>4
<1>. QED BY <1>5, <1>6

(* What may still be spent keeps the overrun within its bound.             *)
Ceiling == Cap + MaxUse * Bound
SpendInv ==
  /\ burnt.tokens < Ceiling
  /\ burnt.day = Today /\ burnt.tokens >= Cap =>
       burnt.tokens + MaxUse * Cardinality(Left) < Ceiling

(* The gate is closed when the cap is reached today.                       *)
LEMMA GateIsClosed ==
  ASSUME Types, Books, CanRun
  PROVE  ~(burnt.day = Today /\ burnt.tokens >= Cap)
<1>1. budget.tokens \in Nat /\ burnt.tokens \in Nat /\ Cap \in Nat \ {0}
  BY LoopAssumption DEF Types, MoneyOK, Sheets
<1>. QED BY <1>1 DEF Books, Of, CanRun

(* A step that spends nothing and adds no reply keeps the bound.           *)
LEMMA NothingSpent ==
  ASSUME WorkOK, TeamInv, SpendInv, Types, burnt' = burnt, Today' = Today, Left' \in SUBSET Left
  PROVE  SpendInv'
<1>1. IsFiniteSet(Left) /\ Cardinality(Left) \in Nat
  BY LeftIsFinite
<1>2. Cardinality(Left') <= Cardinality(Left) /\ Cardinality(Left') \in Nat
  BY <1>1, FS_Subset, FS_CardinalityType
<1>3. MaxUse * Cardinality(Left') <= MaxUse * Cardinality(Left) /\ MaxUse * Cardinality(Left') \in Nat
      /\ MaxUse * Cardinality(Left) \in Nat
  BY <1>1, <1>2, BoundIsNat, Monotone
<1>4. burnt.tokens \in Nat /\ Ceiling' = Ceiling /\ Ceiling \in Nat
  BY BoundIsNat DEF Types, MoneyOK, Sheets, Ceiling, Bound
<1>. QED BY <1>3, <1>4 DEF SpendInv

(* A reply that is charged was one of those left.                          *)
LEMMA ReplySpent ==
  ASSUME WorkOK, TeamInv, SpendInv, Types, NEW use \in 0 .. MaxUse, Spend(use),
         Today' = Today, Left' \in SUBSET Left, Left' # Left
  PROVE  SpendInv'
<1>. DEFINE t == burnt.tokens
            u == burnt'.tokens
            n == Cardinality(Left)
            m == Cardinality(Left')
<1>1. IsFiniteSet(Left) /\ n \in Nat /\ n <= Bound
  BY LeftIsFinite
<1>2. m <= n /\ m \in Nat /\ m # n
  BY <1>1, FS_Subset, FS_CardinalityType
<1>. HIDE DEF n, m
<1>3. m + 1 <= n /\ m + 1 \in Nat
  BY <1>1, <1>2
<1>4. /\ MaxUse * (m + 1) <= MaxUse * n /\ MaxUse * n <= MaxUse * Bound
      /\ MaxUse * (m + 1) = MaxUse * m + MaxUse /\ MaxUse * m \in Nat
      /\ MaxUse * n \in Nat /\ MaxUse * Bound \in Nat /\ MaxUse \in Nat /\ Cap \in Nat \ {0}
  <2>1. MaxUse * (m + 1) <= MaxUse * n /\ MaxUse * n <= MaxUse * Bound
    BY <1>1, <1>3, BoundIsNat, Monotone
  <2>2. MaxUse * (m + 1) = MaxUse * m + MaxUse
    BY <1>2, BoundIsNat
  <2>. QED BY <1>1, <1>2, <2>1, <2>2, BoundIsNat
<1>5. t \in Nat /\ use \in Nat /\ use <= MaxUse
  BY BoundIsNat DEF Types, MoneyOK, Sheets
<1>6. CASE burnt.day = Today
  <2>1. u = t + use
    BY <1>6 DEF Spend, Charged, Types, MoneyOK, Sheets
  <2>. HIDE DEF t, u
  <2>2. CASE t < Cap
    <3>1. u + MaxUse * m < Cap + MaxUse * Bound /\ u < Cap + MaxUse * Bound
      BY <1>4, <1>5, <2>1, <2>2
    <3>. QED BY <3>1 DEF SpendInv, Ceiling, Bound, t, u, m
  <2>3. CASE t >= Cap
    <3>1. t + MaxUse * n < Cap + MaxUse * Bound
      BY <1>6, <2>3 DEF SpendInv, Ceiling, t, n
    <3>2. u + MaxUse * m < Cap + MaxUse * Bound /\ u < Cap + MaxUse * Bound
      BY <1>4, <1>5, <2>1, <3>1
    <3>. QED BY <3>2 DEF SpendInv, Ceiling, Bound, t, u, m
  <2>. QED BY <1>4, <1>5, <2>2, <2>3
<1>7. CASE burnt.day # Today
  <2>1. u = use
    BY <1>7 DEF Spend, Charged
  <2>. HIDE DEF t, u
  <2>2. u + MaxUse * m < Cap + MaxUse * Bound /\ u < Cap + MaxUse * Bound
    BY <1>4, <1>5, <2>1
  <2>. QED BY <2>2 DEF SpendInv, Ceiling, Bound, t, u, m
<1>. QED BY <1>6, <1>7

LEMMA OffFits ==
  ASSUME WorkOK, TeamInv, NEW l \in Loops
  PROVE  Milder(l, Off) /\ (loop[l].at = "think" => Rem(Off, Steps(l)) < Rem(loop[l], Steps(l)))
<1>1. Off \in States /\ Off.step <= Steps(l) /\ Off.at = "off"
  BY FreshOK, LimitsOK DEF Off
<1>2. Rem(Off, Steps(l)) = 0
  BY DEF Rem, Off
<1>. QED BY <1>1, <1>2, RemFacts, LimitsOK DEF Milder, Fit

LEMMA AdvancedFits ==
  ASSUME WorkOK, TeamInv, NEW l \in Loops, NEW n \in 0 .. MaxNudges,
         loop[l].at \in {"think", "call", "tool", "wait"}
  PROVE  /\ Milder(l, Advanced(l, n))
         /\ loop[l].at = "think" => Rem(Advanced(l, n), Steps(l)) < Rem(loop[l], Steps(l))
<1>1. /\ loop[l] \in States /\ loop[l].step <= Steps(l) /\ Steps(l) \in Nat /\ loop[l].step \in Nat
      /\ loop[l].step >= 1
  BY LimitsOK DEF WorkOK, States, TeamInv
<1>2. Advanced(l, n) \in States /\ Advanced(l, n).step <= Steps(l)
  BY AdvancedOK
<1>3. CASE loop[l].step < Steps(l)
  <2>. DEFINE r == Advanced(l, n)
  <2>1. r.at = "think" /\ r.step = loop[l].step + 1 /\ r.boss = loop[l].boss
    BY <1>1, <1>3 DEF Advanced, States
  <2>. HIDE DEF r
  <2>2. Rem(r, Steps(l)) = Steps(l) - loop[l].step
    BY <1>1, <2>1 DEF Rem
  <2>3. Rem(loop[l], Steps(l)) \in {Steps(l) - loop[l].step, Steps(l) - loop[l].step + 1}
        /\ (loop[l].at = "think" => Rem(loop[l], Steps(l)) = Steps(l) - loop[l].step + 1)
    BY <1>1 DEF Rem
  <2>. QED BY <1>1, <1>2, <2>1, <2>2, <2>3 DEF Milder, Fit, r
<1>4. CASE ~(loop[l].step < Steps(l)) /\ l = Main
  <2>1. Advanced(l, n) = [Off EXCEPT !.at = "conclude"]
    BY <1>4 DEF Advanced
  <2>2. Advanced(l, n).at = "conclude" /\ Rem(Advanced(l, n), Steps(l)) = 0
    BY <2>1 DEF Off, Rem
  <2>. QED BY <1>1, <1>2, <1>4, <2>2, RemFacts DEF Milder, Fit
<1>5. CASE ~(loop[l].step < Steps(l)) /\ l # Main
  <2>1. Advanced(l, n) = Off
    BY <1>5 DEF Advanced
  <2>. QED BY <2>1, OffFits
<1>. QED BY <1>3, <1>4, <1>5

LEMMA AfterCallFits ==
  ASSUME WorkOK, TeamInv, NEW l \in Loops, loop[l].at \in {"call", "tool", "wait"}
  PROVE  Milder(l, AfterCall(l))
<1>1. CASE loop[l].left > 1
  <2>. DEFINE r == AfterCall(l)
  <2>1. r \in States /\ r.step <= Steps(l) /\ loop[l] \in States
    BY AfterCallOK DEF WorkOK
  <2>2. r.at = "call" /\ r.step = loop[l].step /\ r.boss = loop[l].boss
    BY <1>1, <2>1 DEF AfterCall, States
  <2>. HIDE DEF r
  <2>3. Rem(r, Steps(l)) = Rem(loop[l], Steps(l)) /\ Rem(r, Steps(l)) \in Int /\ loop[l].step >= 1
    BY <2>2, RemFacts DEF Rem, TeamInv
  <2>. QED BY <2>1, <2>2, <2>3 DEF Milder, Fit, r
<1>2. CASE ~(loop[l].left > 1)
  BY <1>2, AdvancedFits, LimitsOK DEF AfterCall
<1>. QED BY <1>1, <1>2

(* A loop that moves by itself and spends nothing                          *)
LEMMA MoveKeepsAll ==
  ASSUME Types, TeamInv, SpendInv, NEW l \in Loops, NEW r, Milder(l, r), Alone(l), Become(l, r),
         team' = team, clock' = clock, burnt' = burnt
  PROVE  TeamInv' /\ SpendInv'
<1>1. WorkOK /\ Today' = Today
  BY DEF Types, Today
<1>2. TeamInv'
  BY <1>1, MoveKeepsTeam DEF Milder
<1>3. Left' \in SUBSET Left
  BY <1>1, LeftShrinks
<1>. QED BY <1>1, <1>2, <1>3, NothingSpent

LEMMA ThinkKeepsAll ==
  ASSUME Types, TeamInv, SpendInv, NEW l \in Loops, Think(l)
  PROVE  TeamInv' /\ SpendInv'
<1>1. WorkOK /\ Today' = Today /\ Alone(l) /\ loop[l].at = "think" /\ team' = team /\ clock' = clock
  BY NotWaitingAlone DEF Types, Today, Think
<1>2. PICK r : Become(l, r) /\ Milder(l, r) /\ Rem(r, Steps(l)) < Rem(loop[l], Steps(l))
  <2>1. CASE Become(l, Off)
    BY <1>1, <2>1, OffFits
  <2>2. ASSUME NEW n \in 1 .. MaxCalls,
               Become(l, [loop[l] EXCEPT !.at = "call", !.left = n, !.nudges = 0])
        PROVE  \E r : Become(l, r) /\ Milder(l, r) /\ Rem(r, Steps(l)) < Rem(loop[l], Steps(l))
    <3>. DEFINE r == [loop[l] EXCEPT !.at = "call", !.left = n, !.nudges = 0]
    <3>1. n \in 0 .. MaxCalls /\ loop[l] \in States /\ loop[l].step <= Steps(l) /\ Steps(l) \in Nat
          /\ loop[l].step \in Nat /\ loop[l].step >= 1
      BY <1>1, LimitsOK DEF WorkOK, TeamInv, States
    <3>2. r \in States /\ r.step = loop[l].step /\ r.at = "call" /\ r.boss = loop[l].boss
      BY <3>1, CallOK DEF States
    <3>. HIDE DEF r
    <3>3. Rem(r, Steps(l)) = Steps(l) - loop[l].step /\ Rem(loop[l], Steps(l)) = Steps(l) - loop[l].step + 1
      BY <1>1, <3>2 DEF Rem
    <3>4. Milder(l, r) /\ Rem(r, Steps(l)) < Rem(loop[l], Steps(l))
      BY <3>1, <3>2, <3>3 DEF Milder, Fit
    <3>. QED BY <2>2, <3>4 DEF r
  <2>3. CASE loop[l].nudges < MaxNudges /\ Become(l, Advanced(l, loop[l].nudges + 1))
    <3>1. loop[l].nudges + 1 \in 0 .. MaxNudges
      BY <1>1, <2>3, LimitsOK DEF WorkOK, States
    <3>. QED BY <1>1, <2>3, <3>1, AdvancedFits
  <2>. QED BY <2>1, <2>2, <2>3 DEF Think
<1>3. TeamInv'
  BY <1>1, <1>2, MoveKeepsTeam DEF Milder
<1>4. Left' \in SUBSET Left /\ Left' # Left
  BY <1>1, <1>2, LeftShrinks
<1>5. CASE UNCHANGED money
  BY <1>1, <1>3, <1>4, <1>5, NothingSpent DEF money
<1>6. ASSUME NEW use \in 0 .. MaxUse, Spend(use) PROVE SpendInv'
  BY <1>1, <1>4, <1>6, ReplySpent
<1>. QED BY <1>3, <1>5, <1>6 DEF Think

(* What a loop does by itself, other than to ask the brain                 *)
LEMMA OwnStepsKeepAll ==
  ASSUME Types, TeamInv, SpendInv, NEW l \in Loops,
         \/ ThinkFails(l) \/ (Conclude /\ l = Main)
         \/ AnswerAtOnce(l) \/ Read(l) \/ Change(l)
         \/ ToolReturns(l) \/ ToolFails(l) \/ Gather(l)
  PROVE  TeamInv' /\ SpendInv'
<1>1. WorkOK /\ FilesOK /\ team' = team /\ clock' = clock /\ burnt' = burnt
  BY DEF Types, ThinkFails, Conclude, AnswerAtOnce, Read, Change, ToolReturns, ToolFails, Gather,
         money, files
<1>2. CASE ThinkFails(l) \/ (Conclude /\ l = Main)
  <2>1. Become(l, Off) /\ loop[l].at \in {"think", "conclude"}
    BY <1>2 DEF ThinkFails, Conclude
  <2>. QED BY <1>1, <2>1, OffFits, NotWaitingAlone, MoveKeepsAll
<1>3. CASE AnswerAtOnce(l) \/ ToolReturns(l) \/ ToolFails(l) \/ Gather(l)
  <2>1. /\ Become(l, AfterCall(l)) /\ loop[l].at \in {"call", "tool", "wait"}
        /\ loop[l].at = "wait" => team[l] = {} /\ Busy(l) = {}
    BY <1>3 DEF AnswerAtOnce, ToolReturns, ToolFails, Gather
  <2>2. Alone(l)
    BY <2>1, NotWaitingAlone DEF Alone
  <2>. QED BY <1>1, <2>1, <2>2, AfterCallFits, MoveKeepsAll
<1>4. ASSUME NEW op \in {"read", "write", "other"}, NEW seen \in Nat, loop[l].at = "call",
             Become(l, [loop[l] EXCEPT !.at = "tool", !.op = op, !.seen = seen])
      PROVE  TeamInv' /\ SpendInv'
  <2>. DEFINE r == [loop[l] EXCEPT !.at = "tool", !.op = op, !.seen = seen]
  <2>1. loop[l] \in States /\ loop[l].step <= Steps(l) /\ loop[l].step >= 1
    BY <1>1, <1>4 DEF WorkOK, TeamInv
  <2>2. r \in States /\ r.at = "tool" /\ r.step = loop[l].step /\ r.boss = loop[l].boss
    BY <2>1 DEF States
  <2>3. Become(l, r)
    BY <1>4
  <2>. HIDE DEF r
  <2>4. Rem(r, Steps(l)) = Rem(loop[l], Steps(l))
    BY <1>4, <2>2 DEF Rem
  <2>5. Rem(loop[l], Steps(l)) \in Nat
    BY <1>1, RemFacts, LimitsOK
  <2>6. Milder(l, r)
    BY <2>1, <2>2, <2>4, <2>5 DEF Milder, Fit
  <2>. QED BY <1>1, <1>4, <2>3, <2>6, NotWaitingAlone, MoveKeepsAll
<1>5. CASE Read(l)
  <2>1. disk \in Nat
    BY <1>1 DEF FilesOK
  <2>. QED BY <1>4, <1>5, <2>1 DEF Read
<1>6. CASE Change(l)
  <2>1. disk' \in Nat
    BY <1>1, <1>6 DEF FilesOK, Change
  <2>. QED BY <1>4, <1>6, <2>1 DEF Change
<1>. QED BY <1>2, <1>3, <1>5, <1>6

(* The task begins with the gate open: the cap is not reached.             *)
LEMMA StartKeepsAll ==
  ASSUME Types, Books, TeamInv, SpendInv, StartRun
  PROVE  TeamInv' /\ SpendInv'
<1>. DEFINE r == [Off EXCEPT !.at = "think", !.step = 1]
<1>1. /\ WorkOK /\ team' = team /\ clock' = clock /\ burnt' = burnt /\ Today' = Today
      /\ Become(Main, r) /\ Idle(Main)
  BY DEF Types, StartRun, money, Today
<1>2. r \in States /\ r.step = 1 /\ r.at = "think"
  BY FreshOK, LimitsOK DEF Off, States
<1>. HIDE DEF r
<1>3. TeamInv'
  <2>1. Fit(Main, r)
    BY <1>2, LimitsOK DEF Fit
  <2>2. Alone(Main)
    BY <1>1, LimitsOK, NotWaitingAlone DEF Idle
  <2>. QED BY <1>1, <2>1, <2>2, LimitsOK, MoveKeepsTeam
<1>4. ~(burnt.day = Today /\ burnt.tokens >= Cap)
  BY GateIsClosed DEF StartRun
<1>. QED BY <1>1, <1>3, <1>4 DEF SpendInv, Ceiling, Bound

(* The loop that delegates keeps the replies it has before it.             *)
LEMMA DelegateKeepsAll ==
  ASSUME Types, TeamInv, SpendInv, NEW l \in Loops, Delegate(l)
  PROVE  TeamInv' /\ SpendInv'
<1>1. /\ WorkOK /\ clock' = clock /\ burnt' = burnt /\ Today' = Today
      /\ loop[l].at = "call" /\ loop[l].step >= 1 /\ Cardinality(Waiting) < MaxDepth
  BY DEF Types, Delegate, money, Today, Waiting, TeamInv
<1>2. PICK S \in SUBSET Resting : team' = [team EXCEPT ![l] = S]
  BY DEF Delegate
<1>3. /\ loop' = [loop EXCEPT ![l] = [loop[l] EXCEPT !.at = "wait"]]
      /\ loop \in [Loops -> States] /\ team \in [Loops -> SUBSET Subs]
  BY <1>1 DEF Delegate, Become, WorkOK
<1>4. /\ \A k \in Loops : k # l => loop'[k] = loop[k]
      /\ loop'[l] = [loop[l] EXCEPT !.at = "wait"]
      /\ loop'[l].at = "wait" /\ loop'[l].step = loop[l].step /\ loop'[l].boss = loop[l].boss
  BY <1>3 DEF States
<1>5. \A k \in Loops : Rem(loop'[k], Steps(k)) = Rem(loop[k], Steps(k))
  BY <1>1, <1>4 DEF Rem
<1>6. Left' \in SUBSET Left
  BY <1>5 DEF Left, Steps
<1>7. /\ \A k \in Loops : Idle(k)' <=> Idle(k)
      /\ \A k \in Loops : loop'[k].boss = loop[k].boss
      /\ \A k \in Loops : loop[k].at = "wait" => loop'[k].at = "wait"
  BY <1>1, <1>4 DEF Idle
<1>8. TeamInv'
  <2>1. Cardinality(Waiting') <= MaxDepth
    <3>1. Waiting' \subseteq Waiting \cup {l}
      BY <1>4 DEF Waiting
    <3>2. Cardinality(Waiting') <= Cardinality(Waiting) + 1
          /\ Cardinality(Waiting') \in Nat /\ Cardinality(Waiting) \in Nat
      BY <3>1, FiniteLoops, AtMostOneMore
    <3>. QED BY <1>1, <3>2, BoundIsNat
  <2>2. ASSUME NEW k \in Loops PROVE Cardinality(Busy(k)') <= Workers
    <3>1. Busy(k)' = Busy(k)
      BY <1>7, FiniteLoops DEF Busy
    <3>. QED BY <3>1 DEF TeamInv
  <2>3. \A s \in Subs : ~Idle(s)' => loop'[loop'[s].boss].at = "wait"
    BY <1>3, <1>7, FiniteLoops DEF TeamInv, States
  <2>4. \A k \in Loops : loop'[k].at \in {"think", "call", "tool", "wait"} => loop'[k].step >= 1
    BY <1>1, <1>4 DEF TeamInv
  <2>5. \A k \in Loops : team'[k] # {} => loop'[k].at = "wait"
    BY <1>2, <1>3, <1>4 DEF TeamInv
  <2>6. \A k \in Loops : \A s \in team'[k] : Idle(s)'
    <3>1. ASSUME NEW k \in Loops, NEW s \in team'[k] PROVE Idle(s)'
      <4>1. s \in Subs /\ Idle(s)
        BY <1>2, <1>3, <3>1 DEF TeamInv, Resting
      <4>. QED BY <1>7, <4>1, FiniteLoops
    <3>. QED BY <3>1
  <2>7. \A k, j \in Loops : k # j => team'[k] \cap team'[j] = {}
    <3>1. \A k \in Loops : S \cap team[k] = {}
      BY <1>2 DEF Resting
    <3>2. \A k \in Loops : team'[k] = IF k = l THEN S ELSE team[k]
      BY <1>2, <1>3
    <3>3. ASSUME NEW k \in Loops, NEW j \in Loops, k # j PROVE team'[k] \cap team'[j] = {}
      BY <3>1, <3>2, <3>3 DEF TeamInv
    <3>. QED BY <3>3
  <2>. QED BY <2>1, <2>2, <2>3, <2>4, <2>5, <2>6, <2>7 DEF TeamInv
<1>. QED BY <1>1, <1>6, <1>8, NothingSpent

(* A sub-agent starts with the gate open, or does not start.               *)
LEMMA StartSubKeepsAll ==
  ASSUME Types, Books, TeamInv, SpendInv, NEW l \in Loops, NEW s \in Subs, StartSub(l, s)
  PROVE  TeamInv' /\ SpendInv'
<1>. DEFINE r == IF CanRun THEN [Off EXCEPT !.at = "think", !.step = 1, !.boss = l] ELSE Off
<1>1. /\ WorkOK /\ clock' = clock /\ burnt' = burnt /\ Today' = Today
      /\ Cardinality(Busy(l)) < Workers /\ s \in team[l]
      /\ loop' = [loop EXCEPT ![s] = r] /\ team' = [team EXCEPT ![l] = @ \ {s}]
  BY DEF Types, StartSub, money, Today, Become
<1>2. /\ loop \in [Loops -> States] /\ team \in [Loops -> SUBSET Subs]
      /\ Idle(s) /\ loop[l].at = "wait" /\ s # l /\ s \in Loops
  BY <1>1, FiniteLoops DEF TeamInv, WorkOK, Idle
<1>3. /\ r \in States
      /\ r.at \in {"off", "think"}
      /\ r.at = "think" => r.step = 1 /\ r.boss = l /\ CanRun
      /\ CanRun => r.at = "think"
      /\ ~CanRun => r = Off
  BY FreshOK, LimitsOK DEF Off, States
<1>. HIDE DEF r
<1>4. /\ \A k \in Loops : k # s => loop'[k] = loop[k]
      /\ loop'[s] = r
  BY <1>1, <1>2
<1>5. /\ \A k \in Loops : team'[k] \subseteq team[k]
      /\ s \notin team'[l]
      /\ \A k \in Loops : s \notin team'[k]
  <2>1. \A k \in Loops : k # l => s \notin team[k]
    BY <1>1 DEF TeamInv
  <2>2. \A k \in Loops : team'[k] = IF k = l THEN team[k] \ {s} ELSE team[k]
    BY <1>1, <1>2
  <2>. QED BY <2>1, <2>2
<1>6. TeamInv'
  <2>1. Waiting' = Waiting
    BY <1>2, <1>3, <1>4 DEF Waiting, Idle
  <2>2. ASSUME NEW k \in Loops PROVE Cardinality(Busy(k)') <= Workers
    <3>1. CASE k # l
      <4>1. Busy(k)' \subseteq Busy(k)
        BY <1>2, <1>3, <1>4, <3>1, FiniteLoops DEF Busy, Idle
      <4>. QED BY <4>1, FiniteLoops, FS_Subset, FS_CardinalityType, BoundIsNat DEF TeamInv
    <3>2. CASE k = l
      <4>1. Busy(l)' \subseteq Busy(l) \cup {s}
        BY <1>2, <1>3, <1>4, FiniteLoops DEF Busy, Idle
      <4>2. Cardinality(Busy(l)') <= Cardinality(Busy(l)) + 1
            /\ Cardinality(Busy(l)') \in Nat /\ Cardinality(Busy(l)) \in Nat
        BY <4>1, FiniteLoops, AtMostOneMore
      <4>. QED BY <1>1, <3>2, <4>2, BoundIsNat
    <3>. QED BY <3>1, <3>2
  <2>3. ASSUME NEW x \in Subs, ~Idle(x)' PROVE loop'[loop'[x].boss].at = "wait"
    <3>1. CASE x = s
      BY <1>2, <1>3, <1>4, <2>3, <3>1 DEF Idle
    <3>2. CASE x # s
      <4>1. loop'[x] = loop[x] /\ ~Idle(x) /\ loop[x].boss \in Loops
        BY <1>2, <1>4, <2>3, <3>2, FiniteLoops DEF Idle, States
      <4>2. loop[loop[x].boss].at = "wait"
        BY <4>1 DEF TeamInv
      <4>. QED BY <1>2, <1>4, <4>1, <4>2 DEF Idle
    <3>. QED BY <3>1, <3>2
  <2>4. \A k \in Loops : loop'[k].at \in {"think", "call", "tool", "wait"} => loop'[k].step >= 1
    BY <1>3, <1>4 DEF TeamInv
  <2>5. \A k \in Loops : team'[k] # {} => loop'[k].at = "wait"
    <3>1. \A k \in Loops : team'[k] # {} => loop[k].at = "wait"
      BY <1>5 DEF TeamInv
    <3>. QED BY <1>2, <1>4, <3>1 DEF Idle
  <2>6. \A k \in Loops : \A x \in team'[k] : Idle(x)'
    <3>1. ASSUME NEW k \in Loops, NEW x \in team'[k] PROVE Idle(x)'
      <4>1. x # s /\ x \in team[k]
        BY <1>5, <3>1
      <4>2. x \in Loops /\ Idle(x)
        BY <1>2, <4>1, FiniteLoops DEF TeamInv
      <4>. QED BY <1>4, <4>1, <4>2 DEF Idle
    <3>. QED BY <3>1
  <2>7. \A k, j \in Loops : k # j => team'[k] \cap team'[j] = {}
    <3>1. ASSUME NEW k \in Loops, NEW j \in Loops, k # j PROVE team'[k] \cap team'[j] = {}
      BY <1>5, <3>1 DEF TeamInv
    <3>. QED BY <3>1
  <2>. QED BY <2>1, <2>2, <2>3, <2>4, <2>5, <2>6, <2>7 DEF TeamInv
<1>7. CASE CanRun
  <2>1. ~(burnt.day = Today /\ burnt.tokens >= Cap)
    BY <1>7, GateIsClosed
  <2>. QED BY <1>1, <1>6, <2>1 DEF SpendInv, Ceiling, Bound
<1>8. CASE ~CanRun
  <2>1. \A k \in Loops : loop'[k].at = "off" \/ loop'[k] = loop[k]
    BY <1>3, <1>4, <1>8 DEF Off
  <2>2. \A k \in Loops : loop'[k].at = "off" => Rem(loop'[k], Steps(k)) = 0
    BY DEF Rem
  <2>3. ASSUME NEW q \in Left' PROVE q \in Left
    <3>1. q \in Loops \X Nat /\ q[1] \in Loops /\ q[2] \in 1 .. Rem(loop'[q[1]], Steps(q[1]))
      BY <2>3 DEF Left, Steps
    <3>2. loop'[q[1]] = loop[q[1]]
      BY <2>1, <2>2, <3>1
    <3>. QED BY <3>1, <3>2 DEF Left
  <2>. QED BY <1>1, <1>6, <2>3, NothingSpent
<1>. QED BY <1>7, <1>8

LEMMA OutsideKeepsAll ==
  ASSUME Types, Books, TeamInv, SpendInv, Outsider \/ Tick \/ UNCHANGED vars
  PROVE  TeamInv' /\ SpendInv'
<1>1. loop' = loop /\ team' = team /\ burnt' = burnt
  BY DEF Outsider, Tick, vars, work, money
<1>2. TeamInv'
  BY <1>1 DEF TeamInv, Waiting, Busy, Idle
<1>3. Left' = Left
  BY <1>1 DEF Left, Steps
<1>4. Today \in Nat /\ Today' \in Nat /\ Today <= Today'
  BY DaysGoOn DEF Types, Outsider, Tick, vars, Today
<1>5. burnt.day \in Nat /\ burnt.day <= Today
  BY DEF Types, MoneyOK, Sheets, Books
<1>6. burnt.day = Today' => burnt.day = Today
  BY <1>4, <1>5
<1>. QED BY <1>1, <1>2, <1>3, <1>6 DEF SpendInv, Ceiling, Bound

LEMMA RestartKeepsAll ==
  ASSUME Types, TeamInv, SpendInv, Restart
  PROVE  TeamInv' /\ SpendInv'
<1>1. /\ WorkOK /\ clock' = clock /\ burnt' = burnt /\ Today' = Today
      /\ \A k \in Loops : loop'[k] = Off /\ team'[k] = {}
  BY DEF Types, Restart, Today
<1>2. \A k \in Loops : loop'[k].at = "off"
  BY <1>1 DEF Off
<1>3. Waiting' = {} /\ \A k \in Loops : Busy(k)' = {}
  BY <1>2, FiniteLoops DEF Waiting, Busy, Idle
<1>4. Cardinality({}) = 0
  BY FS_EmptySet
<1>5. TeamInv'
  <2>1. /\ Cardinality(Waiting') <= MaxDepth
        /\ \A k \in Loops : Cardinality(Busy(k)') <= Workers
    BY <1>3, <1>4, BoundIsNat
  <2>. QED BY <1>1, <1>2, <2>1, FiniteLoops DEF TeamInv, Idle
<1>6. Left' \in SUBSET Left
  <2>1. \A k \in Loops : Rem(loop'[k], Steps(k)) = 0
    BY <1>2 DEF Rem
  <2>. QED BY <2>1 DEF Left, Steps
<1>. QED BY <1>1, <1>5, <1>6, NothingSpent

LEMMA SpendStep ==
  Types /\ Books /\ TeamInv /\ SpendInv /\ [Next]_vars => TeamInv' /\ SpendInv'
<1>. SUFFICES ASSUME Types, Books, TeamInv, SpendInv, [Next]_vars
              PROVE  TeamInv' /\ SpendInv'
  OBVIOUS
<1>1. CASE StartRun
  BY <1>1, StartKeepsAll
<1>2. CASE Conclude
  BY <1>2, LimitsOK, OwnStepsKeepAll
<1>3. ASSUME NEW l \in Loops, Progress(l) PROVE TeamInv' /\ SpendInv'
  BY <1>3, ThinkKeepsAll, OwnStepsKeepAll, DelegateKeepsAll, StartSubKeepsAll DEF Progress
<1>4. CASE Outsider \/ Tick \/ UNCHANGED vars
  BY <1>4, OutsideKeepsAll
<1>5. CASE Restart
  BY <1>5, RestartKeepsAll
<1>. QED BY <1>1, <1>2, <1>3, <1>4, <1>5 DEF Next

LEMMA SpendInit == Init => TeamInv /\ SpendInv
<1>. SUFFICES ASSUME Init PROVE TeamInv /\ SpendInv
  OBVIOUS
<1>1. \A k \in Loops : loop[k].at = "off" /\ team[k] = {}
  BY DEF Init, Off
<1>2. Waiting = {} /\ \A k \in Loops : Busy(k) = {}
  BY <1>1, FiniteLoops DEF Waiting, Busy, Idle
<1>3. Cardinality({}) = 0
  BY FS_EmptySet
<1>4. TeamInv
  BY <1>1, <1>2, <1>3, BoundIsNat, FiniteLoops DEF TeamInv, Idle
<1>5. burnt.tokens = 0 /\ ~(0 >= Cap)
  BY BoundIsNat DEF Init
<1>6. Ceiling \in Nat \ {0}
  <2>1. MaxUse * Bound \in Nat
    BY BoundIsNat
  <2>. QED BY <2>1, BoundIsNat DEF Ceiling
<1>. QED BY <1>4, <1>5, <1>6 DEF SpendInv

(* However the brain, the tools, the sub-agents and the days go, steps and *)
(* counters stay in their bounds, and the cap of a day is overrun by no    *)
(* more than the replies that were under way when it was reached.          *)
THEOREM SpendAlwaysBounded == Spec => []LoopIsBounded
<1>1. Types /\ SpendInv => LoopIsBounded
  BY TypeParts DEF Types, LoopIsBounded, SpendInv, Ceiling, Bound, SpendIsBounded
<1> QED BY <1>1, TypesInit, TypesStep, BooksInit, BooksStep, SpendInit, SpendStep, PTL DEF Spec
-----------------------------------------------------------------------------
(* The audit log                                                           *)

Inside == {"read", "append", "close"}

(* The hash the next record has to name *)
LastHash == IF log = <<>> THEN NoHash ELSE log[Len(log)].id

LineType == [kind : {"record", "torn", "junk"}, id : Nat, prev : Nat]

(* What the variables are, calm or not *)
Shape ==
  /\ pc \in [Procs -> {"idle", "open", "steal", "read", "append", "close"}]
  /\ owns \in [Procs -> BOOLEAN]
  /\ DOMAIN state = Procs /\ state = [p \in Procs |-> state[p]]
  /\ DOMAIN tail = Procs /\ tail = [p \in Procs |-> tail[p]]
  /\ written \in Nat

(* The chain, line by line *)
Chained ==
  /\ log \in Seq(LineType)
  /\ \A i \in 1..Len(log) : log[i].kind = "record"
  /\ \A i \in 2..Len(log) : log[i].prev = log[i - 1].id
  /\ log # <<>> => log[1].prev = NoHash

(* While it is calm: the lock file is there exactly while one process owns *)
(* it, only that one is inside, and what it read is still the end.         *)
Exclusive ==
  /\ lock \in {"free", "held"}
  /\ \A p \in Procs : owns[p] <=> pc[p] \in Inside
  /\ \A p \in Procs : pc[p] # "steal"
  /\ \A p \in Procs : owns[p] => lock = "held"
  /\ \A p, q \in Procs : owns[p] /\ owns[q] => p = q
  /\ \A p \in Procs : pc[p] = "append" => tail[p] = LastHash
  /\ log = <<>> => \A p \in Procs : state[p] = NoHash

CalmInv == Shape /\ (calm => Chained /\ Exclusive)
-----------------------------------------------------------------------------
(* In a log of records only, auditTail finds the last one. *)
LEMMA TailIsLast ==
  ASSUME NEW p \in Procs, CalmInv, calm
  PROVE  TailFor(p) = LastHash
<1>1. Len(log) \in Nat /\ log \in Seq(LineType)
  BY LenProperties DEF CalmInv, Chained
<1>2. Records = 1..Len(log)
  BY DEF Records, CalmInv, Chained
<1>3. CASE log = <<>>
  <2>1. Records = {}
    BY <1>2, <1>3
  <2>. QED BY <1>3, <2>1 DEF TailFor, LastHash, CalmInv, Exclusive
<1>4. CASE log # <<>>
  <2>1. Len(log) \in Nat \ {0}
    BY <1>1, <1>4, EmptySeq
  <2>2. Records # {} /\ Max(Records) = Len(log)
    BY <1>2, <2>1, MaxOfInterval
  <2>. QED BY <1>4, <2>2 DEF TailFor, LastHash
<1>. QED BY <1>3, <1>4

LEMMA CalmInit == LogInit => CalmInv
BY EmptySeq DEF LogInit, CalmInv, Shape, Chained, Exclusive, NoHash, Inside

(* No step of the calm log disturbs the chain or the lock. *)
LEMMA CalmStep == CalmInv /\ [LogNext]_logVars => CalmInv'
<1>. SUFFICES ASSUME CalmInv, [LogNext]_logVars PROVE CalmInv'
  OBVIOUS
<1>. USE DEF Goto
<1>1. ASSUME NEW p \in Procs, Begin(p) PROVE CalmInv'
  BY <1>1 DEF Begin, CalmInv, Shape, Chained, Exclusive, Inside, LastHash
<1>2. ASSUME NEW p \in Procs, Open(p) PROVE CalmInv'
  <2>1. calm => \A q \in Procs : ~owns[q]
    BY <1>2 DEF Open, CalmInv, Exclusive
  <2>. QED BY <1>2, <2>1 DEF Open, CalmInv, Shape, Chained, Exclusive, Inside, LastHash
<1>3. ASSUME NEW p \in Procs, SeeStale(p) PROVE CalmInv'
  BY <1>3 DEF SeeStale, CalmInv, Shape, Chained, Exclusive
<1>4. ASSUME NEW p \in Procs, Steal(p) PROVE CalmInv'
  BY <1>4 DEF Steal, CalmInv, Shape, Chained, Exclusive
<1>5. ASSUME NEW p \in Procs, GiveUp(p) PROVE CalmInv'
  BY <1>5 DEF GiveUp, CalmInv, Shape
<1>6. ASSUME NEW p \in Procs, ReadTail(p) PROVE CalmInv'
  <2>1. calm => TailFor(p) = LastHash
    BY TailIsLast
  <2>2. Shape'
    BY <1>6 DEF ReadTail, CalmInv, Shape
  <2>3. calm => Chained' /\ Exclusive'
    BY <1>6, <2>1 DEF ReadTail, CalmInv, Shape, Chained, Exclusive, Inside, LastHash
  <2>. QED BY <1>6, <2>2, <2>3 DEF ReadTail, CalmInv
<1>7. ASSUME NEW p \in Procs, Write(p) PROVE CalmInv'
  <2>1. Shape'
    BY <1>7 DEF Write, CalmInv, Shape
  <2>2. ASSUME calm, calm', log' = Appended(Record(written + 1, tail[p]))
        PROVE  Chained' /\ Exclusive'
    <3>. DEFINE line == Record(written + 1, LastHash)
    <3>1. /\ tail[p] = LastHash /\ owns[p] /\ log \in Seq(LineType) /\ Len(log) \in Nat
          /\ written \in Nat /\ \A i \in 1..Len(log) : log[i].kind = "record"
      BY <1>7, <2>2, LenProperties DEF Write, CalmInv, Shape, Chained, Exclusive, Inside
    <3>2. LastHash \in Nat
      <4>1. CASE log = <<>>
        BY <4>1 DEF LastHash, NoHash
      <4>2. CASE log # <<>>
        <5>1. Len(log) \in 1..Len(log)
          BY <3>1, <4>2, EmptySeq
        <5>2. log[Len(log)] \in LineType
          BY <3>1, <5>1, ElementOfSeq
        <5>. QED BY <4>2, <5>2 DEF LastHash, LineType
      <4>. QED BY <4>1, <4>2
    <3>3. line \in LineType /\ line.kind = "record" /\ line.prev = LastHash
      BY <3>1, <3>2 DEF Record, LineType
    <3>4. log' = Append(log, line)
      <4>1. log # <<>> => Len(log) \in 1..Len(log)
        BY <3>1, EmptySeq
      <4>. QED BY <2>2, <3>1, <4>1 DEF Appended
    <3>. HIDE DEF line
    <3>5. /\ log' \in Seq(LineType) /\ Len(log') = Len(log) + 1 /\ log' # <<>>
          /\ \A i \in 1..Len(log) : log'[i] = log[i]
          /\ log'[Len(log) + 1] = line
      BY <3>1, <3>3, <3>4, AppendProperties
    <3>6. \A i \in 1..Len(log') : i \in 1..Len(log) \/ i = Len(log) + 1
      BY <3>1, <3>5
    <3>7. Chained'
      <4>1. \A i \in 1..Len(log') : log'[i].kind = "record"
        BY <3>1, <3>3, <3>5, <3>6
      <4>2. ASSUME NEW i \in 2..Len(log') PROVE log'[i].prev = log'[i - 1].id
        <5>1. CASE i \in 1..Len(log)
          BY <2>2, <3>1, <3>5, <5>1 DEF CalmInv, Chained
        <5>2. CASE i = Len(log) + 1
          <6>1. Len(log) \in 1..Len(log) /\ i - 1 = Len(log) /\ log # <<>>
            BY <3>1, <3>5, <5>2, EmptySeq
          <6>. QED BY <3>3, <3>5, <5>2, <6>1 DEF LastHash
        <5>. QED BY <3>6, <5>1, <5>2, <3>1, <3>5
      <4>3. log'[1].prev = NoHash
        <5>1. CASE log = <<>>
          BY <3>3, <3>5, <5>1, EmptySeq DEF LastHash
        <5>2. CASE log # <<>>
          <6>1. 1 \in 1..Len(log)
            BY <3>1, <5>2, EmptySeq
          <6>. QED BY <2>2, <3>5, <5>2, <6>1 DEF CalmInv, Chained
        <5>. QED BY <5>1, <5>2
      <4>. QED BY <3>5, <4>1, <4>2, <4>3 DEF Chained
    <3>8. \A q \in Procs : pc'[q] # "append"
      BY <1>7, <2>2, <3>1 DEF Write, CalmInv, Shape, Exclusive, Inside
    <3>9. Exclusive'
      BY <1>7, <2>2, <3>1, <3>5, <3>8 DEF Write, CalmInv, Shape, Exclusive, Inside
    <3>. QED BY <3>7, <3>9
  <2>3. ASSUME calm, UNCHANGED <<log, state, calm>> PROVE Chained' /\ Exclusive'
    BY <1>7, <2>3 DEF Write, CalmInv, Shape, Chained, Exclusive, Inside, LastHash
  <2>. QED BY <1>7, <2>1, <2>2, <2>3 DEF Write, CalmInv
<1>8. ASSUME NEW p \in Procs, Close(p) PROVE CalmInv'
  BY <1>8 DEF Close, CalmInv, Shape, Chained, Exclusive, Inside, LastHash
<1>9. ASSUME NEW p \in Procs, Crash(p) PROVE CalmInv'
  BY <1>9 DEF Crash, CalmInv, Shape, NoHash
<1>10. CASE Age
  BY <1>10 DEF Age, CalmInv, Shape
<1>11. CASE UNCHANGED logVars
  BY <1>11 DEF logVars, CalmInv, Shape, Chained, Exclusive, LastHash
<1>. QED BY <1>1, <1>2, <1>3, <1>4, <1>5, <1>6, <1>7, <1>8, <1>9, <1>10, <1>11 DEF LogNext, Step

(* auditVerify finds no break in a chained log. *)
LEMMA ChainedVerifies == Chained => BrokenAt = 0
<1>. SUFFICES ASSUME Chained PROVE Breaks = {}
  BY DEF BrokenAt
<1>1. ASSUME NEW i \in 1..Len(log) PROVE ~Bad(i)
  <2>1. log \in Seq(LineType) /\ Len(log) \in Nat /\ log # <<>>
    BY <1>1, LenProperties, EmptySeq DEF Chained
  <2>2. i # 1 => i \in 2..Len(log)
    BY <2>1
  <2>. QED BY <2>1, <2>2 DEF Bad, Chained
<1>. QED BY <1>1 DEF Breaks

(* As long as the log is calm, writers of any number that interleave in    *)
(* auditWrite leave a file that auditVerify accepts.                       *)
THEOREM CalmChainHolds == LogSpec => []ChainHolds
<1>1. CalmInv => ChainHolds
  BY ChainedVerifies DEF CalmInv, ChainHolds
<1>. QED BY <1>1, CalmInit, CalmStep, PTL DEF LogSpec

-----------------------------------------------------------------------------
(* The log in any weather: what a crash, a full disk or a stolen lock may  *)
(* do to the file, and why explainChain is not misled by it.               *)
Lines(w) == {Torn, Junk} \cup {Record(n, h) : n \in 1 .. w, h \in 0 .. w}

LogTypes ==
  /\ log \in Seq(Lines(written))
  /\ lock \in {"free", "held", "stale"}
  /\ tries \in [Procs -> 0 .. MaxTries]
  /\ pc \in [Procs -> {"idle", "open", "steal", "read", "append", "close"}]
  /\ owns \in [Procs -> BOOLEAN]
  /\ tail \in [Procs -> 0 .. written]
  /\ state \in [Procs -> 0 .. written]
  /\ written \in Nat
  /\ calm \in BOOLEAN

(* Who waits for the lock has a try left; who is on its way to its append  *)
(* has its record counted.                                                 *)
OnTheWay == {q \in Procs : pc[q] \notin {"idle", "close"}}
Counted ==
  /\ \A p \in Procs : pc[p] \in {"open", "steal"} => tries[p] < MaxTries
  /\ written + Cardinality(OnTheWay) <= MaxRecords

(* A hash is of one of the first n records of file f, unless a line there  *)
(* was cut off.                                                            *)
Known(f, h, n) == h = NoHash \/ \E j \in 1 .. n : f[j].kind # "record" \/ f[j].id = h

(* Ids grow along the file, and a record names an earlier one, unless a    *)
(* line before it is none.                                                 *)
Growing(f) ==
  /\ \A i, j \in 1 .. Len(f) :
       i < j /\ f[i].kind = "record" /\ f[j].kind = "record" => f[i].id < f[j].id
  /\ \A i \in 1 .. Len(f) :
       f[i].kind = "record" => f[i].prev < f[i].id /\ Known(f, f[i].prev, i - 1)

Remembered == \A p \in Procs : Known(log, tail[p], Len(log)) /\ Known(log, state[p], Len(log))

AuditInv == LogTypes /\ Counted /\ Growing(log) /\ Remembered

LEMMA LineFacts ==
  ASSUME NEW w \in Nat, NEW l \in Lines(w)
  PROVE  /\ l.kind \in {"record", "torn", "junk"} /\ l.id \in 0 .. w /\ l.prev \in 0 .. w
         /\ l.kind = "record" => l.id \in 1 .. w
         /\ l \in Lines(w + 1)
BY DEF Lines, Torn, Junk, Record, NoHash

LEMMA LogFacts ==
  ASSUME LogTypes
  PROVE  /\ Len(log) \in Nat /\ DOMAIN log = 1 .. Len(log)
         /\ log \in Seq(Lines(written + 1))
         /\ \A i \in 1 .. Len(log) : log[i] \in Lines(written)
         /\ log # <<>> => Len(log) \in 1 .. Len(log)
<1>1. log \in Seq(Lines(written)) /\ written \in Nat
  BY DEF LogTypes
<1>2. Len(log) \in Nat /\ DOMAIN log = 1 .. Len(log) /\ log \in [1 .. Len(log) -> Lines(written)]
  BY <1>1, LenProperties
<1>3. \A i \in 1 .. Len(log) : log[i] \in Lines(written + 1)
  BY <1>1, <1>2, LineFacts
<1>4. log \in Seq(Lines(written + 1))
  BY <1>1, <1>2, <1>3
<1>5. log # <<>> => Len(log) \in 1 .. Len(log)
  BY <1>1, <1>2, EmptySeq
<1>. QED BY <1>1, <1>2, <1>4, <1>5

LEMMA InitAudit == LogInit => AuditInv
<1>. SUFFICES ASSUME LogInit PROVE AuditInv
  OBVIOUS
<1>1. LogTypes
  BY AuditAssumption, EmptySeq DEF LogInit, LogTypes, NoHash
<1>2. OnTheWay = {}
  BY DEF LogInit, OnTheWay
<1>3. Counted
  BY <1>2, FS_EmptySet, AuditAssumption DEF LogInit, Counted
<1>4. Growing(log) /\ Remembered
  BY EmptySeq DEF LogInit, Growing, Remembered, Known
<1>. QED BY <1>1, <1>3, <1>4 DEF AuditInv

(* A line goes to the end, or onto a torn one, which then is no record.    *)
Kept(f, new) ==
  /\ Len(new) \in {Len(f), Len(f) + 1}
  /\ \A i \in 1 .. Len(f) : new[i] = f[i] \/ (f[i].kind # "record" /\ new[i].kind # "record")

LEMMA AppendedFacts ==
  ASSUME LogTypes, NEW w \in {written, written + 1}, NEW line \in Lines(w)
  PROVE  LET new == Appended(line) IN
         /\ new \in Seq(Lines(w)) /\ Kept(log, new)
         /\ new # <<>> /\ Len(new) \in Nat \ {0}
         /\ new[Len(new)] = line \/ new[Len(new)].kind # "record"
         /\ Len(new) = Len(log) => new[Len(new)].kind # "record"
<1>. DEFINE new == Appended(line)
<1>1. Len(log) \in Nat /\ log \in Seq(Lines(w))
  BY LogFacts DEF LogTypes
<1>2. CASE log # <<>> /\ log[Len(log)].kind = "torn"
  <2>. DEFINE cut == IF line = Torn THEN Torn ELSE Junk
  <2>1. new = [log EXCEPT ![Len(log)] = cut]
    BY <1>2 DEF Appended
  <2>2. cut \in Lines(w) /\ cut.kind # "record"
    BY DEF Lines, Torn, Junk
  <2>3. Len(log) \in 1 .. Len(log)
    BY <1>2, LogFacts
  <2>. HIDE DEF cut
  <2>4. /\ new \in Seq(Lines(w)) /\ Len(new) = Len(log) /\ new[Len(log)] = cut
        /\ \A i \in 1 .. Len(log) : i # Len(log) => new[i] = log[i]
    BY <1>1, <2>1, <2>2, <2>3, ExceptSeq
  <2>. QED BY <1>1, <1>2, <2>2, <2>3, <2>4, EmptySeq DEF Kept
<1>3. CASE ~(log # <<>> /\ log[Len(log)].kind = "torn")
  <2>1. new = Append(log, line)
    BY <1>3 DEF Appended
  <2>2. /\ new \in Seq(Lines(w)) /\ Len(new) = Len(log) + 1 /\ new # <<>>
        /\ \A i \in 1 .. Len(log) : new[i] = log[i]
        /\ new[Len(log) + 1] = line
    BY <1>1, <2>1, AppendProperties
  <2>. QED BY <1>1, <2>2 DEF Kept
<1>. QED BY <1>2, <1>3

(* What was known stays known when the file is kept. *)
LEMMA KnownStays ==
  ASSUME NEW f, NEW new, Len(f) \in Nat, Len(new) \in Nat, Kept(f, new),
         NEW h, NEW n \in 0 .. Len(f), Known(f, h, n), NEW m \in n .. Len(new)
  PROVE  Known(new, h, m)
<1>. SUFFICES ASSUME h # NoHash PROVE \E j \in 1 .. m : new[j].kind # "record" \/ new[j].id = h
  BY DEF Known
<1>2. PICK j \in 1 .. n : f[j].kind # "record" \/ f[j].id = h
  BY DEF Known
<1>3. j \in 1 .. Len(f) /\ j \in 1 .. m
  OBVIOUS
<1>. QED BY <1>2, <1>3 DEF Kept

(* A file stays in order when its last line is a record newer than all     *)
(* before it, that names one of them, or none.                             *)
LEMMA KeptGrowing ==
  ASSUME NEW w \in Nat, NEW f \in Seq(Lines(w)), NEW new \in Seq(Lines(w + 1)),
         Growing(f), Kept(f, new),
         Len(new) = Len(f) + 1 /\ new[Len(new)].kind = "record"
           => /\ new[Len(new)].id = w + 1
              /\ new[Len(new)].prev \in 0 .. w
              /\ Known(f, new[Len(new)].prev, Len(f))
  PROVE  Growing(new)
<1>1. /\ Len(f) \in Nat /\ Len(new) \in Nat
      /\ \A i \in 1 .. Len(f) : f[i] \in Lines(w)
  BY LenProperties
<1>2. \A i \in 1 .. Len(new) : i \in 1 .. Len(f) \/ (i = Len(new) /\ Len(new) = Len(f) + 1)
  BY <1>1 DEF Kept
<1>3. \A i \in 1 .. Len(f) : new[i].kind = "record" =>
        f[i].kind = "record" /\ new[i] = f[i] /\ f[i].id \in 1 .. w
  BY <1>1, LineFacts DEF Kept
<1>4. ASSUME NEW i \in 1 .. Len(new), NEW j \in 1 .. Len(new), i < j,
             new[i].kind = "record", new[j].kind = "record"
      PROVE  new[i].id < new[j].id
  <2>1. i \in 1 .. Len(f)
    BY <1>1, <1>2, <1>4
  <2>2. CASE j \in 1 .. Len(f)
    BY <1>3, <1>4, <2>1, <2>2 DEF Growing
  <2>3. CASE j = Len(new) /\ Len(new) = Len(f) + 1
    BY <1>1, <1>3, <1>4, <2>1, <2>3
  <2>. QED BY <1>2, <2>2, <2>3
<1>5. ASSUME NEW i \in 1 .. Len(new), new[i].kind = "record"
      PROVE  new[i].prev < new[i].id /\ Known(new, new[i].prev, i - 1)
  <2>. DEFINE h == new[i].prev
              n == i - 1
  <2>1. n \in 0 .. Len(f) /\ n \in n .. Len(new)
    BY <1>1, <1>2
  <2>2. h < new[i].id /\ Known(f, h, n)
    <3>1. CASE i \in 1 .. Len(f)
      BY <1>3, <1>5, <3>1 DEF Growing
    <3>2. CASE i = Len(new) /\ Len(new) = Len(f) + 1
      BY <1>1, <1>5, <3>2
    <3>. QED BY <1>2, <3>1, <3>2
  <2>. HIDE DEF h, n
  <2>3. Known(new, h, n)
    BY <1>1, <2>1, <2>2, KnownStays
  <2>. QED BY <2>2, <2>3 DEF h, n
<1>. QED BY <1>4, <1>5 DEF Growing

LEMMA TailKnown ==
  ASSUME AuditInv, NEW p \in Procs
  PROVE  TailFor(p) \in 0 .. written /\ Known(log, TailFor(p), Len(log))
<1>1. /\ Len(log) \in Nat /\ \A i \in 1 .. Len(log) : log[i] \in Lines(written)
      /\ LogTypes /\ Remembered /\ written \in Nat
  BY LogFacts DEF AuditInv, LogTypes
<1>2. CASE Records = {}
  BY <1>1, <1>2 DEF TailFor, LogTypes, Remembered
<1>3. CASE Records # {}
  <2>1. Max(Records) \in Records
    <3>1. Records \in SUBSET (0 .. Len(log))
      BY <1>1 DEF Records
    <3>. QED BY <1>1, <1>3, <3>1, MaxIsIn
  <2>2. PICK j \in 1 .. Len(log) : j = Max(Records)
    BY <2>1 DEF Records
  <2>3. TailFor(p) = log[j].id /\ log[j] \in Lines(written)
    BY <1>1, <1>3, <2>2 DEF TailFor
  <2>. QED BY <1>1, <2>2, <2>3, LineFacts DEF Known
<1>. QED BY <1>2, <1>3

(* The count of those on their way when one more or one less is. *)
LEMMA OneLess ==
  ASSUME NEW p \in Procs, p \in OnTheWay
  PROVE  /\ Cardinality(OnTheWay \ {p}) = Cardinality(OnTheWay) - 1
         /\ Cardinality(OnTheWay) \in Nat
BY AuditAssumption, FS_Subset, FS_RemoveElement, FS_CardinalityType DEF OnTheWay

LEMMA CountType == Cardinality(OnTheWay) \in Nat
BY AuditAssumption, FS_Subset, FS_CardinalityType DEF OnTheWay

(* No step of auditWrite, no crash and no ageing of the lock file disturbs *)
(* the order of the file.                                                  *)
LEMMA AuditStep == AuditInv /\ [LogNext]_logVars => AuditInv'
<1>. SUFFICES ASSUME AuditInv, [LogNext]_logVars PROVE AuditInv'
  OBVIOUS
<1>. USE DEF Goto
<1>0. /\ LogTypes /\ Counted /\ Growing(log) /\ Remembered /\ Len(log) \in Nat /\ written \in Nat
      /\ MaxTries \in Nat \ {0} /\ MaxRecords \in Nat /\ log \in Seq(Lines(written))
  BY LogFacts, AuditAssumption DEF AuditInv, LogTypes
<1>1. ASSUME NEW p \in Procs, Begin(p) PROVE AuditInv'
  <2>0. UNCHANGED <<log, lock, owns, tail, state, written, calm>>
    BY <1>1 DEF Begin
  <2>1. LogTypes' /\ Growing(log)' /\ Remembered'
    <3>1. LogTypes'
      BY <1>0, <1>1, <2>0 DEF Begin, LogTypes
    <3>2. Growing(log)' /\ Remembered'
      BY <1>0, <2>0 DEF Growing, Remembered, Known
    <3>. QED BY <3>1, <3>2
  <2>2. OnTheWay' = OnTheWay \cup {p} /\ p \notin OnTheWay
    BY <1>0, <1>1 DEF Begin, OnTheWay, LogTypes
  <2>3. Cardinality(OnTheWay') = Cardinality(OnTheWay) + 1
    BY <2>2, AuditAssumption, FS_Subset, FS_AddElement DEF OnTheWay
  <2>. DEFINE Writing == {q \in Procs : pc[q] # "idle"}
  <2>4. Cardinality(OnTheWay) <= Cardinality(Writing) /\ Cardinality(Writing) \in Nat
    BY AuditAssumption, FS_Subset, FS_CardinalityType DEF OnTheWay
  <2>5. written + Cardinality(Writing) < MaxRecords
    BY <1>1 DEF Begin
  <2>. HIDE DEF Writing
  <2>6. written + Cardinality(OnTheWay') <= MaxRecords
    BY <1>0, <2>3, <2>4, <2>5, CountType
  <2>7. Counted'
    BY <1>0, <1>1, <2>6 DEF Begin, Counted, LogTypes
  <2>. QED BY <2>1, <2>7 DEF AuditInv
<1>2. ASSUME NEW p \in Procs, Open(p) \/ SeeStale(p) \/ Steal(p) \/ GiveUp(p) PROVE AuditInv'
  <2>1. OnTheWay' = OnTheWay
    BY <1>0, <1>2 DEF Open, SeeStale, Steal, GiveUp, OnTheWay, LogTypes
  <2>2. LogTypes'
    <3>1. (log \in Seq(Lines(written)))'
      BY <1>0, <1>2 DEF Open, SeeStale, Steal, GiveUp
    <3>2. tries[p] < MaxTries
      BY <1>2, <1>0 DEF Open, SeeStale, Steal, GiveUp, Counted
    <3>3. tries' \in [Procs -> 0 .. MaxTries]
      <4>1. tries[p] + 1 \in 0 .. MaxTries /\ tries \in [Procs -> 0 .. MaxTries]
        BY <1>0, <3>2 DEF LogTypes
      <4>2. tries' = tries \/ tries' = [tries EXCEPT ![p] = tries[p] + 1]
        BY <1>2 DEF Open, SeeStale, Steal, GiveUp
      <4>. QED BY <4>1, <4>2
    <3>. QED BY <1>0, <1>2, <3>1, <3>3 DEF Open, SeeStale, Steal, GiveUp, LogTypes
  <2>3. Counted'
    BY <1>0, <1>2, <2>1 DEF Open, SeeStale, Steal, GiveUp, LogTypes, Counted
  <2>4. Growing(log)' /\ Remembered'
    BY <1>0, <1>2 DEF Open, SeeStale, Steal, GiveUp, Growing, Remembered, Known
  <2>. QED BY <2>2, <2>3, <2>4 DEF AuditInv
<1>3. ASSUME NEW p \in Procs, ReadTail(p) PROVE AuditInv'
  <2>1. TailFor(p) \in 0 .. written /\ Known(log, TailFor(p), Len(log))
    BY TailKnown DEF AuditInv
  <2>2. OnTheWay' = OnTheWay
    BY <1>0, <1>3 DEF ReadTail, OnTheWay, LogTypes
  <2>3. LogTypes' /\ Counted' /\ Growing(log)'
    BY <1>0, <1>3, <2>1, <2>2 DEF ReadTail, LogTypes, Counted, Growing, Known, NoHash
  <2>4. Remembered'
    BY <1>0, <1>3, <2>1 DEF ReadTail, LogTypes, Remembered, Known
  <2>. QED BY <2>3, <2>4 DEF AuditInv
<1>4. ASSUME NEW p \in Procs, Write(p) PROVE AuditInv'
  <2>. DEFINE line == Record(written + 1, tail[p])
  <2>1. /\ pc[p] = "append" /\ written' = written + 1 /\ pc' = [pc EXCEPT ![p] = "close"]
        /\ UNCHANGED <<lock, tries, owns, tail>>
        /\ \/ log' = Appended(line) /\ state' = [state EXCEPT ![p] = written + 1] /\ calm' = calm
           \/ UNCHANGED <<log, state, calm>>
           \/ log' = Appended(Torn) /\ state' = state /\ calm' = FALSE
    BY <1>4 DEF Write
  <2>2. line \in Lines(written + 1) /\ Torn \in Lines(written + 1)
        /\ line.id = written + 1 /\ line.prev = tail[p] /\ line.kind = "record"
        /\ Torn.kind # "record"
    BY <1>0 DEF Lines, Record, Torn, LogTypes
  <2>. HIDE DEF line
  <2>3. /\ log' \in Seq(Lines(written + 1)) /\ Kept(log, log') /\ Len(log') \in Nat
        /\ log' = log \/ (/\ log' = Appended(line) \/ log' = Appended(Torn)
                         /\ log' # <<>> /\ Len(log') \in Nat \ {0}
                         /\ \/ log'[Len(log')] = line
                            \/ log'[Len(log')].kind # "record")
        /\ log' = Appended(line) =>
             log'[Len(log')] = line \/ log'[Len(log')].kind # "record"
        /\ log' = Appended(line) => Len(log') \in Nat \ {0}
    <3>1. CASE log' = Appended(line)
      BY <1>0, <2>2, <3>1, AppendedFacts
    <3>2. CASE log' = Appended(Torn)
      BY <1>0, <2>2, <3>2, AppendedFacts
    <3>3. CASE log' = log /\ log' # Appended(line)
      BY <1>0, <3>3, LogFacts DEF Kept
    <3>. QED BY <2>1, <3>1, <3>2, <3>3
  <2>4. Growing(log')
    <3>1. tail[p] \in 0 .. written /\ Known(log, tail[p], Len(log))
      BY <1>0 DEF LogTypes, Remembered
    <3>2. Len(log') = Len(log) + 1 /\ log'[Len(log')].kind = "record" => log'[Len(log')] = line
      BY <1>0, <2>3
    <3>. QED BY <1>0, <2>2, <2>3, <3>1, <3>2, KeptGrowing
  <2>5. \A h : Known(log, h, Len(log)) => Known(log', h, Len(log'))
    BY <1>0, <2>3, KnownStays DEF Kept
  <2>6. Remembered'
    <3>1. ASSUME log' = Appended(line) PROVE Known(log', written + 1, Len(log'))
      BY <2>2, <2>3, <3>1 DEF Known
    <3>. QED BY <1>0, <2>1, <2>5, <3>1 DEF Remembered, LogTypes
  <2>7. LogTypes'
    <3>1. (log \in Seq(Lines(written)))'
      BY <2>1, <2>3
    <3>2. /\ tail' \in [Procs -> 0 .. written'] /\ state' \in [Procs -> 0 .. written']
          /\ written' \in Nat
      BY <1>0, <2>1 DEF LogTypes
    <3>3. pc' \in [Procs -> {"idle", "open", "steal", "read", "append", "close"}]
      BY <1>0, <2>1 DEF LogTypes
    <3>. QED BY <1>0, <2>1, <3>1, <3>2, <3>3 DEF LogTypes
  <2>8. Counted'
    <3>1. OnTheWay' = OnTheWay \ {p} /\ p \in OnTheWay
      BY <1>0, <2>1 DEF OnTheWay, LogTypes
    <3>2. written' + Cardinality(OnTheWay') <= MaxRecords
      BY <1>0, <2>1, <3>1, OneLess DEF Counted
    <3>. QED BY <1>0, <2>1, <3>2 DEF Counted, LogTypes
  <2>. QED BY <2>4, <2>6, <2>7, <2>8 DEF AuditInv
<1>5. ASSUME NEW p \in Procs, Close(p) PROVE AuditInv'
  <2>1. OnTheWay' = OnTheWay
    BY <1>0, <1>5 DEF Close, OnTheWay, LogTypes
  <2>2. LogTypes' /\ Counted' /\ Growing(log)' /\ Remembered'
    BY <1>0, <1>5, <2>1 DEF Close, LogTypes, Counted, Growing, Remembered, Known, NoHash
  <2>. QED BY <2>2 DEF AuditInv
<1>6. ASSUME NEW p \in Procs, Crash(p) PROVE AuditInv'
  <2>1. /\ log' = log \/ log' = Appended(Torn)
        /\ Torn \in Lines(written) /\ Torn.kind # "record"
    BY <1>6 DEF Crash, Lines, Torn
  <2>2. /\ log' \in Seq(Lines(written)) /\ Kept(log, log') /\ Len(log') \in Nat
        /\ log' # log => log'[Len(log')].kind # "record"
    BY <1>0, <2>1, LogFacts, AppendedFacts DEF Kept
  <2>3. Growing(log')
    <3>1. CASE log' = log
      BY <1>0, <3>1
    <3>2. CASE log' # log
      <4>1. log' \in Seq(Lines(written + 1))
        BY <1>0, <2>2, <2>1, AppendedFacts, LineFacts, <3>2, Torn \in Lines(written + 1), SMTT(60) DEF Lines
      <4>. QED BY <1>0, <2>2, <3>2, <4>1, KeptGrowing
    <3>. QED BY <3>1, <3>2
  <2>4. \A h : Known(log, h, Len(log)) => Known(log', h, Len(log'))
    BY <1>0, <2>2, KnownStays DEF Kept
  <2>5. Remembered'
    BY <1>0, <1>6, <2>4 DEF Crash, Remembered, LogTypes, Known
  <2>6. LogTypes'
    <3>1. (log \in Seq(Lines(written)))'
      BY <1>6, <2>2 DEF Crash
    <3>2. /\ owns' \in [Procs -> BOOLEAN] /\ calm' \in BOOLEAN
          /\ pc' \in [Procs -> {"idle", "open", "steal", "read", "append", "close"}]
      BY <1>0, <1>6 DEF Crash, LogTypes
    <3>3. /\ tail' \in [Procs -> 0 .. written'] /\ state' \in [Procs -> 0 .. written']
      BY <1>0, <1>6 DEF Crash, LogTypes, NoHash
    <3>. QED BY <1>0, <1>6, <3>1, <3>2, <3>3 DEF Crash, LogTypes
  <2>7. Counted'
    <3>1. OnTheWay' = OnTheWay \ {p}
      BY <1>0, <1>6 DEF Crash, OnTheWay, LogTypes
    <3>2. Cardinality(OnTheWay') <= Cardinality(OnTheWay)
      BY <3>1, OneLess, CountType
    <3>3. Cardinality(OnTheWay') \in Nat
      BY <3>1, CountType, AuditAssumption, FS_Subset, FS_CardinalityType DEF OnTheWay
    <3>. QED BY <1>0, <1>6, <3>2, <3>3, CountType DEF Crash, Counted, LogTypes
  <2>. QED BY <2>3, <2>5, <2>6, <2>7 DEF AuditInv
<1>7. CASE Age
  BY <1>0, <1>7 DEF Age, AuditInv, LogTypes, Counted, OnTheWay, Growing, Remembered, Known
<1>8. CASE UNCHANGED logVars
  BY <1>0, <1>8 DEF logVars, AuditInv, LogTypes, Counted, OnTheWay, Growing, Remembered, Known
<1>. QED BY <1>1, <1>2, <1>3, <1>4, <1>5, <1>6, <1>7, <1>8 DEF LogNext, Step

(* The first line auditVerify refuses has a cause that is not a loss.      *)
LEMMA NoLossIsNamed == AuditInv => NoFalseLoss
<1>. SUFFICES ASSUME AuditInv, Breaks # {} PROVE NoFalseLoss
  BY DEF NoFalseLoss, Cause, BrokenAt
<1>. DEFINE k == BrokenAt
            h == log[k].prev
<1>1. /\ Len(log) \in Nat /\ \A i \in 1 .. Len(log) : log[i] \in Lines(written)
      /\ written \in Nat /\ Growing(log) /\ log \in Seq(Lines(written))
  BY LogFacts DEF AuditInv, LogTypes
<1>2. k \in 1 .. Len(log) /\ Bad(k) /\ \A i \in 1 .. k - 1 : ~Bad(i)
  <2>1. Breaks \in SUBSET Nat
    BY DEF Breaks
  <2>2. k \in Breaks /\ \A i \in Breaks : k <= i
    BY <2>1, MinIsSmallest DEF BrokenAt
  <2>. HIDE DEF k
  <2>. QED BY <1>1, <2>2 DEF Breaks
<1>. HIDE DEF k
<1>3. CASE log[k].kind # "record"
  BY <1>2, <1>3 DEF NoFalseLoss, Cause, k
<1>4. CASE log[k].kind = "record"
  <2>1. \A i \in 1 .. k - 1 : log[i].kind = "record"
    BY <1>2 DEF Bad
  <2>2. h < log[k].id /\ Known(log, h, k - 1) /\ h \in 0 .. written
    BY <1>1, <1>2, <1>4, LineFacts DEF Growing
  <2>3. \A i \in Records : i > k => log[i].id > h
    <3>1. \A i \in Records : i > k => log[k].id < log[i].id
      BY <1>1, <1>2, <1>4 DEF Growing, Records
    <3>2. \A i \in 1 .. Len(log) : log[i].id \in Nat
      BY <1>1, LineFacts
    <3>. QED BY <1>2, <2>2, <3>1, <3>2 DEF Records
  <2>4. h # NoHash => \E i \in Named(h) : i < k
    BY <1>1, <1>2, <2>1, <2>2 DEF Known, Named, Records
  <2>5. h # NoHash => k > 1
    BY <1>2, <2>2 DEF Known
  <2>6. h # NoHash => ~\E i \in Named(h) : i = k - 1
    BY <1>2, <1>4, <2>5 DEF Bad, Named, Records
  <2>7. ~\E i \in Named(h) : i > k
    BY <2>2, <2>3 DEF Named
  <2>8. h # NoHash => \E i \in Named(h) : i < k - 1
    BY <1>1, <1>2, <2>4, <2>6 DEF Named, Records
  <2>. QED BY <1>2, <1>4, <2>7, <2>8 DEF NoFalseLoss, Cause, k
<1>. QED BY <1>3, <1>4

LEMMA InvTypes == AuditInv => AuditTypeOK
<1>. SUFFICES ASSUME AuditInv PROVE AuditTypeOK
  OBVIOUS
<1>1. Cardinality(OnTheWay) \in Nat /\ written \in Nat /\ MaxRecords \in Nat
  BY CountType, AuditAssumption DEF AuditInv, LogTypes
<1>2. written \in 0 .. MaxRecords
  BY <1>1 DEF AuditInv, Counted
<1>. QED BY <1>2, LogFacts DEF AuditInv, AuditTypeOK, LogTypes, Lines

(* However many processes write to the log, crash in it, meet full disks   *)
(* and steal each other's lock, explainChain never reports a record as     *)
(* gone: the file keeps the order of the writes, and a record names one    *)
(* before it.                                                              *)
THEOREM LogStaysSound == LogSpec => []LogIsSound
<1>1. AuditInv => LogIsSound
  BY NoLossIsNamed, InvTypes DEF LogIsSound
<1>. QED BY <1>1, InitAudit, AuditStep, PTL DEF LogSpec
=============================================================================
