---------------------------- MODULE ShellCommands -----------------------------
(***************************************************************************)
(* The shell tool (apps/desktop/src/tools/shell.js): a command line is     *)
(* parsed into stages, consecutive stages of a pipe form a group, and the  *)
(* groups are executed in order with the meaning of && || and ; .          *)
(*                                                                         *)
(* A word is a program by what becomes of it: it ends well ("0") or badly  *)
(* ("1"), runs until the timeout ("late"), or is not allowed or not found  *)
(* ("none").  What stands behind the first word of a stage is left out.    *)
(***************************************************************************)
EXTENDS Naturals, Sequences, FiniteSets, SequencesExt, Filters

CONSTANT Lines   \* command lines: sequences of words and operators

Words == {"0", "1", "late", "none"}
Operators == {"&&", "||", ";", "|"}

ASSUME LinesAssumption == Lines \subseteq Seq(Words \cup Operators)

VARIABLES
    stages,   \* what the line was parsed into: [op, word], op stands BEFORE the word
    at,       \* the stage the next group begins with
    lastExit,
    ran,      \* the stages that were executed, in order
    alive,    \* the stages whose processes live
    call      \* "running", "background", "done", "error" or "idle"

shellVars == <<stages, at, lastExit, ran, alive, call>>
-----------------------------------------------------------------------------
(* Parsing *)

\* pushStage, pushWord: an operator closes the stage and heads the next one.
Token(acc, token) ==
    IF token \in Operators
    THEN [out |-> Append(acc.out, acc.cur), cur |-> [op |-> token, word |-> ""]]
    ELSE [acc EXCEPT !.cur.word = IF @ = "" THEN token ELSE @]

\* parseCommand: stages without a word are dropped, their operator with them.
Parse(line) ==
    LET scan[i \in 0 .. Len(line)] ==
            IF i = 0 THEN [out |-> <<>>, cur |-> [op |-> "", word |-> ""]] ELSE Token(scan[i - 1], line[i])
        end == scan[Len(line)]
        all == Append(end.out, end.cur)
    IN Picked(all, {i \in DOMAIN all : all[i].word # ""})

\* resolveBinary: the allowlists of the device and of the agent, then the path
Resolves(stage) == stage.word # "none"
Exit(stage) == IF stage.word = "0" THEN 0 ELSE 1
-----------------------------------------------------------------------------
(* Execution *)

\* How far the group reaches that begins at i.
GroupEnd(i) == CHOOSE j \in i .. Len(stages) :
                  /\ \A k \in i + 1 .. j : stages[k].op = "|"
                  /\ j < Len(stages) => stages[j + 1].op # "|"

(* mutant: && and || change places *)
MutRuns(op, exit) == (op = "&&" => exit # 0) /\ (op = "||" => exit = 0)
\* decide
Runs(op, exit) == (op = "&&" => exit = 0) /\ (op = "||" => exit # 0)

Answer(what) == call' = what /\ alive' = alive

\* The group is over.  The inner loop has counted the further stages of the
\* pipe, and i += group.length counts them again.
After(first, last) == last + 1 + (last - first)

SkipGroup(first, last) ==
    /\ ~Runs(stages[first].op, lastExit)
    /\ at' = After(first, last)
    /\ UNCHANGED <<lastExit, ran, alive, call>>

\* runStage: its process group is killed at the timeout and when it closed.
RunSingle(first) ==
    /\ Runs(stages[first].op, lastExit)
    /\ lastExit' = Exit(stages[first])
    /\ at' = first + 1
    /\ IF Resolves(stages[first])
       THEN ran' = Append(ran, first) /\ UNCHANGED <<alive, call>>
       ELSE UNCHANGED ran /\ Answer("error")

\* The stages of the pipe are started one by one: when one of them cannot be,
\* those before it have been.  Otherwise all of them are awaited and killed.
RunPipe(first, last) ==
    /\ Runs(stages[first].op, lastExit)
    /\ LET stuck == {k \in first .. last : ~Resolves(stages[k])}
           reached == first .. (IF stuck = {} THEN last ELSE (CHOOSE k \in stuck : \A l \in stuck : k <= l) - 1)
       IN /\ ran' = ran \o [k \in 1 .. Cardinality(reached) |-> first + k - 1]
          /\ IF stuck = {}
             THEN /\ lastExit' = Exit(stages[last])
                  /\ at' = After(first, last)
                  /\ UNCHANGED <<alive, call>>
             ELSE /\ alive' = reached /\ call' = "error"
                  /\ UNCHANGED <<lastExit, at>>

\* One round of the loop of executeStages.
RunGroup ==
    /\ call = "running" /\ at <= Len(stages)
    /\ LET last == GroupEnd(at)
       IN \/ SkipGroup(at, last)
          \/ last = at /\ RunSingle(at)
          \/ last > at /\ RunPipe(at, last)
    /\ UNCHANGED stages

EndOfLine ==
    /\ call = "running" /\ at > Len(stages)
    /\ Answer("done")
    /\ UNCHANGED <<stages, at, lastExit, ran>>

\* background: the first stage is started and left alone.
StartInBackground ==
    /\ call = "running" /\ at = 1 /\ ran = <<>>
    /\ IF Resolves(stages[1])
       THEN ran' = <<1>> /\ alive' = {1} /\ call' = "background"
       ELSE call' = "error" /\ UNCHANGED <<ran, alive>>
    /\ UNCHANGED <<stages, at, lastExit>>

ShellIdle == stages = <<>> /\ at = 1 /\ lastExit = 0 /\ ran = <<>> /\ alive = {} /\ call = "idle"

\* shell.run: a line without a word is refused (EmptyLine), any other is executed.
ShellInit ==
    /\ \E line \in Lines : stages = Parse(line)
    /\ at = 1 /\ lastExit = 0 /\ ran = <<>> /\ alive = {}
    /\ call = IF stages = <<>> THEN "error" ELSE "running"

ShellNext == RunGroup \/ EndOfLine \/ StartInBackground

ShellSpec == ShellInit /\ [][ShellNext]_shellVars
-----------------------------------------------------------------------------
(* What a POSIX shell does with the same stages: group by group from the   *)
(* left, up to the first one that cannot run.                              *)
ShellGroup(acc, i) ==
    LET group == i .. GroupEnd(i)
    IN IF acc.stop \/ ~((stages[i].op = "&&" => acc.exit = 0) /\ (stages[i].op = "||" => acc.exit # 0))
       THEN acc
       ELSE IF \E k \in group : ~Resolves(stages[k]) THEN [acc EXCEPT !.stop = TRUE]
       ELSE [ran |-> acc.ran \cup group, exit |-> Exit(stages[GroupEnd(i)]), stop |-> FALSE]

\* A stage behind a pipe belongs to the group that began before it.
ShellUpTo[i \in 0 .. Len(stages)] ==
    IF i = 0 THEN [ran |-> {}, exit |-> 0, stop |-> FALSE]
    ELSE IF i = 1 \/ stages[i].op # "|" THEN ShellGroup(ShellUpTo[i - 1], i)
    ELSE ShellUpTo[i - 1]

Shell == ShellUpTo[Len(stages)]

(* A line whose pipes stand at its end runs the stages a shell would run,  *)
(* ends as it would, and is answered with an error exactly when a stage    *)
(* that was reached cannot run (executeStages, shell.js:350).              *)
ChainsAreAShells ==
    call \in {"done", "error"} /\ stages # <<>> /\ ran # <<>>
    /\ (\A i \in DOMAIN stages : GroupEnd(i) > i => GroupEnd(i) = Len(stages)) =>
        /\ (call = "error") = Shell.stop
        /\ call = "done" => ToSet(ran) = Shell.ran /\ lastExit = Shell.exit

(* "Chains (&& || ;) and pipes (|) are supported" (shell.js:9): whatever   *)
(* is chained to a pipe is executed as well.                               *)
PipesAreAShells == call = "done" => ToSet(ran) = Shell.ran /\ lastExit = Shell.exit
=============================================================================
