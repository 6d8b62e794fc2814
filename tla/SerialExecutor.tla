-------------------------- MODULE SerialExecutor ---------------------------
(***************************************************************************)
(* What docs/ARCHITECTURE.md ("Serial execution") promises of the task     *)
(* queue: one server that never idles while somebody waits.  Tasks are     *)
(* served one at a time in the order they were accepted, and a task that   *)
(* waits may be withdrawn.                                                 *)
(***************************************************************************)
EXTENDS Naturals, SequencesExt

CONSTANTS Ids, None

VARIABLES
  pending,  \* the tasks that wait, in order of arrival
  active    \* the task that is served, or None

Idle == active = None /\ pending = <<>>

ExecutorInit == Idle

Accept(j) ==
  IF Idle THEN active' = j /\ pending' = <<>>
          ELSE active' = active /\ pending' = Append(pending, j)

Finish ==
  /\ active # None
  /\ IF pending = <<>> THEN active' = None /\ pending' = <<>>
                       ELSE active' = Head(pending) /\ pending' = Tail(pending)

Withdraw(i) ==
  /\ i \in 1..Len(pending)
  /\ pending' = RemoveAt(pending, i)
  /\ active' = active

ExecutorNext ==
  \/ \E j \in Ids : Accept(j)
  \/ Finish
  \/ \E i \in 1..Len(pending) : Withdraw(i)

ExecutorSpec ==
  ExecutorInit /\ [][ExecutorNext]_<<pending, active>> /\ WF_<<pending, active>>(Finish)
=============================================================================
