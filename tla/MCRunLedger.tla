---------------------------- MODULE MCRunLedger ----------------------------
(***************************************************************************)
(* Two views of RunLedger for TLC, small where the other is large: the     *)
(* effects of a tool that may not be repeated, under crashes, failed saves *)
(* and compensation; and the records of a run - recovery points, rollback, *)
(* approvals and their expiry - under the caps of the code.  `view` picks  *)
(* one at the start; the constants of this module bound both.              *)
(***************************************************************************)
EXTENDS RunLedger

CONSTANTS p1, r1, charge, label, mark1, mark2

\* a tool that may not be repeated
Charge == [op |-> charge, se |-> TRUE, idem |-> FALSE, comp |-> FALSE]
ChargeOnly == {Charge}

VARIABLE view

Effects == INSTANCE RunLedger WITH
  Bindings <- {FALSE}, Marks <- {}, Expiries <- {}, MaxPoints <- 1, MaxClock <- 0
Records == INSTANCE RunLedger WITH
  Bindings <- {TRUE}, Saves <- {TRUE}, MaxAttempts <- 1, MaxIssued <- 1

ViewsInit == Init /\ view \in {"effects", "records"}

ViewsNext ==
  /\ UNCHANGED view
  /\ \/ view = "effects" /\ Effects!Next
     \/ view = "records" /\ Records!Next

ViewsSpec == ViewsInit /\ [][ViewsNext]_<<vars, view>>
=============================================================================
