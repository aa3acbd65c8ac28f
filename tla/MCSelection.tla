---------------------------- MODULE MCSelection ----------------------------
(* Instances of Selection for TLC. *)
EXTENDS Selection, TLC

CONSTANTS viewer, buyer, planner, b1

MCBudgetsOf == [c \in Callers |-> IF c = viewer THEN {b1} ELSE Budgets]
MCUseOf == (viewer :> "view") @@ (buyer :> "swap") @@ (planner :> "commit")
=============================================================================
