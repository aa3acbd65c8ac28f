------------------------ MODULE MCExecutionLiveness ------------------------
(* Small instances of ExecutionLiveness for TLC (no symmetry: liveness). *)
EXTENDS ExecutionLiveness, TLC

CONSTANTS i1, i2

TwoIntents == {i1, i2}
TwoRanks == i1 :> 1 @@ i2 :> 2
=============================================================================
