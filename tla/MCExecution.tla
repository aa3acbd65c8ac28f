----------------------------- MODULE MCExecution -----------------------------
(* A small instance of Execution for TLC. *)
EXTENDS ExecutionInvariant, TLC

CONSTANTS i1, i2
MCIntents == {i1, i2}
MCRank0 == i1 :> 1 @@ i2 :> 2

(* A pause only removes behaviours; paused states are explored between two ticks.   *)
PausedAtRest == paused => \A w \in Workers : pc[w] = "idle"

(* Processes and signatures are interchangeable; intents are not (creation order). *)
Symmetry == Permutations(Workers) \cup Permutations(Sigs)
=============================================================================
