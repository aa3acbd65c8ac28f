---------------------------- MODULE MCDeveloper -----------------------------
(* A small instance of Developer for TLC. *)
EXTENDS Developer, TLC

CONSTANT x1, x2

(* Two configurations: the second one keeps a larger reserve and allows a retry. *)
TwoPolicies ==
    {[minimum |-> 1, reserve |-> 1, cost |-> 1, maxFee |-> 1],
     [minimum |-> 1, reserve |-> 3, cost |-> 2, maxFee |-> 1]}

TwoInvoices == x1 :> 2 @@ x2 :> 1
TwoAllowances == x1 :> 1 @@ x2 :> 0
=============================================================================
