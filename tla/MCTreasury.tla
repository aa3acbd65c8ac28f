----------------------------- MODULE MCTreasury -----------------------------
(* Small instances of Treasury for TLC. *)
EXTENDS Treasury, TLC

CONSTANTS e1, e2, a1

TwoRounds == {e1, e2}
OneAsset == {a1}

(* Receipts and refunds: two receipts, the second one in the earlier slot. *)
FeeAmounts == 1 :> 7 @@ 2 :> 9
FeeSlots == 1 :> 5 @@ 2 :> 3
OneHolder == {1 :> 1}

(* Claims and payouts: one large receipt and one of capital; two snapshots. *)
ClaimAmounts == 1 :> 14 @@ 2 :> 2
ClaimSlots == 1 :> 1 @@ 2 :> 1
TwoSnapshots == {1 :> 1 @@ 2 :> 2, 2 :> 1}

Symmetry == Permutations(Rounds)
=============================================================================
