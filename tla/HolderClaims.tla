---------------------------- MODULE HolderClaims ----------------------------
(***************************************************************************)
(* What the treasury promises its holders.  A claim is one holder's share  *)
(* of one purchase.  It comes into being once, is reserved for a payout    *)
(* together with the other claims of that payout, and is delivered once,   *)
(* again with all the others.  Nothing ever takes it back.                 *)
(***************************************************************************)
CONSTANT Claims

VARIABLE claim

Init == claim = [k \in Claims |-> "none"]

(* The claims of C, all in stage from, go to stage to together. *)
Advance(C, from, to) ==
    /\ C # {}
    /\ \A k \in C : claim[k] = from
    /\ claim' = [k \in Claims |-> IF k \in C THEN to ELSE claim[k]]

Next ==
    \E C \in SUBSET Claims :
        Advance(C, "none", "owed") \/ Advance(C, "owed", "reserved")
        \/ Advance(C, "reserved", "paid")

Spec == Init /\ [][Next]_claim
=============================================================================
