----------------------------- MODULE PaymentLane -----------------------------
(***************************************************************************)
(* What the execution loop promises to the rest of the treasury, without   *)
(* signatures, leases, processes or crashes: one payment is in flight at a *)
(* time, each intent is paid at most once, an intent whose payment failed  *)
(* for good may be tried again, and the books are closed on an intent only *)
(* after the chain paid it.                                                *)
(***************************************************************************)
CONSTANT Intents

VARIABLE stage    \* of each intent: owed, committed, paid (on chain), settled (in the books)

Stages == {"owed", "committed", "paid", "settled"}
OnTheWay == {"committed", "paid"}

Init == stage = [i \in Intents |-> "owed"]

(* A payment is irrevocably released while no other one is unresolved. *)
Commit(i) ==
    /\ stage[i] = "owed"
    /\ \A j \in Intents : stage[j] \notin OnTheWay
    /\ stage' = [stage EXCEPT ![i] = "committed"]

(* The network executes it; nothing else can pay. *)
Pay(i) ==
    /\ stage[i] = "committed"
    /\ stage' = [stage EXCEPT ![i] = "paid"]

(* It can never execute: the intent is owed again. *)
Fail(i) ==
    /\ stage[i] = "committed"
    /\ stage' = [stage EXCEPT ![i] = "owed"]

(* The books record the payment. *)
Settle(i) ==
    /\ stage[i] = "paid"
    /\ stage' = [stage EXCEPT ![i] = "settled"]

Next == \E i \in Intents : Commit(i) \/ Pay(i) \/ Fail(i) \/ Settle(i)

Spec == Init /\ [][Next]_stage
=============================================================================
