------------------------------ MODULE MCIntake -------------------------------
(* A small instance of Intake for TLC. *)
EXTENDS Intake, TLC

CONSTANTS w1, fee, buy, bill, ata, aux, t1, t2, t3, t4

Paying(n) == "native" :> n @@ "token" :> 0

(* A transaction that pays into three accounts of the treasury, a purchase, and an expense. *)
TheIn == t1 :> fee @@ t2 :> fee @@ t3 :> buy @@ t4 :> fee
TheTo == t1 :> "native" @@ t2 :> ata @@ t3 :> ata @@ t4 :> aux
TheAmount == t1 :> 1 @@ t2 :> 2 @@ t3 :> 1 @@ t4 :> 1
TheDebit == buy :> Paying(2) @@ bill :> Paying(4)
TheMaxDebit == buy :> Paying(3)
TheFailFee == buy :> 1
TheOpening == Paying(7)
=============================================================================
