-------------------------------- MODULE Money --------------------------------
(***************************************************************************)
(* The arithmetic of packages/core/money.ts: dividing an acquired quantity *)
(* among the holders of a snapshot, and a round's funding into its parts.  *)
(* Owners are numbered by the alphabetical order of their addresses.       *)
(***************************************************************************)
EXTENDS Integers, FiniteSets, Functions

(* The basis points of a policy, as shares of Whole, and the basket's size. *)
CONSTANTS BasketShare, BuybackShare, OperationsShare, Whole, BasketSize

ASSUME PolicyIsValid ==
    /\ BasketShare \in Nat /\ BuybackShare \in Nat /\ OperationsShare \in Nat
    /\ Whole \in Nat \ {0}
    /\ BasketShare + BuybackShare + OperationsShare = Whole
    /\ BasketSize \in Nat \ {0}

-----------------------------------------------------------------------------
(* The proportional share of o, rounded down, and what the rounding drops. *)
Share(quantity, balance, o) == (quantity * balance[o]) \div SumFunction(balance)
Remainder(quantity, balance, o) == (quantity * balance[o]) % SumFunction(balance)

Dust(quantity, balance) ==
    quantity - SumFunction([o \in DOMAIN balance |-> Share(quantity, balance, o)])

(* Larger remainders come first, equal ones in the order of the addresses. *)
Precedes(quantity, balance, p, o) ==
    LET rp == Remainder(quantity, balance, p)
        ro == Remainder(quantity, balance, o)
    IN  rp > ro \/ (rp = ro /\ p < o)

(* How many come before o when the dust is handed out. *)
Turn(quantity, balance, o) ==
    Cardinality({p \in DOMAIN balance : Precedes(quantity, balance, p, o)})

(* Largest remainder: everyone's share, and one unit more while the dust lasts. *)
AllocateDown(quantity, balance) ==
    [o \in DOMAIN balance |-> Share(quantity, balance, o)]

Allocate(quantity, balance) ==
    [o \in DOMAIN balance |->
        Share(quantity, balance, o)
        + IF Turn(quantity, balance, o) < Dust(quantity, balance) THEN 1 ELSE 0]

-----------------------------------------------------------------------------
(* The parts of a round: its cost allowance, the legs of the basket, the buyback, *)
(* the operations part, and what the divisions leave.                             *)
BudgetWithoutLegRemainder(total, cost) ==
    LET net == total - cost
        basket == (net * BasketShare) \div Whole
        buyback == (net * BuybackShare) \div Whole
        operations == (net * OperationsShare) \div Whole
    IN  [cost |-> cost, buyback |-> buyback, operations |-> operations,
         leg |-> basket \div BasketSize,
         remainder |-> net - basket - buyback - operations]

Budget(total, cost) ==
    LET net == total - cost
        basket == (net * BasketShare) \div Whole
        buyback == (net * BuybackShare) \div Whole
        operations == (net * OperationsShare) \div Whole
    IN  [cost |-> cost, buyback |-> buyback, operations |-> operations,
         leg |-> basket \div BasketSize,
         remainder |-> net - basket - buyback - operations + (basket % BasketSize)]

(* The reference: of all divisions of the quantity in whole units, the closest to the *)
(* exact proportions.                                                                 *)
Deviation(quantity, balance, division) ==
    SumFunction([o \in DOMAIN balance |->
        (division[o] * SumFunction(balance) - quantity * balance[o])
        * (division[o] * SumFunction(balance) - quantity * balance[o])])

Divisions(quantity, balance) ==
    {d \in [DOMAIN balance -> 0..quantity] : SumFunction(d) = quantity}

ClosestDivision(quantity, balance) ==
    /\ Allocate(quantity, balance) \in Divisions(quantity, balance)
    /\ \A d \in Divisions(quantity, balance) :
          Deviation(quantity, balance, Allocate(quantity, balance))
             <= Deviation(quantity, balance, d)

(* Everything the moves of a round take out of revenue. *)
BudgetTotal(b) == b.cost + b.buyback + b.operations + b.remainder + BasketSize * b.leg

(* They take the funding, and no part is negative. *)
ExactBudget(total, cost) ==
    LET b == Budget(total, cost) IN
    /\ BudgetTotal(b) = total
    /\ b.cost >= 0 /\ b.buyback >= 0 /\ b.operations >= 0 /\ b.leg >= 0 /\ b.remainder >= 0
=============================================================================
