-------------------------------- MODULE Rules --------------------------------
(***************************************************************************)
(* The rules of Money, Census and Basket over growing inputs: a census     *)
(* that gains accounts and a purchase to divide among its holders, an      *)
(* income with the upkeep it pays, or a catalogue that gains rows.         *)
(***************************************************************************)
EXTENDS Integers, Sequences, FiniteSets, SequencesExt, Money, Census, Basket

(* How far the inputs grow. *)
CONSTANTS MaxAccounts, MaxOwners, MaxAmount, MaxQuantity, MaxFunding, MaxCost,
          MaxRows, MaxMints, MaxPools, MaxValue

ASSUME InputsAreBounded ==
    /\ MaxAccounts \in Nat /\ MaxOwners \in Nat /\ MaxAmount \in Nat /\ MaxQuantity \in Nat
    /\ MaxFunding \in Nat /\ MaxCost \in Nat
    /\ MaxRows \in Nat /\ MaxMints \in Nat /\ MaxPools \in Nat /\ MaxValue \in Nat

VARIABLES holdings, purchase, income, upkeep, observed

inputs == <<holdings, purchase, income, upkeep, observed>>

TokenAccounts == [owner : 1..MaxOwners, amount : 0..MaxAmount]
Rows == [mint : 1..MaxMints, pool : 1..MaxPools, value : 1..MaxValue, sound : BOOLEAN,
         reasons : {{}}]

NoCensus == holdings = <<>> /\ purchase = 0
NoIncome == income = 1 /\ upkeep = 0

AddAccount ==
    /\ NoIncome /\ observed = <<>>
    /\ Len(holdings) < MaxAccounts
    /\ \E account \in TokenAccounts : holdings' = Append(holdings, account)
    /\ UNCHANGED <<purchase, income, upkeep, observed>>

AcquireMore ==
    /\ NoIncome /\ observed = <<>>
    /\ purchase < MaxQuantity
    /\ purchase' = purchase + 1
    /\ UNCHANGED <<holdings, income, upkeep, observed>>

FundMore ==
    /\ NoCensus /\ observed = <<>>
    /\ income < MaxFunding
    /\ income' = income + 1
    /\ UNCHANGED <<holdings, purchase, upkeep, observed>>

CostMore ==
    /\ NoCensus /\ observed = <<>>
    /\ upkeep < MaxCost /\ upkeep + 1 < income
    /\ upkeep' = upkeep + 1
    /\ UNCHANGED <<holdings, purchase, income, observed>>

AddRow ==
    /\ NoCensus /\ NoIncome
    /\ Len(observed) < MaxRows
    /\ \E row \in Rows : observed' = Append(observed, row)
    /\ UNCHANGED <<holdings, purchase, income, upkeep>>

NoInputs == holdings = <<>> /\ purchase = 0 /\ income = 1 /\ upkeep = 0 /\ observed = <<>>

MoreInputs == AddAccount \/ AcquireMore \/ FundMore \/ CostMore \/ AddRow

Inputs == NoInputs /\ [][MoreInputs]_inputs

-----------------------------------------------------------------------------
(* An acquired quantity is handed out to the last unit, never more and never less, among *)
(* the eligible owners, all of whose accounts count, and no other division in whole      *)
(* units is closer to their proportions (money.ts:2-12, selection.ts:55-63).             *)
AllocationIsClosest ==
    LET balance == Holders(holdings)
        owners == {holdings[n].owner : n \in DOMAIN holdings}
    IN  /\ SumFunction([o \in owners |-> Balance(holdings, o)]) = Supply(holdings)
        /\ DOMAIN balance # {} => ClosestDivision(purchase, balance)

(* The moves of a round take exactly its funding out of revenue, whatever the divisions *)
(* leave, and no part is negative (money.ts:13-21, engine.ts:66-69).                    *)
BudgetIsExact == ExactBudget(income, upkeep)

(* Every order is enumerated, so it is enough to compare neighbouring ones. *)
Swapped(s, n) == [s EXCEPT ![n] = s[n + 1], ![n + 1] = s[n]]

(* A basket holds the highest-ranked of the mints all of whose observations agree and    *)
(* qualify, whatever order they come in; the same whether the repetitions are collapsed  *)
(* in the catalogue or reach the selection; and a saved selection of distinct mints      *)
(* selects the same again (selection.ts:9-37, market-data.ts:41-95, provenance.ts:94-119,*)
(* engine.ts:53-54).                                                                     *)
SelectionIsFair ==
    LET chosen == Mints(SelectBasket(observed))
        candidates == Candidates(observed)
    IN  /\ IsTop(observed, chosen)
        /\ \A n \in 1..(Len(observed) - 1) : Mints(SelectBasket(Swapped(observed, n))) = chosen
        /\ Mints(SelectBasket(candidates)) = chosen
        /\ Mints(SelectBasket(Universe(candidates))) = chosen
=============================================================================
