----------------------------- MODULE Developer ------------------------------
(***************************************************************************)
(* Developer accounting: packages/core/developer.ts.  The operations part  *)
(* of every round pays approved expenses, fills a retained reserve, and    *)
(* only what remains after both may be paid to the developer, once a day.  *)
(*                                                                         *)
(* Every operation is one transaction under the control lock.  Scheduling  *)
(* and signing are given the policy and the clock of the process that      *)
(* calls them: neither need agree with those of an earlier call.  A policy *)
(* that is disabled does nothing and is left out.  How a signed payout     *)
(* reaches its outcome is the business of Execution.                       *)
(***************************************************************************)
EXTENDS Integers, FiniteSets, Functions

CONSTANTS
    Days,           \* UTC days a clock may show
    Policies,       \* [minimum, reserve, cost, maxFee] of the configurations in use
    Expenses,       \* operating expenses an operator may approve
    Invoice,        \* the amount of each
    Allowance,      \* and its bound on payment costs
    Shares,         \* operations part of a round
    MaxAllocated,   \* bound on what all rounds together allocate
    LegacyAmount,   \* an operations intent older than developer accounting
    Fees            \* network fees

ASSUME DeveloperConstants ==
    /\ Days \subseteq Nat
    /\ Policies \subseteq [minimum : Nat \ {0}, reserve : Nat, cost : Nat, maxFee : Nat \ {0}]
    /\ \A p \in Policies : p.maxFee <= p.cost
    /\ IsFiniteSet(Expenses)
    /\ Invoice \in [Expenses -> Nat \ {0}] /\ Allowance \in [Expenses -> Nat]
    /\ Shares \subseteq Nat \ {0} /\ MaxAllocated \in Nat /\ LegacyAmount \in Nat
    /\ Fees \subseteq Nat

VARIABLES
    paused,
    allocated,   \* what rounds have allocated in all
    balance,     \* operations:<epoch> (all of them), ops:available, ops:retained
    legacy,      \* amount of the unfinalized legacy intent, which owns operations funds
    approved,    \* expenses approved
    paid, fees,  \* payments of an expense, and their costs
    payout,      \* status of the payout of a day, "none" when the day has no row
    terms,       \* policy frozen in its plan
    amount,      \* its amount
    principal,   \* dev:principal:<day>
    cost         \* dev:cost:<day>

expenseVars == <<approved, paid, fees>>
payoutVars  == <<payout, terms, amount, principal, cost>>
vars == <<paused, allocated, balance, legacy, expenseVars, payoutVars>>

Accounts == {"operations", "available", "retained"}
Spendable == {"operations", "available"}

(* A payout is planned until it is signed; a failure on chain returns it there.  The *)
(* status 'cancelled' is read by developer.ts:70 but nothing writes it.              *)
PayoutStatuses == {"none", "planned", "signed", "finalized"}
Unresolved == {d \in Days : payout[d] \in {"planned", "signed"}}

NoTerms == [minimum |-> 0, reserve |-> 0, cost |-> 0, maxFee |-> 0]

Positive(n) == IF n > 0 THEN n ELSE 0
Lesser(m, n) == IF m < n THEN m ELSE n

-----------------------------------------------------------------------------
(* operationAccounts(): what an account holds beyond the intents that own it. *)
FreeIgnoringLegacy(bal, a) == bal[a]

Free(bal, a) == IF a = "operations" THEN Positive(bal[a] - legacy) ELSE bal[a]

FreeToSpend(bal) == Free(bal, "operations") + Free(bal, "available")

(* moveAvailable(): the accounts in the order of their names, each up to what is free. *)
FreeBefore(bal, a) ==
    CASE a = "operations" -> 0
      [] a = "available" -> Free(bal, "operations")
      [] OTHER -> FreeToSpend(bal)

DrawFromFirst(bal, value, from) == [bal EXCEPT !["operations"] = @ - value]

Draw(bal, value, from) ==
    [a \in Accounts |->
        IF a \in from THEN bal[a] - Lesser(Positive(value - FreeBefore(bal, a)), Free(bal, a))
                      ELSE bal[a]]

(* obligations(): what approved expenses may still take. *)
OutstandingIgnoringCosts ==
    SumFunction([x \in approved |->
        IF paid[x] < Invoice[x] THEN Invoice[x] - paid[x] + Allowance[x] ELSE 0])

Outstanding ==
    SumFunction([x \in approved |->
        IF paid[x] < Invoice[x] THEN Invoice[x] - paid[x] + Positive(Allowance[x] - fees[x]) ELSE 0])

-----------------------------------------------------------------------------
(* plan() of a round moves its operations part here. *)
AllocateShare(n) ==
    /\ allocated + n <= MaxAllocated
    /\ allocated' = allocated + n
    /\ balance' = [balance EXCEPT !["operations"] = @ + n]
    /\ UNCHANGED <<paused, legacy, expenseVars, payoutVars>>

(* The legacy intent settles out of the account it owns. *)
SettleLegacy ==
    /\ legacy > 0
    /\ balance["operations"] >= legacy
    /\ balance' = [balance EXCEPT !["operations"] = @ - legacy]
    /\ legacy' = 0
    /\ UNCHANGED <<paused, allocated, expenseVars, payoutVars>>

(* recordExpense(): an obligation, which moves no money and may exceed what there is. *)
RecordExpense(x) ==
    /\ x \notin approved
    /\ approved' = approved \cup {x}
    /\ UNCHANGED <<paused, allocated, balance, legacy, paid, fees, payoutVars>>

(* recordExpensePayment() of n with its fee: a transfer that already happened on chain. *)
(* The API verifies that its transaction has no other transfer out of the treasury.     *)
RecordExpensePayment(x, n, fee) ==
    /\ x \in approved
    /\ paid[x] + n <= Invoice[x]
    /\ fees[x] + fee <= Allowance[x]
    /\ FreeToSpend(balance) + balance["retained"] >= n + fee
    /\ balance' = Draw(Draw(balance, n, Accounts), fee, Accounts)
    /\ paid' = [paid EXCEPT ![x] = @ + n]
    /\ fees' = [fees EXCEPT ![x] = @ + fee]
    /\ UNCHANGED <<paused, allocated, legacy, approved, payoutVars>>

-----------------------------------------------------------------------------
(* schedule(): a reserve above the policy is released, one below it is filled from what *)
(* the obligations leave.                                                               *)
Released(p) == Positive(balance["retained"] - p.reserve)

TopUp(p) ==
    Lesser(Positive(p.reserve - balance["retained"]), Positive(FreeToSpend(balance) - Outstanding))

Reserved(p) ==
    LET released == [balance EXCEPT !["retained"] = @ - Released(p), !["available"] = @ + Released(p)]
    IN  [Draw(released, TopUp(p), Spendable) EXCEPT !["retained"] = @ + TopUp(p)]

(* summary(): withdrawableRemainder *)
SurplusAfterWholeReserve(p) ==
    Positive(FreeToSpend(Reserved(p)) - Outstanding - p.reserve - p.cost)

Surplus(p) ==
    Positive(FreeToSpend(Reserved(p)) - Outstanding
             - Positive(p.reserve - Reserved(p)["retained"]) - p.cost)

MayScheduleBesideReview(d) ==
    /\ ~paused
    /\ payout[d] = "none"
    /\ \A e \in Days : e > d => payout[e] = "none"
    /\ \A e \in Days : payout[e] # "signed"

MaySchedule(d) ==
    /\ ~paused
    /\ payout[d] = "none"
    /\ \A e \in Days : e > d => payout[e] = "none"
    /\ Unresolved = {}

(* The day's payout takes the surplus when that is worth a payout. *)
SchedulePayout(d, p) ==
    /\ MaySchedule(d)
    /\ Surplus(p) >= p.minimum
    /\ balance' = Draw(Draw(Reserved(p), Surplus(p), Spendable), p.cost, Spendable)
    /\ payout' = [payout EXCEPT ![d] = "planned"]
    /\ terms' = [terms EXCEPT ![d] = p]
    /\ amount' = [amount EXCEPT ![d] = Surplus(p)]
    /\ principal' = [principal EXCEPT ![d] = @ + Surplus(p)]
    /\ cost' = [cost EXCEPT ![d] = @ + p.cost]
    /\ UNCHANGED <<paused, allocated, legacy, expenseVars>>

(* Otherwise the call returns null, and what it did to the reserve is committed. *)
ScheduleReserveOnly(d, p) ==
    /\ MaySchedule(d)
    /\ Surplus(p) < p.minimum
    /\ balance' = Reserved(p)
    /\ UNCHANGED <<paused, allocated, legacy, expenseVars, payoutVars>>

(* assertDeveloperPayoutAuthorized(), with the checks of runIntent's authorize(). *)
AuthorizedOnceScheduled(d, p) ==
    /\ ~paused
    /\ p = terms[d]
    /\ FreeToSpend(balance) + balance["retained"] >= Outstanding + p.reserve
    /\ principal[d] >= amount[d]

Authorized(d, p) ==
    /\ ~paused
    /\ p = terms[d]
    /\ FreeToSpend(balance) + balance["retained"] >= Outstanding + p.reserve
    /\ principal[d] >= amount[d]
    /\ cost[d] >= p.maxFee

Sign(d, p) ==
    /\ payout[d] = "planned"
    /\ Authorized(d, p)
    /\ payout' = [payout EXCEPT ![d] = "signed"]
    /\ UNCHANGED <<paused, allocated, balance, legacy, expenseVars, terms, amount, principal, cost>>

(* apply() of a payout, with finalizeDeveloperPayout() in the same transaction. *)
Settle(d, fee) ==
    /\ payout[d] = "signed"
    /\ fee <= terms[d].maxFee /\ fee <= cost[d] /\ principal[d] = amount[d]
    /\ payout' = [payout EXCEPT ![d] = "finalized"]
    /\ principal' = [principal EXCEPT ![d] = @ - amount[d]]
    /\ balance' = [balance EXCEPT !["available"] = @ + cost[d] - fee]
    /\ cost' = [cost EXCEPT ![d] = 0]
    /\ UNCHANGED <<paused, allocated, legacy, expenseVars, terms, amount>>

(* runIntent(): a finalized failure pays its fee out of the payout's own cost account. *)
Fail(d, fee) ==
    /\ payout[d] = "signed"
    /\ fee <= terms[d].maxFee /\ fee <= cost[d]
    /\ payout' = [payout EXCEPT ![d] = "planned"]
    /\ cost' = [cost EXCEPT ![d] = @ - fee]
    /\ UNCHANGED <<paused, allocated, balance, legacy, expenseVars, terms, amount, principal>>

TogglePause ==
    /\ paused' = ~paused
    /\ UNCHANGED <<allocated, balance, legacy, expenseVars, payoutVars>>

-----------------------------------------------------------------------------
Init ==
    /\ paused = TRUE /\ allocated = 0
    /\ legacy \in {0, LegacyAmount}
    /\ balance = [a \in Accounts |-> IF a = "operations" THEN legacy ELSE 0]
    /\ approved = {} /\ paid = [x \in Expenses |-> 0] /\ fees = [x \in Expenses |-> 0]
    /\ payout = [d \in Days |-> "none"] /\ terms = [d \in Days |-> NoTerms]
    /\ amount = [d \in Days |-> 0]
    /\ principal = [d \in Days |-> 0] /\ cost = [d \in Days |-> 0]

Next ==
    \/ \E n \in Shares : AllocateShare(n)
    \/ SettleLegacy
    \/ \E x \in Expenses : RecordExpense(x)
    \/ \E x \in Expenses, fee \in Fees : \E n \in 1..Invoice[x] : RecordExpensePayment(x, n, fee)
    \/ \E d \in Days, p \in Policies : SchedulePayout(d, p) \/ ScheduleReserveOnly(d, p) \/ Sign(d, p)
    \/ \E d \in Days, fee \in Fees : Settle(d, fee) \/ Fail(d, fee)
    \/ TogglePause

Spec == Init /\ [][Next]_vars

-----------------------------------------------------------------------------
(* Properties *)

(* obligations() is a sum of lamports. *)
ObligationsAreNatural == Outstanding \in Nat

TypeOK ==
    /\ ObligationsAreNatural
    /\ paused \in BOOLEAN /\ allocated \in Nat /\ legacy \in Nat
    /\ balance \in [Accounts -> Nat]
    /\ approved \in SUBSET Expenses
    /\ paid \in [Expenses -> Nat] /\ fees \in [Expenses -> Nat]
    /\ payout \in [Days -> PayoutStatuses]
    /\ terms \in [Days -> Policies \cup {NoTerms}]
    /\ amount \in [Days -> Nat] /\ principal \in [Days -> Nat] /\ cost \in [Days -> Nat]

(* Operations funds that a legacy intent owns stay there until it settles, whatever else *)
(* draws on the same accounts (developer.ts:91-98, 111-121).                             *)
LegacyIsKept == legacy <= balance["operations"]

(* A day's payout holds its principal from the day it is reserved to the day it is paid, *)
(* and nothing afterwards; one that is signed can pay the fee it may be charged, after   *)
(* any number of charged failures (developer.ts:124-131, 146-147).                       *)
PayoutIsFunded ==
    \A d \in Days :
        /\ principal[d] = (IF d \in Unresolved THEN amount[d] ELSE 0)
        /\ d \notin Unresolved => cost[d] = 0
        /\ payout[d] = "signed" => cost[d] >= terms[d].maxFee

(* While a payout is unresolved it is the last: no clock, forwards or backwards, starts  *)
(* another (developer.ts:188-195).                                                       *)
UnresolvedIsLast ==
    \A d \in Unresolved : Unresolved = {d} /\ \A e \in Days : e > d => payout[e] = "none"

(* What operations can spend, over what the approved expenses may still take. *)
Margin == FreeToSpend(balance) + balance["retained"] - Outstanding

(* A payout takes exactly the surplus: behind it remain the obligations and the reserve  *)
(* of its policy, to the last lamport, whatever reserve an earlier policy had left; so   *)
(* it can be signed as it stands (developer.ts:143-147, 196-208).                        *)
TakesExactlySurplus ==
    [][\A d \in Days : payout[d] = "none" /\ payout'[d] # "none" =>
          Margin' = terms'[d].reserve /\ cost'[d] >= terms'[d].maxFee]_vars

(* Nothing but a new approval or a new payout lowers what is left over the obligations:  *)
(* not a partial payment, its costs, a reserve moved up or down, a failure or the legacy *)
(* intent (developer.ts:101-110, 196-202, 256-259).                                      *)
MarginIsKept ==
    [][\/ Margin' >= Margin
       \/ approved' # approved
       \/ \E d \in Days : payout[d] = "none" /\ payout'[d] # "none"]_vars
=============================================================================
