------------------------------ MODULE Treasury ------------------------------
(***************************************************************************)
(* The treasury's ledger: packages/core/engine.ts and the accounts,        *)
(* receipts, rounds, intents, entitlements and payout batches it writes.   *)
(*                                                                         *)
(* Every operation is one transaction under the control lock, so an action *)
(* is a whole transaction and any order of them is possible: what a        *)
(* process read before its transaction (the revenue to spend, the rounds   *)
(* whose costs to return, the holders to pay) may be out of date when it   *)
(* commits.  Whether a purchase is signed, sent and finalized is the       *)
(* business of Execution; here an outcome simply arrives, with its cost.   *)
(***************************************************************************)
EXTENDS Integers, FiniteSets, FiniteSetsExt, Functions, Money

CONSTANTS
    Receipts,      \* incoming transfers of SOL, numbered by their identifiers
    Amount,        \* the amount of each
    Slot,          \* and its slot
    Rounds,        \* epochs
    Assets,        \* the basket
    Owners,        \* holders, numbered by their addresses
    Snapshots,     \* eligible balances a round may be committed with
    Fundings,      \* fundings a worker may ask for
    CostForecast,  \* cost allowance of a round
    Outputs,       \* quantities a purchase may acquire
    Charges,       \* fee and rent the network may take
    MinReserve,    \* execution reserve below which nothing new is committed
    MaxDay,        \* cap on the funding of a day
    MaxRecipients  \* transfers per payout

ASSUME TreasuryConstants ==
    /\ Receipts \subseteq Nat /\ IsFiniteSet(Receipts)
    /\ Owners \subseteq Nat /\ IsFiniteSet(Owners)
    /\ IsFiniteSet(Rounds)
    /\ IsFiniteSet(Assets) /\ BasketSize = Cardinality(Assets)
    /\ Amount \in [Receipts -> Nat \ {0}] /\ Slot \in [Receipts -> Nat]
    /\ \A b \in Snapshots : DOMAIN b \subseteq Owners /\ DOMAIN b # {}
                            /\ \A o \in DOMAIN b : b[o] \in Nat \ {0}
    /\ Fundings \subseteq Nat /\ Outputs \subseteq Nat \ {0} /\ Charges \subseteq Nat
    /\ CostForecast \in Nat /\ MinReserve \in Nat /\ MaxDay \in Nat
    /\ MaxRecipients \in Nat \ {0}

VARIABLES
    paused,
    (* incoming_transfers and funding_receipt_uses *)
    class,          \* classification of a receipt, "none" before it is recorded
    reclassified,   \* deposits linked to the reserve by an operator
    committed,      \* commitments of a round, by receipt
    refunded,       \* cost refunds of a round, by receipt
    dayFunding,     \* funding of the rounds created today
    (* balances in SOL *)
    revenue, reserve, deposits, quarantine,
    cost, buyback, operations, rounding, budget,
    (* epochs and intents *)
    epoch,          \* status of a round
    snapshot,       \* eligible balances it was committed with
    swap, buy, burn,
    (* balances in tokens, entitlements, batches *)
    liabilities, burnUnits, reserved, delivered,
    entitled, paid

receiptVars == <<class, reclassified, deposits, quarantine>>
useVars     == <<committed, refunded, dayFunding, revenue>>
roundVars   == <<cost, buyback, operations, rounding, budget, epoch, snapshot, swap, buy, burn>>
claimVars   == <<liabilities, burnUnits, reserved, delivered, entitled, paid>>
vars == <<paused, receiptVars, useVars, reserve, roundVars, claimVars>>

Classes  == {"none", "creator_fee", "capital", "deposit", "review"}
Statuses == {"none", "planned", "finalized"}
Legs     == Rounds \X Assets

(* An entitlement is identified by its round, its asset and its owner. *)
Claims == Rounds \X Assets \X Owners
NoBalance == [o \in {} |-> 0]

-----------------------------------------------------------------------------
(* Receipts *)

Used(r) == SumFunction([e \in Rounds |-> committed[e][r] - refunded[e][r]])
AvailableOf(r) == IF class[r] = "creator_fee" THEN Amount[r] - Used(r) ELSE 0

(* ORDER BY slot, id *)
Older(q, r) == Slot[q] < Slot[r] \/ (Slot[q] = Slot[r] /\ q < r)

(* plan(): the oldest receipts first, each up to what it has left. *)
TakeNewestFirst(r, funding) ==
    LET before == SumFunction([q \in {x \in Receipts : Older(r, x)} |-> AvailableOf(q)])
    IN  Max({0, Min({AvailableOf(r), funding - before})})

Take(r, funding) ==
    LET before == SumFunction([q \in {x \in Receipts : Older(x, r)} |-> AvailableOf(q)])
    IN  Max({0, Min({AvailableOf(r), funding - before})})

(* ingest(): the classification follows from verified evidence; a duplicate is ignored. *)
Ingest(r, c) ==
    /\ class[r] = "none"
    /\ c \in {"creator_fee", "deposit", "review"}
    /\ class' = [class EXCEPT ![r] = c]
    /\ revenue' = IF c = "creator_fee" THEN revenue + Amount[r] ELSE revenue
    /\ deposits' = IF c = "deposit" THEN deposits + Amount[r] ELSE deposits
    /\ quarantine' = IF c = "review" THEN quarantine + Amount[r] ELSE quarantine
    /\ UNCHANGED <<paused, reclassified, committed, refunded, dayFunding, reserve,
                   roundVars, claimVars>>

(* recognizeCapital() of a transfer not seen yet. *)
IngestCapital(r) ==
    /\ class[r] = "none"
    /\ class' = [class EXCEPT ![r] = "capital"]
    /\ reserve' = reserve + Amount[r]
    /\ UNCHANGED <<paused, reclassified, deposits, quarantine, useVars, roundVars, claimVars>>

(* recognizeCapital() of a recorded deposit: its record stays, one linked move is made. *)
ReclassifyRepeatedly(r) ==
    /\ class[r] = "deposit"
    /\ reclassified' = reclassified \cup {r}
    /\ deposits' = deposits - Amount[r]
    /\ reserve' = reserve + Amount[r]
    /\ UNCHANGED <<paused, class, quarantine, useVars, roundVars, claimVars>>

Reclassify(r) ==
    /\ class[r] = "deposit"
    /\ r \notin reclassified
    /\ reclassified' = reclassified \cup {r}
    /\ deposits' = deposits - Amount[r]
    /\ reserve' = reserve + Amount[r]
    /\ UNCHANGED <<paused, class, quarantine, useVars, roundVars, claimVars>>

-----------------------------------------------------------------------------
(* Rounds *)

(* plan(): snapshot, basket and price were accepted before; under the lock the round *)
(* is new, execution is not paused, and revenue, reserve and the day allow it.       *)
Plan(e, funding, balance) ==
    LET b == Budget(funding, CostForecast) IN
    /\ epoch[e] = "none"
    /\ ~paused
    /\ CostForecast < funding /\ funding <= revenue
    /\ reserve >= MinReserve
    /\ dayFunding + funding <= MaxDay
    /\ epoch' = [epoch EXCEPT ![e] = "funded"]
    /\ snapshot' = [snapshot EXCEPT ![e] = balance]
    /\ committed' = [committed EXCEPT ![e] = [r \in Receipts |-> Take(r, funding)]]
    /\ dayFunding' = dayFunding + funding
    /\ revenue' = revenue - BudgetTotal(b)
    /\ cost' = [cost EXCEPT ![e] = b.cost]
    /\ buyback' = [buyback EXCEPT ![e] = b.buyback]
    /\ operations' = [operations EXCEPT ![e] = b.operations]
    /\ rounding' = [rounding EXCEPT ![e] = b.remainder]
    /\ budget' = [l \in Legs |-> IF l[1] = e THEN b.leg ELSE budget[l]]
    /\ swap' = [l \in Legs |-> IF l[1] = e THEN "planned" ELSE swap[l]]
    /\ buy' = [buy EXCEPT ![e] = "planned"]
    /\ UNCHANGED <<paused, receiptVars, refunded, reserve, burn, claimVars>>

(* date_trunc('day', now()) moves on. *)
NewDay ==
    /\ dayFunding > 0
    /\ dayFunding' = 0
    /\ UNCHANGED <<paused, receiptVars, committed, refunded, revenue, reserve, roundVars, claimVars>>

(* refreshEpoch() *)
Refreshed(e, legs) ==
    LET done == {a \in Assets : legs[<<e, a>>] = "finalized"}
    IN  IF done = Assets THEN "settled" ELSE IF done # {} THEN "partial" ELSE "purchasing"

(* apply() of a swap: the purchase becomes a liability to the holders of the snapshot; *)
(* the amount column of an entitlement takes a natural number only.                    *)
FinalizeSwap(e, a, out, charge) ==
    LET rows == Allocate(out, snapshot[e]) IN
    /\ swap[<<e, a>>] = "planned"
    /\ rows \in [DOMAIN snapshot[e] -> Nat]
    /\ charge <= cost[e]
    /\ cost' = [cost EXCEPT ![e] = @ - charge]
    /\ budget' = [budget EXCEPT ![<<e, a>>] = 0]
    /\ liabilities' = [liabilities EXCEPT ![a] = @ + out]
    /\ entitled' = [k \in Claims |-> IF k[1] = e /\ k[2] = a /\ k[3] \in DOMAIN snapshot[e]
                                     THEN rows[k[3]] ELSE entitled[k]]
    /\ swap' = [swap EXCEPT ![<<e, a>>] = "finalized"]
    /\ epoch' = [epoch EXCEPT ![e] = Refreshed(e, swap')]
    /\ UNCHANGED <<paused, receiptVars, useVars, reserve, buyback, operations, rounding, snapshot,
                   buy, burn, burnUnits, reserved, delivered, paid>>

(* apply() of a buyback: the burn of what it acquired is planned in the same transaction. *)
FinalizeBuyback(e, out, charge) ==
    /\ buy[e] = "planned"
    /\ charge <= cost[e]
    /\ cost' = [cost EXCEPT ![e] = @ - charge]
    /\ buyback' = [buyback EXCEPT ![e] = 0]
    /\ burnUnits' = [burnUnits EXCEPT ![e] = @ + out]
    /\ buy' = [buy EXCEPT ![e] = "finalized"]
    /\ burn' = [burn EXCEPT ![e] = "planned"]
    /\ epoch' = [epoch EXCEPT ![e] = Refreshed(e, swap)]
    /\ UNCHANGED <<paused, receiptVars, useVars, reserve, operations, rounding, budget, snapshot,
                   swap, liabilities, reserved, delivered, entitled, paid>>

FinalizeBurn(e, charge) ==
    /\ burn[e] = "planned"
    /\ charge <= cost[e]
    /\ cost' = [cost EXCEPT ![e] = @ - charge]
    /\ burnUnits' = [burnUnits EXCEPT ![e] = 0]
    /\ burn' = [burn EXCEPT ![e] = "finalized"]
    /\ epoch' = [epoch EXCEPT ![e] = Refreshed(e, swap)]
    /\ UNCHANGED <<paused, receiptVars, useVars, reserve, buyback, operations, rounding, budget,
                   snapshot, swap, buy, liabilities, reserved, delivered, entitled, paid>>

(* An intent with costAccount cost:<e> is not finalized. *)
InFlightIgnoringBurn(e) ==
    (\E a \in Assets : swap[<<e, a>>] = "planned") \/ buy[e] = "planned"

InFlight(e) ==
    \/ \E a \in Assets : swap[<<e, a>>] = "planned"
    \/ buy[e] = "planned"
    \/ burn[e] = "planned"

(* runIntent(): a transaction of the round failed on chain and paid its fee. *)
FailRoundAttempt(e, fee) ==
    /\ InFlight(e)
    /\ 0 < fee /\ fee <= cost[e]
    /\ cost' = [cost EXCEPT ![e] = @ - fee]
    /\ UNCHANGED <<paused, receiptVars, useVars, reserve, buyback, operations, rounding, budget,
                   epoch, snapshot, swap, buy, burn, claimVars>>

(* returnUnusedCosts(): back to the receipts the round was funded from, in proportion. *)
RefundsToFirst(e) ==
    [r \in Receipts |-> IF r = Min({q \in Receipts : committed[e][q] > 0}) THEN cost[e] ELSE 0]

Refunds(e) ==
    LET sources == {q \in Receipts : committed[e][q] > 0}
        rows == Allocate(cost[e], [q \in sources |-> committed[e][q]])
    IN  [r \in Receipts |-> IF r \in sources THEN rows[r] ELSE 0]

ReturnUnusedCosts(e) ==
    /\ epoch[e] # "none"
    /\ ~InFlight(e)
    /\ cost[e] > 0
    /\ revenue' = revenue + cost[e]
    /\ refunded' = [refunded EXCEPT ![e] = Refunds(e)]
    /\ cost' = [cost EXCEPT ![e] = 0]
    /\ UNCHANGED <<paused, receiptVars, committed, dayFunding, reserve, buyback, operations,
                   rounding, budget, epoch, snapshot, swap, buy, burn, claimVars>>

-----------------------------------------------------------------------------
(* Payouts.  A batch is identified by its entitlements (the intent's id hashes them); *)
(* the domain of reserved is the set of batches whose intent is not finalized.        *)

InBatch(k) == \E b \in DOMAIN reserved : k \in b

Unbatched(a, o) ==
    {k \in Claims : k[2] = a /\ k[3] = o /\ paid[k] < entitled[k] /\ ~InBatch(k)}

DueOn(b) == SumFunction([k \in b |-> entitled[k] - paid[k]])

(* schedulePayout(): the holders whose account is valid and whose amount is worth its   *)
(* cost, in the order of their addresses, at most MaxRecipients; all their entitlements. *)
SchedulePayout(a, owners) ==
    LET batch == UNION {Unbatched(a, o) : o \in owners} IN
    /\ ~paused
    /\ owners # {} /\ Cardinality(owners) <= MaxRecipients
    /\ \A o \in owners : Unbatched(a, o) # {}
    /\ liabilities' = [liabilities EXCEPT ![a] = @ - DueOn(batch)]
    /\ reserved' = [b \in DOMAIN reserved \cup {batch} |->
                        IF b = batch THEN DueOn(batch) ELSE reserved[b]]
    /\ UNCHANGED <<paused, receiptVars, useVars, reserve, roundVars, burnUnits, delivered,
                   entitled, paid>>

(* apply() of a payout: the batch is delivered, its items become inactive. *)
FinalizePayoutPartly(b, charge) ==
    /\ b \in DOMAIN reserved
    /\ charge <= reserve - MinReserve
    /\ reserve' = reserve - charge
    /\ \E k \in b : delivered' = [delivered EXCEPT ![k[2]] = @ + reserved[b]]
    /\ paid' = [k \in Claims |-> IF k \in b /\ k[3] = Min({x[3] : x \in b})
                                 THEN entitled[k] ELSE paid[k]]
    /\ reserved' = [x \in DOMAIN reserved \ {b} |-> reserved[x]]
    /\ UNCHANGED <<paused, receiptVars, useVars, roundVars, liabilities, burnUnits, entitled>>

FinalizePayout(b, charge) ==
    /\ b \in DOMAIN reserved
    /\ charge <= reserve - MinReserve
    /\ reserve' = reserve - charge
    /\ \E k \in b : delivered' = [delivered EXCEPT ![k[2]] = @ + reserved[b]]
    /\ paid' = [k \in Claims |-> IF k \in b THEN entitled[k] ELSE paid[k]]
    /\ reserved' = [x \in DOMAIN reserved \ {b} |-> reserved[x]]
    /\ UNCHANGED <<paused, receiptVars, useVars, roundVars, liabilities, burnUnits, entitled>>

(* runIntent(): a payout failed on chain; its reservation is preserved. *)
FailPayoutAttempt(fee) ==
    /\ DOMAIN reserved # {}
    /\ 0 < fee /\ fee <= reserve - MinReserve
    /\ reserve' = reserve - fee
    /\ UNCHANGED <<paused, receiptVars, useVars, roundVars, claimVars>>

TogglePause ==
    /\ paused' = ~paused
    /\ UNCHANGED <<receiptVars, useVars, reserve, roundVars, claimVars>>

-----------------------------------------------------------------------------
Init ==
    /\ paused = TRUE
    /\ class = [r \in Receipts |-> "none"] /\ reclassified = {}
    /\ committed = [e \in Rounds |-> [r \in Receipts |-> 0]]
    /\ refunded = [e \in Rounds |-> [r \in Receipts |-> 0]]
    /\ dayFunding = 0
    /\ revenue = 0 /\ reserve = 0 /\ deposits = 0 /\ quarantine = 0
    /\ cost = [e \in Rounds |-> 0] /\ buyback = [e \in Rounds |-> 0]
    /\ operations = [e \in Rounds |-> 0] /\ rounding = [e \in Rounds |-> 0]
    /\ budget = [l \in Legs |-> 0]
    /\ epoch = [e \in Rounds |-> "none"]
    /\ snapshot = [e \in Rounds |-> NoBalance]
    /\ swap = [l \in Legs |-> "none"]
    /\ buy = [e \in Rounds |-> "none"] /\ burn = [e \in Rounds |-> "none"]
    /\ liabilities = [a \in Assets |-> 0] /\ burnUnits = [e \in Rounds |-> 0]
    /\ reserved = [b \in {} |-> 0]
    /\ delivered = [a \in Assets |-> 0]
    /\ entitled = [k \in Claims |-> 0] /\ paid = [k \in Claims |-> 0]

Next ==
    \/ \E r \in Receipts, c \in Classes : Ingest(r, c)
    \/ \E r \in Receipts : IngestCapital(r) \/ Reclassify(r)
    \/ \E e \in Rounds, f \in Fundings, b \in Snapshots : Plan(e, f, b)
    \/ \E e \in Rounds, a \in Assets, out \in Outputs, c \in Charges : FinalizeSwap(e, a, out, c)
    \/ \E e \in Rounds, out \in Outputs, c \in Charges : FinalizeBuyback(e, out, c)
    \/ \E e \in Rounds, c \in Charges : FinalizeBurn(e, c) \/ FailRoundAttempt(e, c)
    \/ \E e \in Rounds : ReturnUnusedCosts(e)
    \/ \E a \in Assets, owners \in SUBSET Owners : SchedulePayout(a, owners)
    \/ \E b \in DOMAIN reserved, c \in Charges : FinalizePayout(b, c)
    \/ \E c \in Charges : FailPayoutAttempt(c)
    \/ NewDay \/ TogglePause

Spec == Init /\ [][Next]_vars

-----------------------------------------------------------------------------
(* Properties *)

TypeOK ==
    /\ paused \in BOOLEAN
    /\ class \in [Receipts -> Classes] /\ reclassified \in SUBSET Receipts
    /\ committed \in [Rounds -> [Receipts -> Nat]] /\ refunded \in [Rounds -> [Receipts -> Nat]]
    /\ dayFunding \in 0..MaxDay
    /\ revenue \in Nat /\ reserve \in Nat /\ deposits \in Nat /\ quarantine \in Nat
    /\ cost \in [Rounds -> Nat] /\ buyback \in [Rounds -> Nat]
    /\ operations \in [Rounds -> Nat] /\ rounding \in [Rounds -> Nat]
    /\ budget \in [Legs -> Nat]
    /\ epoch \in [Rounds -> {"none", "funded", "purchasing", "partial", "settled"}]
    /\ snapshot \in [Rounds -> Snapshots \cup {NoBalance}]
    /\ swap \in [Legs -> Statuses] /\ buy \in [Rounds -> Statuses] /\ burn \in [Rounds -> Statuses]
    /\ liabilities \in [Assets -> Nat] /\ burnUnits \in [Rounds -> Nat]
    /\ reserved \in [DOMAIN reserved -> Nat] /\ DOMAIN reserved \subseteq SUBSET Claims
    /\ delivered \in [Assets -> Nat]
    /\ entitled \in [Claims -> Nat] /\ paid \in [Claims -> Nat]

(* Revenue that no round has taken is exactly what the recorded creator receipts still   *)
(* have unassigned, through commitments and refunds in any order; so a round the balance *)
(* allows never fails for want of provenance (engine.ts:60, 159-163).                    *)
RevenueIsUnassigned ==
    revenue = SumFunction([r \in Receipts |-> AvailableOf(r)])

(* No receipt funds more than it brought, and no round returns to a receipt more than it *)
(* took from it: the trigger of migration 004 never rejects what engine.ts writes.       *)
ReceiptsConserved ==
    \A r \in Receipts :
        /\ Used(r) >= 0 /\ Used(r) <= (IF class[r] = "creator_fee" THEN Amount[r] ELSE 0)
        /\ \A e \in Rounds : refunded[e][r] <= committed[e][r]

(* What the treasury owes its holders, reserved or not, is backed token by token by the *)
(* accounts, and what it delivered is what the entitlements record as paid              *)
(* (engine.ts:113-121, 150-156).                                                        *)
ClaimsAreBacked ==
    \A a \in Assets :
        LET of == {k \in Claims : k[2] = a} IN
        /\ liabilities[a] = SumFunction([k \in {x \in of : ~InBatch(x)} |-> entitled[k] - paid[k]])
        /\ \A b \in DOMAIN reserved :
              /\ (\E k \in b : k[2] = a) => b \subseteq of
              /\ b \subseteq of => reserved[b] = DueOn(b)
        /\ delivered[a] = SumFunction([k \in of |-> paid[k]])

(* A payout batch holds claims that are owed in full and in no other batch (the index *)
(* entitlement_in_one_active_batch never rejects what schedulePayout writes).         *)
OneBatchPerClaim ==
    \A b, c \in DOMAIN reserved :
        /\ b # c => b \cap c = {}
        /\ \A k \in b : paid[k] = 0 /\ entitled[k] > 0

(* While an intent of a round can still be executed, the round's cost allowance has not *)
(* been returned, although the burn is planned only when the buyback settles            *)
(* (engine.ts:112, 160).                                                                *)
AllowanceOutlivesIntents ==
    \A e \in Rounds : (\E r \in Receipts : refunded[e][r] > 0) => ~InFlight(e) /\ burn[e] = "finalized"

(* A linked adjustment moves a deposit once, however often it is requested; what an     *)
(* operator has not recognized stays where it arrived (engine.ts:33-36).                *)
DepositsAreAccounted ==
    deposits = SumFunction([r \in {x \in Receipts : class[x] = "deposit"} \ reclassified |-> Amount[r]])

(* A round spends a receipt only when every older one is used up (engine.ts:61-62). *)
OldestReceiptsFirst ==
    [][\A e \in Rounds : epoch[e] = "none" /\ epoch'[e] # "none" =>
          \A q, r \in Receipts :
              Older(q, r) /\ committed'[e][r] > 0 => committed'[e][q] = AvailableOf(q)]_vars

(* The stage of a claim. *)
Stage ==
    [k \in Claims |->
        IF entitled[k] = 0 THEN "none"
        ELSE IF paid[k] > 0 THEN "paid"
        ELSE IF InBatch(k) THEN "reserved"
        ELSE "owed"]

Promise == INSTANCE HolderClaims WITH claim <- Stage

(* The ledger keeps the promise to the holders: a claim is credited once, never shrinks *)
(* and is delivered once, with all the claims of its batch (engine.ts:113-121, 138-158). *)
KeepsPromise == Promise!Spec
=============================================================================
