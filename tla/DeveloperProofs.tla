--------------------------- MODULE DeveloperProofs --------------------------
(***************************************************************************)
(* Proofs about Developer, for any expenses, policies, rounds and clocks:  *)
(* what drawing on the accounts takes, what the obligations amount to, and *)
(* then the inductive invariant IndInv with one lemma for each part of it. *)
(***************************************************************************)
EXTENDS Developer, Sums

(* The inductive invariant: rows and balances. *)
PayoutRows ==
    /\ payout \in [Days -> PayoutStatuses]
    /\ terms \in [Days -> Policies \cup {NoTerms}]
    /\ amount \in [Days -> Nat] /\ principal \in [Days -> Nat] /\ cost \in [Days -> Nat]
    /\ \A d \in Unresolved : terms[d] \in Policies

Balances ==
    /\ legacy \in Nat /\ balance \in [Accounts -> Nat]
    /\ LegacyIsKept

OtherRows ==
    /\ paused \in BOOLEAN /\ allocated \in Nat
    /\ approved \in SUBSET Expenses
    /\ paid \in [Expenses -> Nat] /\ fees \in [Expenses -> Nat]

IndInv == PayoutRows /\ Balances /\ OtherRows /\ PayoutIsFunded

-----------------------------------------------------------------------------
(* The obligations *)

(* What an expense may still take, given what was paid of its invoice and what that cost. *)
Remaining(invoice, allowance, p, f) ==
    IF p < invoice THEN invoice - p + Positive(allowance - f) ELSE 0

Due(p, f, x) == Remaining(Invoice[x], Allowance[x], p[x], f[x])

LEMMA DueIsNatural ==
  ASSUME NEW p \in [Expenses -> Nat], NEW f \in [Expenses -> Nat], NEW x \in Expenses
  PROVE  Due(p, f, x) \in Nat
<1>1. p[x] \in Nat /\ f[x] \in Nat /\ Invoice[x] \in Nat /\ Allowance[x] \in Nat
  BY DeveloperConstants
<1>. QED BY <1>1 DEF Due, Remaining, Positive

LEMMA DuesAddUp ==
  ASSUME NEW a \in SUBSET Expenses, NEW p \in [Expenses -> Nat], NEW f \in [Expenses -> Nat]
  PROVE  LET due == [x \in a |-> Due(p, f, x)] IN
         /\ IsFiniteSet(a)
         /\ SumFunction(due) = SumFunctionOnSet(due, a)
         /\ SumFunction(due) \in Nat
<1>. DEFINE due == [x \in a |-> Due(p, f, x)]
<1>1. IsFiniteSet(a)
  BY DeveloperConstants, FS_Subset
<1>2. \A x \in a : due[x] \in Nat
  BY DueIsNatural
<1>3. DOMAIN due = a
  OBVIOUS
<1>. HIDE DEF due
<1>4. SumFunction(due) = SumFunctionOnSet(due, a)
  BY <1>3, Zenon DEF SumFunction
<1>5. SumFunction(due) \in Nat
  BY <1>1, <1>2, <1>4, SumNat
<1>. USE DEF due
<1>. QED
  BY <1>1, <1>4, <1>5

LEMMA ObligationsAddUp ==
  ASSUME OtherRows
  PROVE  ObligationsAreNatural
<1>1. Outstanding = SumFunction([x \in approved |-> Due(paid, fees, x)])
  BY DEF Outstanding, Due, Remaining
<1>. QED
  BY <1>1, DuesAddUp DEF OtherRows, ObligationsAreNatural

(* A payment lowers what its expense may still take by at least what it costs: by more *)
(* when it is the last, for then what is left of the allowance is no longer owed.      *)
LEMMA PaymentLowersDue ==
  ASSUME NEW invoice \in Nat, NEW allowance \in Nat, NEW p \in Nat, NEW f \in Nat,
         NEW n \in Nat \ {0}, NEW fee \in Nat, p + n <= invoice, f + fee <= allowance
  PROVE  Remaining(invoice, allowance, p + n, f + fee) + n + fee <= Remaining(invoice, allowance, p, f)
<1>1. Positive(allowance - f) = allowance - f /\ Positive(allowance - (f + fee)) = allowance - (f + fee)
  BY DEF Positive
<1>. QED BY <1>1 DEF Remaining

-----------------------------------------------------------------------------
(* Drawing on the accounts *)

(* What is taken of l + o + a in turn: from o first, the rest from a. *)
LEMMA TakenInTurn ==
  ASSUME NEW o \in Int, NEW a \in Nat, NEW l \in Nat, l <= o, NEW v \in Nat, v <= (o - l) + a
  PROVE  /\ o - Lesser(v, o - l) \in Nat /\ a - Lesser(Positive(v - (o - l)), a) \in Nat
         /\ l <= o - Lesser(v, o - l)
         /\ (o - Lesser(v, o - l) - l) + (a - Lesser(Positive(v - (o - l)), a)) = (o - l) + a - v
<1>1. CASE v < o - l
  <2>1. Lesser(v, o - l) = v /\ Lesser(Positive(v - (o - l)), a) = 0
    BY <1>1 DEF Lesser, Positive
  <2>. QED BY <1>1, <2>1
<1>2. CASE ~(v < o - l)
  <2>1. Lesser(v, o - l) = o - l /\ Lesser(Positive(v - (o - l)), a) = v - (o - l)
    BY <1>2 DEF Lesser, Positive
  <2>2. /\ o - (o - l) \in Nat /\ a - (v - (o - l)) \in Nat /\ l <= o - (o - l)
        /\ (o - (o - l) - l) + (a - (v - (o - l))) = (o - l) + a - v
    BY <1>2
  <2>. QED BY <2>1, <2>2
<1>. QED BY <1>1, <1>2

(* Drawing on the spendable accounts takes exactly the value out of what is free there, *)
(* and leaves the legacy intent's funds and the retained reserve alone.                 *)
LEMMA DrawSpends ==
  ASSUME legacy \in Nat, NEW bal \in [Accounts -> Nat], legacy <= bal["operations"],
         NEW value \in Nat, value <= FreeToSpend(bal)
  PROVE  LET after == Draw(bal, value, Spendable) IN
         /\ after \in [Accounts -> Nat]
         /\ legacy <= after["operations"]
         /\ FreeToSpend(after) = FreeToSpend(bal) - value
         /\ after["retained"] = bal["retained"]
<1>. DEFINE after == Draw(bal, value, Spendable)
<1>1. /\ bal["operations"] \in Nat /\ bal["available"] \in Nat /\ bal["retained"] \in Nat
      /\ "operations" \in Accounts /\ "available" \in Accounts /\ "retained" \in Accounts
  BY DEF Accounts
<1>2. /\ Free(bal, "operations") = bal["operations"] - legacy
      /\ Free(bal, "available") = bal["available"]
  BY <1>1 DEF Free, Positive
<1>3. after["operations"] = bal["operations"] - Lesser(value, bal["operations"] - legacy)
  BY <1>1, <1>2 DEF Draw, Spendable, FreeBefore, Positive, Lesser
<1>4. after["available"] = bal["available"]
                           - Lesser(Positive(value - (bal["operations"] - legacy)), bal["available"])
  BY <1>1, <1>2 DEF Draw, Spendable, FreeBefore
<1>5. after["retained"] = bal["retained"]
  BY <1>1 DEF Draw, Spendable
<1>6. value <= (bal["operations"] - legacy) + bal["available"]
  BY <1>1, <1>2 DEF FreeToSpend
<1>7. /\ after["operations"] \in Nat /\ after["available"] \in Nat /\ after["retained"] \in Nat
      /\ legacy <= after["operations"]
      /\ (after["operations"] - legacy) + after["available"]
           = (bal["operations"] - legacy) + bal["available"] - value
  <2>. DEFINE o == bal["operations"]
              a == bal["available"]
  <2>1. o \in Int /\ a \in Nat /\ legacy <= o /\ value <= (o - legacy) + a
    BY <1>1, <1>6
  <2>2. /\ after["operations"] = o - Lesser(value, o - legacy)
        /\ after["available"] = a - Lesser(Positive(value - (o - legacy)), a)
        /\ after["retained"] \in Nat
    BY <1>1, <1>3, <1>4, <1>5
  <2>. HIDE DEF after, o, a
  <2>3. /\ after["operations"] \in Nat /\ after["available"] \in Nat
        /\ legacy <= after["operations"]
        /\ (after["operations"] - legacy) + after["available"] = (o - legacy) + a - value
    BY <2>1, <2>2, TakenInTurn
  <2>. USE DEF o, a
  <2>. QED BY <2>2, <2>3
<1>8. after \in [Accounts -> Nat]
  <2>1. after = [a \in Accounts |-> after[a]]
    BY DEF Draw
  <2>. HIDE DEF after
  <2>. QED BY <2>1, <1>7 DEF Accounts
<1>9. FreeToSpend(after) = FreeToSpend(bal) - value
  <2>. HIDE DEF after
  <2>. QED BY <1>1, <1>2, <1>7 DEF FreeToSpend, Free, Positive
<1>. QED
  BY <1>5, <1>7, <1>8, <1>9

(* An expense may take the retained reserve too. *)
LEMMA DrawPays ==
  ASSUME legacy \in Nat, NEW bal \in [Accounts -> Nat], legacy <= bal["operations"],
         NEW value \in Nat, value <= FreeToSpend(bal) + bal["retained"]
  PROVE  LET after == Draw(bal, value, Accounts) IN
         /\ after \in [Accounts -> Nat]
         /\ legacy <= after["operations"]
         /\ FreeToSpend(after) \in Nat /\ after["retained"] \in Nat
         /\ FreeToSpend(after) + after["retained"] = FreeToSpend(bal) + bal["retained"] - value
<1>. DEFINE after == Draw(bal, value, Accounts)
<1>1. /\ bal["operations"] \in Nat /\ bal["available"] \in Nat /\ bal["retained"] \in Nat
      /\ "operations" \in Accounts /\ "available" \in Accounts /\ "retained" \in Accounts
  BY DEF Accounts
<1>2. /\ Free(bal, "operations") = bal["operations"] - legacy
      /\ Free(bal, "available") = bal["available"]
      /\ Free(bal, "retained") = bal["retained"]
      /\ FreeToSpend(bal) = (bal["operations"] - legacy) + bal["available"]
  BY <1>1 DEF Free, Positive, FreeToSpend
<1>3. after["operations"] = bal["operations"] - Lesser(value, bal["operations"] - legacy)
  BY <1>1, <1>2 DEF Draw, FreeBefore, Positive, Lesser
<1>4. after["available"] = bal["available"]
                           - Lesser(Positive(value - (bal["operations"] - legacy)), bal["available"])
  BY <1>1, <1>2 DEF Draw, FreeBefore
<1>5. after["retained"] = bal["retained"]
        - Lesser(Positive(value - ((bal["operations"] - legacy) + bal["available"])), bal["retained"])
  BY <1>1, <1>2 DEF Draw, FreeBefore
<1>7. /\ after["operations"] \in Nat /\ after["available"] \in Nat /\ after["retained"] \in Nat
      /\ legacy <= after["operations"]
      /\ (after["operations"] - legacy) + after["available"] + after["retained"]
           = (bal["operations"] - legacy) + bal["available"] + bal["retained"] - value
  <2>. DEFINE o == bal["operations"]
              a == bal["available"]
              r == bal["retained"]
  <2>1. o \in Int /\ a \in Nat /\ r \in Nat /\ legacy <= o /\ value <= (o - legacy) + a + r
    BY <1>1, <1>2
  <2>2. /\ after["operations"] = o - Lesser(value, o - legacy)
        /\ after["available"] = a - Lesser(Positive(value - (o - legacy)), a)
        /\ after["retained"] = r - Lesser(Positive(value - ((o - legacy) + a)), r)
    BY <1>3, <1>4, <1>5
  <2>. HIDE DEF after, o, a, r
  <2>3. /\ after["operations"] \in Nat /\ after["available"] \in Nat /\ after["retained"] \in Nat
        /\ legacy <= after["operations"]
        /\ (after["operations"] - legacy) + after["available"] + after["retained"]
             = (o - legacy) + a + r - value
    <3>1. CASE value <= (o - legacy) + a
      <4>1. /\ after["operations"] \in Nat /\ after["available"] \in Nat
            /\ legacy <= after["operations"]
            /\ (after["operations"] - legacy) + after["available"] = (o - legacy) + a - value
        BY <2>1, <2>2, <3>1, TakenInTurn
      <4>2. after["retained"] = r
        BY <2>1, <2>2, <3>1 DEF Lesser, Positive
      <4>. QED BY <2>1, <4>1, <4>2
    <3>2. CASE ~(value <= (o - legacy) + a)
      <4>1. after["operations"] = o - (o - legacy)
        BY <2>1, <2>2, <3>2 DEF Lesser
      <4>2. after["available"] = a - a
        BY <2>1, <2>2, <3>2 DEF Lesser, Positive
      <4>3. after["retained"] = r - (value - ((o - legacy) + a))
        BY <2>1, <2>2, <3>2 DEF Lesser, Positive
      <4>. QED BY <2>1, <3>2, <4>1, <4>2, <4>3
    <3>. QED BY <3>1, <3>2
  <2>. USE DEF o, a, r
  <2>. QED BY <2>3
<1>8. after \in [Accounts -> Nat]
  <2>1. after = [a \in Accounts |-> after[a]]
    BY DEF Draw
  <2>. HIDE DEF after
  <2>. QED BY <2>1, <1>7 DEF Accounts
<1>9. FreeToSpend(after) = (after["operations"] - legacy) + after["available"]
  <2>. HIDE DEF after
  <2>. QED BY <1>7 DEF FreeToSpend, Free, Positive
<1>10. /\ FreeToSpend(after) \in Nat /\ after["retained"] \in Nat
       /\ FreeToSpend(after) + after["retained"] = FreeToSpend(bal) + bal["retained"] - value
  <2>. HIDE DEF after
  <2>. QED BY <1>1, <1>2, <1>7, <1>9
<1>. QED
  BY <1>7, <1>8, <1>10

(* Adjusting the reserve moves money between the accounts, never above what the policy *)
(* retains, and fills the reserve before anything is left over the obligations.        *)
LEMMA ReserveMoves ==
  ASSUME Balances, ObligationsAreNatural, NEW p \in Policies
  PROVE  LET after == Reserved(p) IN
         /\ after \in [Accounts -> Nat]
         /\ legacy <= after["operations"]
         /\ FreeToSpend(after) + after["retained"] = FreeToSpend(balance) + balance["retained"]
         /\ after["retained"] <= p.reserve
         /\ after["retained"] < p.reserve => FreeToSpend(after) <= Outstanding
<1>. DEFINE released == [balance EXCEPT !["retained"] = @ - Released(p), !["available"] = @ + Released(p)]
            drawn == Draw(released, TopUp(p), Spendable)
            after == Reserved(p)
<1>1. /\ balance["operations"] \in Nat /\ balance["available"] \in Nat /\ balance["retained"] \in Nat
      /\ "operations" \in Accounts /\ "available" \in Accounts /\ "retained" \in Accounts
      /\ legacy \in Nat /\ legacy <= balance["operations"] /\ balance \in [Accounts -> Nat]
      /\ p.reserve \in Nat /\ Outstanding \in Nat
  BY DeveloperConstants DEF Accounts, Balances, LegacyIsKept, ObligationsAreNatural
<1>2. FreeToSpend(balance) = (balance["operations"] - legacy) + balance["available"]
  BY <1>1 DEF FreeToSpend, Free, Positive
<1>3. /\ released["operations"] = balance["operations"]
      /\ released["available"] = balance["available"] + Released(p)
      /\ released["retained"] = balance["retained"] - Released(p)
      /\ Released(p) \in Nat
      /\ Released(p) <= balance["retained"]
      /\ released \in [Accounts -> Nat]
  <2>1. Released(p) \in Nat /\ Released(p) <= balance["retained"]
    BY <1>1 DEF Released, Positive
  <2>2. /\ released["operations"] = balance["operations"]
        /\ released["available"] = balance["available"] + Released(p)
        /\ released["retained"] = balance["retained"] - Released(p)
    BY <1>1
  <2>3. released = [a \in Accounts |-> released[a]]
    BY <1>1
  <2>4. released["operations"] \in Nat /\ released["available"] \in Nat /\ released["retained"] \in Nat
    <3>. HIDE DEF released
    <3>. QED BY <1>1, <2>1, <2>2
  <2>5. released \in [Accounts -> Nat]
    <3>. HIDE DEF released
    <3>. QED BY <2>3, <2>4 DEF Accounts
  <2>. QED BY <2>1, <2>2, <2>5
<1>4. FreeToSpend(released) = FreeToSpend(balance) + Released(p)
  <2>. HIDE DEF released
  <2>. QED BY <1>1, <1>2, <1>3 DEF FreeToSpend, Free, Positive
<1>5. TopUp(p) \in Nat /\ TopUp(p) <= FreeToSpend(released)
  <2>. HIDE DEF released
  <2>. QED BY <1>1, <1>2, <1>3, <1>4 DEF TopUp, Lesser, Positive
<1>6. /\ drawn \in [Accounts -> Nat]
      /\ legacy <= drawn["operations"]
      /\ FreeToSpend(drawn) = FreeToSpend(released) - TopUp(p)
      /\ drawn["retained"] = released["retained"]
  <2>1. legacy <= released["operations"]
    BY <1>1, <1>3
  <2>. HIDE DEF released
  <2>. QED BY <1>1, <1>3, <1>5, <2>1, DrawSpends
<1>7. /\ after["operations"] = drawn["operations"]
      /\ after["available"] = drawn["available"]
      /\ after["retained"] = drawn["retained"] + TopUp(p)
      /\ after = [a \in Accounts |-> after[a]]
  <2>1. after = [drawn EXCEPT !["retained"] = @ + TopUp(p)]
    BY DEF Reserved
  <2>. HIDE DEF drawn, after
  <2>. QED BY <1>1, <1>6, <2>1
<1>8. drawn["operations"] \in Nat /\ drawn["available"] \in Nat /\ drawn["retained"] \in Nat
  <2>. HIDE DEF drawn
  <2>. QED BY <1>1, <1>6
<1>9. /\ after \in [Accounts -> Nat] /\ after["retained"] \in Nat
      /\ FreeToSpend(after) = FreeToSpend(drawn)
  <2>. HIDE DEF drawn, after
  <2>. QED BY <1>5, <1>7, <1>8 DEF Accounts, FreeToSpend, Free
<1>10. FreeToSpend(balance) \in Nat
  BY <1>1, <1>2
<1>11. /\ FreeToSpend(after) + after["retained"] = FreeToSpend(balance) + balance["retained"]
       /\ after["retained"] <= p.reserve
       /\ after["retained"] < p.reserve => FreeToSpend(after) <= Outstanding
  <2>1. /\ after["retained"] = balance["retained"] - Released(p) + TopUp(p)
        /\ FreeToSpend(after) = FreeToSpend(balance) + Released(p) - TopUp(p)
    <3>. HIDE DEF drawn, after, released
    <3>. QED BY <1>1, <1>3, <1>4, <1>5, <1>6, <1>7, <1>8, <1>9, <1>10
  <2>. HIDE DEF drawn, after, released
  <2>. QED BY <1>1, <1>3, <1>5, <1>10, <2>1 DEF Released, TopUp, Lesser, Positive
<1>. QED
  <2>1. legacy <= after["operations"]
    <3>. HIDE DEF drawn, after
    <3>. QED BY <1>6, <1>7
  <2>. HIDE DEF drawn
  <2>. QED BY <2>1, <1>9, <1>11

-----------------------------------------------------------------------------
(* One lemma per action that moves money *)

(* A payout takes what the reserve and the obligations leave, to the last lamport. *)
LEMMA ScheduleTakesSurplus ==
  ASSUME IndInv, ObligationsAreNatural, NEW d \in Days, NEW p \in Policies, SchedulePayout(d, p)
  PROVE  Balances' /\ Surplus(p) \in Nat /\ Margin' = p.reserve
<1>. DEFINE R == Reserved(p)
            D == Draw(R, Surplus(p), Spendable)
            E == Draw(D, p.cost, Spendable)
<1>1. /\ R \in [Accounts -> Nat] /\ legacy <= R["operations"]
      /\ R["retained"] <= p.reserve
      /\ R["retained"] < p.reserve => FreeToSpend(R) <= Outstanding
  BY ReserveMoves DEF IndInv
<1>2. /\ p.minimum \in Nat \ {0} /\ p.reserve \in Nat /\ p.cost \in Nat
      /\ legacy \in Nat /\ Outstanding \in Nat /\ Surplus(p) >= p.minimum
  BY DeveloperConstants DEF IndInv, Balances, ObligationsAreNatural, SchedulePayout
<1>3. R["retained"] \in Nat /\ FreeToSpend(R) \in Nat
  <2>. HIDE DEF R
  <2>1. R["operations"] \in Nat /\ R["available"] \in Nat /\ R["retained"] \in Nat
    BY <1>1 DEF Accounts
  <2>. QED BY <1>1, <1>2, <2>1 DEF FreeToSpend, Free, Positive
<1>4. /\ Surplus(p) \in Nat /\ Surplus(p) > 0
      /\ FreeToSpend(R) = Surplus(p) + p.cost + Outstanding + Positive(p.reserve - R["retained"])
  <2>1. Surplus(p) = Positive(FreeToSpend(R) - Outstanding - Positive(p.reserve - R["retained"]) - p.cost)
    BY DEF Surplus
  <2>. HIDE DEF R
  <2>. QED BY <1>1, <1>2, <1>3, <2>1 DEF Positive
<1>5. R["retained"] = p.reserve
  <2>. HIDE DEF R
  <2>. QED BY <1>1, <1>2, <1>3, <1>4 DEF Positive
<1>6. FreeToSpend(R) = Surplus(p) + p.cost + Outstanding
  <2>. HIDE DEF R
  <2>. QED BY <1>2, <1>4, <1>5 DEF Positive
<1>7. /\ D \in [Accounts -> Nat] /\ legacy <= D["operations"]
      /\ FreeToSpend(D) = p.cost + Outstanding /\ D["retained"] = p.reserve
  <2>1. Surplus(p) <= FreeToSpend(R)
    <3>. HIDE DEF R
    <3>. QED BY <1>2, <1>4, <1>6
  <2>2. /\ D \in [Accounts -> Nat] /\ legacy <= D["operations"]
        /\ FreeToSpend(D) = FreeToSpend(R) - Surplus(p) /\ D["retained"] = R["retained"]
    <3>. HIDE DEF R
    <3>. QED BY <1>1, <1>2, <1>4, <2>1, DrawSpends
  <2>. HIDE DEF R, D
  <2>. QED BY <1>2, <1>4, <1>5, <1>6, <2>2
<1>8. /\ E \in [Accounts -> Nat] /\ legacy <= E["operations"]
      /\ FreeToSpend(E) = Outstanding /\ E["retained"] = p.reserve
  <2>1. p.cost <= FreeToSpend(D)
    <3>. HIDE DEF D
    <3>. QED BY <1>2, <1>7
  <2>2. /\ E \in [Accounts -> Nat] /\ legacy <= E["operations"]
        /\ FreeToSpend(E) = FreeToSpend(D) - p.cost /\ E["retained"] = D["retained"]
    <3>. HIDE DEF D
    <3>. QED BY <1>2, <1>7, <2>1, DrawSpends
  <2>. HIDE DEF D, E
  <2>. QED BY <1>2, <1>7, <2>2
<1>9. balance' = E /\ legacy' = legacy /\ UNCHANGED <<approved, paid, fees>>
  BY DEF SchedulePayout, expenseVars
<1>10. Outstanding' = Outstanding
  BY <1>9 DEF Outstanding
<1>11. FreeToSpend(balance)' = FreeToSpend(E)
  <2>. HIDE DEF E
  <2>. QED BY <1>9 DEF FreeToSpend, Free
<1>. HIDE DEF E
<1>12. Balances'
  BY <1>2, <1>8, <1>9 DEF Balances, LegacyIsKept
<1>13. Margin' = p.reserve
  BY <1>2, <1>8, <1>9, <1>10, <1>11 DEF Margin
<1>. QED
  BY <1>4, <1>12, <1>13

(* A payment finds its money, and leaves the legacy intent's alone. *)
LEMMA PaymentKeepsBalances ==
  ASSUME IndInv, NEW x \in Expenses, NEW n \in 1..Invoice[x], NEW fee \in Fees,
         RecordExpensePayment(x, n, fee)
  PROVE  /\ Balances'
         /\ FreeToSpend(balance)' + balance'["retained"]
              = FreeToSpend(balance) + balance["retained"] - n - fee
<1>. DEFINE D == Draw(balance, n, Accounts)
            E == Draw(D, fee, Accounts)
<1>1. /\ legacy \in Nat /\ balance \in [Accounts -> Nat] /\ legacy <= balance["operations"]
      /\ n \in Nat /\ fee \in Nat
      /\ FreeToSpend(balance) + balance["retained"] >= n + fee
      /\ balance' = E /\ legacy' = legacy
  BY DeveloperConstants DEF IndInv, Balances, LegacyIsKept, RecordExpensePayment
<1>2. FreeToSpend(balance) \in Nat /\ balance["retained"] \in Nat
  <2>1. /\ balance["operations"] \in Nat /\ balance["available"] \in Nat
        /\ balance["retained"] \in Nat
    BY <1>1 DEF Accounts
  <2>. QED BY <1>1, <2>1 DEF FreeToSpend, Free, Positive
<1>3. /\ D \in [Accounts -> Nat] /\ legacy <= D["operations"]
      /\ FreeToSpend(D) \in Nat /\ D["retained"] \in Nat
      /\ FreeToSpend(D) + D["retained"] = FreeToSpend(balance) + balance["retained"] - n
  <2>1. n <= FreeToSpend(balance) + balance["retained"]
    BY <1>1, <1>2
  <2>. QED BY <1>1, <2>1, DrawPays
<1>4. /\ E \in [Accounts -> Nat] /\ legacy <= E["operations"]
      /\ FreeToSpend(E) \in Nat /\ E["retained"] \in Nat
      /\ FreeToSpend(E) + E["retained"] = FreeToSpend(D) + D["retained"] - fee
  <2>1. fee <= FreeToSpend(D) + D["retained"]
    <3>. HIDE DEF D
    <3>. QED BY <1>1, <1>2, <1>3
  <2>. HIDE DEF D
  <2>. QED BY <1>1, <1>3, <2>1, DrawPays
<1>. HIDE DEF E
<1>5. FreeToSpend(balance)' = FreeToSpend(E)
  BY <1>1 DEF FreeToSpend, Free
<1>6. FreeToSpend(E) + E["retained"] = FreeToSpend(balance) + balance["retained"] - n - fee
  <2>. HIDE DEF D
  <2>. QED BY <1>1, <1>2, <1>3, <1>4
<1>. QED
  BY <1>1, <1>4, <1>5, <1>6 DEF Balances, LegacyIsKept

(* No action takes the legacy intent's money, or an account below zero. *)
LEMMA BalancesKept ==
  ASSUME IndInv, ObligationsAreNatural, Next
  PROVE  Balances'
<1>. USE DEF IndInv
<1>1. ASSUME NEW n \in Shares, AllocateShare(n) PROVE Balances'
  <2>1. n \in Nat
    BY DeveloperConstants
  <2>. QED BY <1>1, <2>1 DEF AllocateShare, Balances, LegacyIsKept, Accounts
<1>2. ASSUME SettleLegacy PROVE Balances'
  BY <1>2 DEF SettleLegacy, Balances, LegacyIsKept, Accounts
<1>3. ASSUME NEW d \in Days, NEW p \in Policies, SchedulePayout(d, p) PROVE Balances'
  BY <1>3, ScheduleTakesSurplus
<1>4. ASSUME NEW d \in Days, NEW p \in Policies, ScheduleReserveOnly(d, p) PROVE Balances'
  <2>. DEFINE R == Reserved(p)
  <2>1. R \in [Accounts -> Nat] /\ legacy <= R["operations"]
    BY ReserveMoves
  <2>2. balance' = R /\ legacy' = legacy
    BY <1>4 DEF ScheduleReserveOnly
  <2>. HIDE DEF R
  <2>. QED BY <2>1, <2>2 DEF Balances, LegacyIsKept
<1>5. ASSUME NEW d \in Days, NEW fee \in Fees, Settle(d, fee) PROVE Balances'
  <2>1. cost[d] \in Nat /\ fee \in Nat /\ fee <= cost[d]
    BY <1>5, DeveloperConstants DEF PayoutRows, Settle
  <2>2. cost[d] - fee \in Nat
    BY <2>1
  <2>. DEFINE unused == cost[d] - fee
  <2>3. balance' = [balance EXCEPT !["available"] = @ + unused]
    <3>1. balance["available"] \in Nat
      BY DEF Balances, Accounts
    <3>2. balance["available"] + cost[d] - fee = balance["available"] + unused
      BY <2>1, <3>1
    <3>. QED BY <1>5, <3>2 DEF Settle
  <2>. HIDE DEF unused
  <2>4. unused \in Nat /\ legacy' = legacy
    BY <1>5, <2>2 DEF Settle, unused
  <2>. QED BY <2>3, <2>4 DEF Balances, LegacyIsKept, Accounts
<1>6. ASSUME UNCHANGED <<balance, legacy>> PROVE Balances'
  BY <1>6 DEF Balances, LegacyIsKept
<1>7. CASE TogglePause
  BY <1>6, <1>7 DEF TogglePause
<1>8. ASSUME NEW x \in Expenses, RecordExpense(x) PROVE Balances'
  BY <1>6, <1>8 DEF RecordExpense
<1>9. ASSUME NEW d \in Days, NEW p \in Policies, Sign(d, p) PROVE Balances'
  BY <1>6, <1>9 DEF Sign
<1>10. ASSUME NEW d \in Days, NEW fee \in Fees, Fail(d, fee) PROVE Balances'
  BY <1>6, <1>10 DEF Fail
<1>. QED
  BY <1>1, <1>2, <1>3, <1>4, <1>5, <1>7, <1>8, <1>9, <1>10, PaymentKeepsBalances DEF Next

-----------------------------------------------------------------------------
(* The rows of the payouts and what their accounts hold *)

LEMMA FundsKept ==
  ASSUME IndInv, ObligationsAreNatural, Next
  PROVE  PayoutRows' /\ PayoutIsFunded'
<1>. USE DEF IndInv
<1>1. ASSUME NEW d \in Days, NEW p \in Policies, SchedulePayout(d, p)
      PROVE  PayoutRows' /\ PayoutIsFunded'
  <2>1. /\ payout[d] = "none" /\ d \notin Unresolved
        /\ payout' = [payout EXCEPT ![d] = "planned"]
        /\ terms' = [terms EXCEPT ![d] = p]
        /\ amount' = [amount EXCEPT ![d] = Surplus(p)]
        /\ principal' = [principal EXCEPT ![d] = @ + Surplus(p)]
        /\ cost' = [cost EXCEPT ![d] = @ + p.cost]
    BY <1>1 DEF SchedulePayout, MaySchedule, Unresolved
  <2>2. Surplus(p) \in Nat /\ p.cost \in Nat
    BY <1>1, ScheduleTakesSurplus, DeveloperConstants
  <2>3. principal[d] = 0 /\ cost[d] = 0
    BY <2>1 DEF PayoutIsFunded
  <2>4. /\ principal' = [principal EXCEPT ![d] = Surplus(p)]
        /\ cost' = [cost EXCEPT ![d] = p.cost]
    <3>1. principal[d] + Surplus(p) = Surplus(p) /\ cost[d] + p.cost = p.cost
      BY <2>2, <2>3
    <3>. HIDE DEF IndInv
    <3>. QED BY <2>1, <3>1
  <2>5. Unresolved' = Unresolved \cup {d}
    BY <2>1 DEF Unresolved, PayoutRows
  <2>6. PayoutRows'
    BY <2>1, <2>2, <2>4, <2>5 DEF PayoutRows, PayoutStatuses
  <2>7. PayoutIsFunded'
    BY <2>1, <2>2, <2>4, <2>5 DEF PayoutIsFunded, PayoutRows
  <2>. QED BY <2>6, <2>7
<1>2. ASSUME NEW d \in Days, NEW p \in Policies, Sign(d, p) PROVE PayoutRows' /\ PayoutIsFunded'
  <2>1. /\ payout[d] = "planned" /\ payout' = [payout EXCEPT ![d] = "signed"]
        /\ p = terms[d] /\ cost[d] >= p.maxFee
        /\ UNCHANGED <<terms, amount, principal, cost>>
    BY <1>2 DEF Sign, Authorized
  <2>2. Unresolved' = Unresolved
    BY <2>1 DEF Unresolved, PayoutRows
  <2>. QED BY <2>1, <2>2 DEF PayoutRows, PayoutIsFunded, PayoutStatuses
<1>3. ASSUME NEW d \in Days, NEW fee \in Fees, Settle(d, fee) PROVE PayoutRows' /\ PayoutIsFunded'
  <2>1. /\ payout[d] = "signed" /\ payout' = [payout EXCEPT ![d] = "finalized"]
        /\ principal' = [principal EXCEPT ![d] = @ - amount[d]]
        /\ cost' = [cost EXCEPT ![d] = 0]
        /\ principal[d] = amount[d]
        /\ UNCHANGED <<terms, amount>>
    BY <1>3 DEF Settle
  <2>2. principal' = [principal EXCEPT ![d] = 0]
    <3>1. amount[d] \in Nat /\ principal[d] - amount[d] = 0
      BY <2>1 DEF PayoutRows
    <3>. QED BY <2>1, <3>1
  <2>3. Unresolved' = Unresolved \ {d}
    BY <2>1 DEF Unresolved, PayoutRows
  <2>. QED BY <2>1, <2>2, <2>3 DEF PayoutRows, PayoutIsFunded, PayoutStatuses
<1>4. ASSUME NEW d \in Days, NEW fee \in Fees, Fail(d, fee) PROVE PayoutRows' /\ PayoutIsFunded'
  <2>1. /\ payout[d] = "signed" /\ payout' = [payout EXCEPT ![d] = "planned"]
        /\ cost' = [cost EXCEPT ![d] = @ - fee]
        /\ fee \in Nat /\ fee <= cost[d]
        /\ UNCHANGED <<terms, amount, principal>>
    BY <1>4, DeveloperConstants DEF Fail
  <2>2. Unresolved' = Unresolved /\ d \in Unresolved
    BY <2>1 DEF Unresolved, PayoutRows
  <2>3. cost' \in [Days -> Nat]
    BY <2>1 DEF PayoutRows
  <2>. QED BY <2>1, <2>2, <2>3 DEF PayoutRows, PayoutIsFunded, PayoutStatuses
<1>5. ASSUME UNCHANGED payoutVars PROVE PayoutRows' /\ PayoutIsFunded'
  BY <1>5 DEF payoutVars, PayoutRows, PayoutIsFunded, Unresolved
<1>6. ASSUME NEW n \in Shares, AllocateShare(n) PROVE UNCHANGED payoutVars
  BY <1>6 DEF AllocateShare
<1>7. CASE SettleLegacy
  BY <1>5, <1>7 DEF SettleLegacy
<1>8. ASSUME NEW x \in Expenses, RecordExpense(x) PROVE UNCHANGED payoutVars
  BY <1>8 DEF RecordExpense
<1>9. ASSUME NEW x \in Expenses, NEW n \in 1..Invoice[x], NEW fee \in Fees, RecordExpensePayment(x, n, fee)
      PROVE  UNCHANGED payoutVars
  BY <1>9 DEF RecordExpensePayment
<1>10. ASSUME NEW d \in Days, NEW p \in Policies, ScheduleReserveOnly(d, p) PROVE UNCHANGED payoutVars
  BY <1>10 DEF ScheduleReserveOnly
<1>11. CASE TogglePause
  BY <1>5, <1>11 DEF TogglePause
<1>. QED
  BY <1>1, <1>2, <1>3, <1>4, <1>5, <1>6, <1>7, <1>8, <1>9, <1>10, <1>11 DEF Next

LEMMA OthersKept ==
  ASSUME OtherRows, Next
  PROVE  OtherRows'
<1>1. ASSUME NEW n \in Shares, AllocateShare(n) PROVE OtherRows'
  BY <1>1, DeveloperConstants DEF AllocateShare, OtherRows, expenseVars
<1>2. ASSUME NEW x \in Expenses, RecordExpense(x) PROVE OtherRows'
  BY <1>2 DEF RecordExpense, OtherRows
<1>3. ASSUME NEW x \in Expenses, NEW n \in 1..Invoice[x], NEW fee \in Fees, RecordExpensePayment(x, n, fee)
      PROVE  OtherRows'
  <2>1. n \in Nat /\ fee \in Nat
    BY DeveloperConstants
  <2>. QED BY <1>3, <2>1 DEF RecordExpensePayment, OtherRows
<1>4. CASE TogglePause
  BY <1>4 DEF TogglePause, OtherRows, expenseVars
<1>5. ASSUME UNCHANGED <<paused, allocated, expenseVars>> PROVE OtherRows'
  BY <1>5 DEF OtherRows, expenseVars
<1>6. CASE SettleLegacy
  BY <1>5, <1>6 DEF SettleLegacy
<1>7. ASSUME NEW d \in Days, NEW p \in Policies,
             SchedulePayout(d, p) \/ ScheduleReserveOnly(d, p) \/ Sign(d, p)
      PROVE  OtherRows'
  BY <1>5, <1>7 DEF SchedulePayout, ScheduleReserveOnly, Sign
<1>8. ASSUME NEW d \in Days, NEW fee \in Fees, Settle(d, fee) \/ Fail(d, fee) PROVE OtherRows'
  BY <1>5, <1>8 DEF Settle, Fail
<1>. QED
  BY <1>1, <1>2, <1>3, <1>4, <1>6, <1>7, <1>8 DEF Next

-----------------------------------------------------------------------------
(* The margin over the obligations *)

LEMMA FundsAreInt ==
  ASSUME Balances
  PROVE  /\ FreeToSpend(balance) = balance["operations"] - legacy + balance["available"]
         /\ balance["operations"] \in Nat /\ balance["available"] \in Nat
         /\ balance["retained"] \in Nat
<1>1. /\ balance["operations"] \in Nat /\ balance["available"] \in Nat
      /\ balance["retained"] \in Nat /\ legacy \in Nat /\ legacy <= balance["operations"]
  BY DEF Balances, Accounts, LegacyIsKept
<1>. QED BY <1>1 DEF FreeToSpend, Free, Positive

LEMMA PaymentKeepsMargin ==
  ASSUME IndInv, NEW x \in Expenses, NEW n \in 1..Invoice[x], NEW fee \in Fees,
         RecordExpensePayment(x, n, fee)
  PROVE  Margin' >= Margin
<1>. DEFINE before == [y \in approved |-> Due(paid, fees, y)]
            after == [y \in approved |-> Due(paid', fees', y)]
<1>1. /\ n \in Nat \ {0} /\ fee \in Nat /\ x \in approved
      /\ approved \in SUBSET Expenses
      /\ Invoice[x] \in Nat /\ Allowance[x] \in Nat /\ paid[x] \in Nat /\ fees[x] \in Nat
      /\ paid[x] + n <= Invoice[x] /\ fees[x] + fee <= Allowance[x]
      /\ paid \in [Expenses -> Nat] /\ fees \in [Expenses -> Nat]
  <2>1. Invoice[x] \in Nat /\ Allowance[x] \in Nat /\ fee \in Nat
    BY DeveloperConstants
  <2>2. n \in Nat \ {0}
    BY <2>1
  <2>3. /\ paid \in [Expenses -> Nat] /\ fees \in [Expenses -> Nat]
        /\ approved \in SUBSET Expenses
    BY DEF IndInv, OtherRows
  <2>4. x \in approved /\ paid[x] + n <= Invoice[x] /\ fees[x] + fee <= Allowance[x]
    BY DEF RecordExpensePayment
  <2>5. paid[x] \in Nat /\ fees[x] \in Nat
    BY <2>3
  <2>. QED BY <2>1, <2>2, <2>3, <2>4, <2>5
<1>2. /\ paid' = [paid EXCEPT ![x] = @ + n] /\ fees' = [fees EXCEPT ![x] = @ + fee]
      /\ approved' = approved
  BY DEF RecordExpensePayment
<1>3. /\ paid'[x] = paid[x] + n /\ fees'[x] = fees[x] + fee
      /\ \A y \in Expenses \ {x} : paid'[y] = paid[y] /\ fees'[y] = fees[y]
      /\ paid' \in [Expenses -> Nat] /\ fees' \in [Expenses -> Nat]
  <2>. HIDE DEF IndInv
  <2>. QED BY <1>1, <1>2
<1>4. /\ Outstanding = SumFunctionOnSet(before, approved)
      /\ Outstanding' = SumFunctionOnSet(after, approved)
      /\ IsFiniteSet(approved)
  <2>1. Outstanding = SumFunction(before) /\ Outstanding' = SumFunction(after)
    BY <1>2 DEF Outstanding, Due, Remaining
  <2>2. IsFiniteSet(approved) /\ SumFunction(before) = SumFunctionOnSet(before, approved)
    BY <1>1, DuesAddUp
  <2>3. SumFunction(after) = SumFunctionOnSet(after, approved)
    BY <1>1, <1>3, DuesAddUp
  <2>. HIDE DEF before, after
  <2>. QED BY <2>1, <2>2, <2>3
<1>5. Due(paid', fees', x) + n + fee <= Due(paid, fees, x)
  <2>1. /\ Due(paid, fees, x) = Remaining(Invoice[x], Allowance[x], paid[x], fees[x])
        /\ Due(paid', fees', x) = Remaining(Invoice[x], Allowance[x], paid[x] + n, fees[x] + fee)
    BY <1>3 DEF Due
  <2>2. Remaining(Invoice[x], Allowance[x], paid[x] + n, fees[x] + fee) + n + fee
          <= Remaining(Invoice[x], Allowance[x], paid[x], fees[x])
    BY <1>1, PaymentLowersDue
  <2>. QED BY <2>1, <2>2
<1>6. /\ \A y \in approved : before[y] \in Int /\ after[y] \in Int
      /\ \A y \in approved \ {x} : after[y] = before[y]
      /\ before[x] = Due(paid, fees, x) /\ after[x] = Due(paid', fees', x)
  <2>1. \A y \in Expenses : Due(paid, fees, y) \in Int
    BY <1>1, DueIsNatural
  <2>2. \A y \in Expenses : Due(paid', fees', y) \in Int
    BY <1>3, DueIsNatural
  <2>3. \A y \in Expenses \ {x} : Due(paid', fees', y) = Due(paid, fees, y)
    BY <1>3 DEF Due
  <2>. QED BY <1>1, <2>1, <2>2, <2>3
<1>. HIDE DEF before, after
<1>7. SumFunctionOnSet(after, approved) = SumFunctionOnSet(before, approved) + (after[x] - before[x])
  <2>1. x \in approved
    BY <1>1
  <2>. QED BY <1>4, <1>6, <2>1, SumUpdate
<1>8. Outstanding' + n + fee <= Outstanding /\ Outstanding' \in Int /\ Outstanding \in Int
  <2>1. SumFunctionOnSet(before, approved) \in Int
    BY <1>4, <1>6, SumInt
  <2>. QED BY <1>1, <1>4, <1>5, <1>6, <1>7, <2>1
<1>9. FreeToSpend(balance)' + balance'["retained"] = FreeToSpend(balance) + balance["retained"] - n - fee
  BY PaymentKeepsBalances
<1>10. FreeToSpend(balance) \in Int /\ balance["retained"] \in Int
  BY FundsAreInt DEF IndInv, Balances
<1>11. Margin' = FreeToSpend(balance)' + balance'["retained"] - Outstanding'
  BY DEF Margin
<1>12. Margin' = Margin + (Outstanding - (n + fee) - Outstanding')
  <2>. DEFINE free == FreeToSpend(balance)
              retained == balance["retained"]
              left == FreeToSpend(balance)' + balance'["retained"]
  <2>1. Margin = free + (retained - Outstanding) /\ left = free + (retained - n - fee)
    BY <1>9 DEF Margin
  <2>2. FreeToSpend(balance)' \in Int /\ balance'["retained"] \in Int
    <3>1. Balances'
      BY PaymentKeepsBalances
    <3>. QED BY <3>1 DEF Balances, Accounts, FreeToSpend, Free, Positive
  <2>3. Margin' = left - Outstanding'
    BY <1>8, <1>11, <2>2
  <2>4. free \in Int /\ retained \in Int /\ n \in Int /\ fee \in Int
    BY <1>1, <1>10
  <2>. HIDE DEF free, retained, left
  <2>. QED BY <1>8, <2>1, <2>3, <2>4
<1>13. Margin \in Int
  BY <1>8, <1>10 DEF Margin
<1>14. Outstanding - (n + fee) - Outstanding' \in Nat
  <2>1. \A o, q \in Int : q + n + fee <= o => o - (n + fee) - q \in Nat
    BY <1>1
  <2>. QED BY <1>8, <2>1, Zenon
<1>. HIDE DEF Margin
<1>. QED
  BY <1>12, <1>13, <1>14

(* No other action but an approval or a new payout touches the obligations, or takes *)
(* out of what operations can spend.                                                 *)
LEMMA OthersKeepMargin ==
  ASSUME IndInv, Next
  PROVE  /\ \A n \in Shares : AllocateShare(n) => Margin' >= Margin
         /\ SettleLegacy => Margin' >= Margin
         /\ \A d \in Days, p \in Policies :
               ScheduleReserveOnly(d, p) \/ Sign(d, p) => Margin' >= Margin
         /\ \A d \in Days, fee \in Fees : Settle(d, fee) \/ Fail(d, fee) => Margin' >= Margin
         /\ TogglePause => Margin' >= Margin
<1>. USE DEF IndInv
<1>1. /\ Outstanding \in Int /\ legacy \in Nat /\ legacy <= balance["operations"]
      /\ balance["operations"] \in Nat /\ balance["available"] \in Nat /\ balance["retained"] \in Nat
      /\ FreeToSpend(balance) = balance["operations"] - legacy + balance["available"]
  BY ObligationsAddUp, FundsAreInt DEF ObligationsAreNatural, Balances, LegacyIsKept
<1>0. FreeToSpend(balance)' \in Int /\ balance'["retained"] \in Int
  <2>1. Balances'
    BY BalancesKept, ObligationsAddUp
  <2>. QED BY <2>1 DEF Balances, Accounts, FreeToSpend, Free, Positive
<1>2. ASSUME UNCHANGED expenseVars,
             FreeToSpend(balance)' + balance'["retained"] >= FreeToSpend(balance) + balance["retained"]
      PROVE  Margin' >= Margin
  <2>1. Outstanding' = Outstanding
    BY <1>2 DEF expenseVars, Outstanding
  <2>. DEFINE free == FreeToSpend(balance)
              retained == balance["retained"]
              free2 == FreeToSpend(balance)'
              retained2 == balance'["retained"]
  <2>2. Margin = free + (retained - Outstanding) /\ Margin' = free2 + (retained2 - Outstanding)
    BY <2>1 DEF Margin
  <2>3. free \in Int /\ retained \in Int /\ free2 \in Int /\ retained2 \in Int
        /\ free + retained <= free2 + retained2
    BY <1>0, <1>1, <1>2
  <2>. HIDE DEF free, retained, free2, retained2
  <2>. QED BY <1>1, <2>2, <2>3
<1>3. ASSUME UNCHANGED <<balance, legacy, expenseVars>> PROVE Margin' >= Margin
  <2>1. FreeToSpend(balance)' + balance'["retained"] = FreeToSpend(balance) + balance["retained"]
    BY <1>3 DEF FreeToSpend, Free
  <2>. QED BY <1>0, <1>1, <1>2, <1>3, <2>1
<1>4. ASSUME NEW n \in Shares, AllocateShare(n) PROVE Margin' >= Margin
  <2>1. /\ n \in Nat /\ legacy' = legacy /\ UNCHANGED expenseVars
        /\ balance'["operations"] = balance["operations"] + n
        /\ balance'["available"] = balance["available"] /\ balance'["retained"] = balance["retained"]
    BY <1>4, DeveloperConstants DEF AllocateShare, Balances, Accounts
  <2>2. FreeToSpend(balance)' = balance["operations"] + n - legacy + balance["available"]
    BY <1>1, <2>1 DEF FreeToSpend, Free, Positive
  <2>3. FreeToSpend(balance)' + balance'["retained"] = FreeToSpend(balance) + balance["retained"] + n
    BY <1>1, <2>1, <2>2
  <2>. QED BY <1>0, <1>1, <1>2, <2>1, <2>3
<1>5. ASSUME SettleLegacy PROVE Margin' >= Margin
  <2>1. /\ legacy' = 0 /\ UNCHANGED expenseVars
        /\ balance'["operations"] = balance["operations"] - legacy
        /\ balance'["available"] = balance["available"] /\ balance'["retained"] = balance["retained"]
    BY <1>5 DEF SettleLegacy, Balances, Accounts
  <2>2. FreeToSpend(balance)' = balance["operations"] - legacy + balance["available"]
    BY <1>1, <2>1 DEF FreeToSpend, Free, Positive
  <2>3. FreeToSpend(balance)' + balance'["retained"] = FreeToSpend(balance) + balance["retained"]
    BY <1>1, <2>1, <2>2
  <2>. QED BY <1>0, <1>1, <1>2, <2>1, <2>3
<1>6. ASSUME NEW d \in Days, NEW p \in Policies, ScheduleReserveOnly(d, p) PROVE Margin' >= Margin
  <2>. DEFINE R == Reserved(p)
  <2>1. FreeToSpend(R) + R["retained"] = FreeToSpend(balance) + balance["retained"]
    BY ReserveMoves, ObligationsAddUp
  <2>2. balance' = R /\ legacy' = legacy /\ UNCHANGED expenseVars
    BY <1>6 DEF ScheduleReserveOnly
  <2>. HIDE DEF R
  <2>3. FreeToSpend(balance)' + balance'["retained"] = FreeToSpend(R) + R["retained"]
    BY <2>2 DEF FreeToSpend, Free
  <2>. QED BY <1>0, <1>1, <1>2, <2>1, <2>2, <2>3
<1>7. ASSUME NEW d \in Days, NEW fee \in Fees, Settle(d, fee) PROVE Margin' >= Margin
  <2>1. /\ cost[d] \in Nat /\ fee \in Nat /\ fee <= cost[d]
        /\ legacy' = legacy /\ UNCHANGED expenseVars
        /\ balance'["operations"] = balance["operations"]
        /\ balance'["available"] = balance["available"] + cost[d] - fee
        /\ balance'["retained"] = balance["retained"]
    BY <1>7, DeveloperConstants DEF Settle, PayoutRows, Balances, Accounts
  <2>2. FreeToSpend(balance)' = balance["operations"] - legacy + (balance["available"] + cost[d] - fee)
    BY <1>1, <2>1 DEF FreeToSpend, Free, Positive
  <2>3. FreeToSpend(balance)' + balance'["retained"]
          = FreeToSpend(balance) + balance["retained"] + (cost[d] - fee)
    BY <1>1, <2>1, <2>2
  <2>. QED BY <1>0, <1>1, <1>2, <2>1, <2>3
<1>8. ASSUME NEW d \in Days, NEW p \in Policies, Sign(d, p) PROVE Margin' >= Margin
  BY <1>3, <1>8 DEF Sign
<1>9. ASSUME NEW d \in Days, NEW fee \in Fees, Fail(d, fee) PROVE Margin' >= Margin
  BY <1>3, <1>9 DEF Fail
<1>10. ASSUME TogglePause PROVE Margin' >= Margin
  BY <1>3, <1>10 DEF TogglePause
<1>. HIDE DEF IndInv
<1>. QED
  BY <1>4, <1>5, <1>6, <1>7, <1>8, <1>9, <1>10

-----------------------------------------------------------------------------
(* The theorems *)

(* The inductive invariant. *)
THEOREM Inductive == Spec => []IndInv
<1>1. Init => IndInv
  <2>. SUFFICES ASSUME Init PROVE IndInv
    OBVIOUS
  <2>1. Unresolved = {}
    BY DEF Init, Unresolved
  <2>2. Balances
    BY DeveloperConstants DEF Init, Balances, LegacyIsKept, Accounts
  <2>3. PayoutRows /\ PayoutIsFunded
    BY <2>1 DEF Init, PayoutRows, PayoutIsFunded, PayoutStatuses
  <2>4. OtherRows
    BY DEF Init, OtherRows
  <2>. QED BY <2>2, <2>3, <2>4 DEF IndInv
<1>2. IndInv /\ [Next]_vars => IndInv'
  <2>. SUFFICES ASSUME IndInv, [Next]_vars PROVE IndInv'
    OBVIOUS
  <2>. ObligationsAreNatural
    BY ObligationsAddUp DEF IndInv
  <2>1. CASE Next
    <3>1. OtherRows'
      BY <2>1, OthersKept DEF IndInv
    <3>. QED BY <2>1, <3>1, BalancesKept, FundsKept DEF IndInv
  <2>2. CASE UNCHANGED vars
    BY <2>2 DEF vars, expenseVars, payoutVars, IndInv, PayoutRows, Balances, OtherRows,
                PayoutIsFunded, Unresolved, LegacyIsKept
  <2>. QED BY <2>1, <2>2
<1>. QED
  BY <1>1, <1>2, PTL DEF Spec

(* Every reachable state is well typed: no account is ever overdrawn. *)
THEOREM TypeCorrect == Spec => []TypeOK
<1>1. IndInv => TypeOK
  BY ObligationsAddUp DEF IndInv, PayoutRows, Balances, OtherRows, TypeOK
<1>. QED
  BY <1>1, Inductive, PTL

(* For any rounds, expenses, policies and clocks, what a legacy intent owns is there when *)
(* it settles.                                                                            *)
THEOREM LegacyKept == Spec => []LegacyIsKept
<1>1. IndInv => LegacyIsKept
  BY DEF IndInv, Balances
<1>. QED
  BY <1>1, Inductive, PTL

(* An unresolved payout holds its principal, and a signed one its fee. *)
THEOREM PayoutsFunded == Spec => []PayoutIsFunded
<1>1. IndInv => PayoutIsFunded
  BY DEF IndInv
<1>. QED
  BY <1>1, Inductive, PTL

(* A payout takes exactly what the obligations and the reserve of its policy leave. *)
THEOREM SurplusExact == Spec => TakesExactlySurplus
<1>1. IndInv /\ [Next]_vars
        => [\A d \in Days : payout[d] = "none" /\ payout'[d] # "none" =>
              Margin' = terms'[d].reserve /\ cost'[d] >= terms'[d].maxFee]_vars
  <2>. SUFFICES ASSUME IndInv, Next,
                       NEW d \in Days, payout[d] = "none", payout'[d] # "none"
                PROVE  Margin' = terms'[d].reserve /\ cost'[d] >= terms'[d].maxFee
    OBVIOUS
  <2>. ObligationsAreNatural
    BY ObligationsAddUp DEF IndInv
  <2>1. PICK p \in Policies : SchedulePayout(d, p)
    <3>1. \A e \in Days, p \in Policies : SchedulePayout(e, p) => e = d
      BY DEF SchedulePayout, IndInv, PayoutRows
    <3>2. \A e \in Days, p \in Policies : ~Sign(e, p) /\ ~ScheduleReserveOnly(e, p)
      BY DEF Sign, ScheduleReserveOnly, payoutVars, IndInv, PayoutRows
    <3>3. \A e \in Days, fee \in Fees : ~Settle(e, fee) /\ ~Fail(e, fee)
      BY DEF Settle, Fail, IndInv, PayoutRows
    <3>4. payout' # payout
      OBVIOUS
    <3>5. /\ \A n \in Shares : ~AllocateShare(n)
          /\ ~SettleLegacy /\ ~TogglePause
          /\ \A x \in Expenses : ~RecordExpense(x)
          /\ \A x \in Expenses, fee \in Fees : \A n \in 1..Invoice[x] : ~RecordExpensePayment(x, n, fee)
      BY <3>4 DEF AllocateShare, SettleLegacy, TogglePause, RecordExpense, RecordExpensePayment, payoutVars
    <3>. QED BY <3>1, <3>2, <3>3, <3>5 DEF Next
  <2>2. Margin' = p.reserve
    BY <2>1, ScheduleTakesSurplus
  <2>3. terms'[d] = p
    BY <2>1 DEF SchedulePayout, IndInv, PayoutRows
  <2>4. cost'[d] = p.cost
    <3>1. cost[d] = 0 /\ cost \in [Days -> Nat]
      BY DEF IndInv, PayoutRows, PayoutIsFunded, Unresolved
    <3>2. cost'[d] = 0 + p.cost
      BY <2>1, <3>1 DEF SchedulePayout
    <3>. QED BY <3>2, DeveloperConstants
  <2>5. p.maxFee \in Nat /\ p.cost \in Nat /\ p.maxFee <= p.cost
    BY DeveloperConstants
  <2>. QED BY <2>2, <2>3, <2>4, <2>5
<1>. QED
  BY <1>1, Inductive, PTL DEF Spec, TakesExactlySurplus

(* Nothing but a new approval or a new payout lowers the margin over the obligations. *)
THEOREM MarginKept == Spec => MarginIsKept
<1>1. IndInv /\ [Next]_vars
        => [\/ Margin' >= Margin
            \/ approved' # approved
            \/ \E d \in Days : payout[d] = "none" /\ payout'[d] # "none"]_vars
  <2>. SUFFICES ASSUME IndInv, Next, approved' = approved,
                       ~ \E d \in Days : payout[d] = "none" /\ payout'[d] # "none"
                PROVE  Margin' >= Margin
    OBVIOUS
  <2>1. \A d \in Days, p \in Policies : ~SchedulePayout(d, p)
    BY DEF SchedulePayout, MaySchedule, IndInv, PayoutRows
  <2>2. \A x \in Expenses : ~RecordExpense(x)
    BY DEF RecordExpense
  <2>. QED BY <2>1, <2>2, PaymentKeepsMargin, OthersKeepMargin DEF Next
<1>. QED
  BY <1>1, Inductive, PTL DEF Spec, MarginIsKept

(* Whatever the clocks and the policies, an unresolved payout is the only one and the *)
(* last: its statuses are all this rests on.                                          *)
THEOREM OnePayoutAtATime == Spec => []UnresolvedIsLast
<1>. DEFINE Last == payout \in [Days -> PayoutStatuses] /\ UnresolvedIsLast
<1>1. Init => Last
  BY DEF Init, UnresolvedIsLast, Unresolved, PayoutStatuses
<1>2. Last /\ [Next]_vars => Last'
  <2>. SUFFICES ASSUME Last, [Next]_vars PROVE Last'
    OBVIOUS
  <2>1. ASSUME NEW d \in Days, NEW p \in Policies, SchedulePayout(d, p) PROVE Last'
    <3>1. /\ payout' = [payout EXCEPT ![d] = "planned"]
          /\ Unresolved = {} /\ \A e \in Days : e > d => payout[e] = "none"
      BY <2>1 DEF SchedulePayout, MaySchedule
    <3>2. Unresolved' = {d}
      BY <3>1 DEF Unresolved
    <3>3. d \in Nat
      BY DeveloperConstants
    <3>4. payout' \in [Days -> PayoutStatuses]
      BY <3>1 DEF PayoutStatuses
    <3>5. \A e \in Days : e > d => payout'[e] = "none"
      BY <3>1, <3>3
    <3>. QED BY <3>2, <3>4, <3>5 DEF UnresolvedIsLast
  <2>2. ASSUME NEW d \in Days, NEW s \in {"planned", "signed"}, d \in Unresolved,
               payout' = [payout EXCEPT ![d] = s]
        PROVE  Last'
    <3>1. Unresolved' = Unresolved
      BY <2>2 DEF Unresolved
    <3>2. Unresolved = {d}
      BY <2>2 DEF UnresolvedIsLast
    <3>3. \A e \in Days : e > d => e # d
      BY DeveloperConstants
    <3>. QED BY <2>2, <3>1, <3>2, <3>3 DEF UnresolvedIsLast, PayoutStatuses
  <2>3. ASSUME NEW d \in Days, NEW p \in Policies, Sign(d, p) PROVE Last'
    BY <2>2, <2>3 DEF Sign, Unresolved
  <2>4. ASSUME NEW d \in Days, NEW fee \in Fees, Fail(d, fee) PROVE Last'
    BY <2>2, <2>4 DEF Fail, Unresolved
  <2>5. ASSUME NEW d \in Days, NEW fee \in Fees, Settle(d, fee) PROVE Last'
    <3>1. payout' = [payout EXCEPT ![d] = "finalized"] /\ d \in Unresolved
      BY <2>5 DEF Settle, Unresolved
    <3>2. Unresolved = {d}
      BY <3>1 DEF UnresolvedIsLast
    <3>3. Unresolved' = {}
      BY <3>1, <3>2 DEF Unresolved
    <3>. QED BY <3>1, <3>3 DEF UnresolvedIsLast, PayoutStatuses
  <2>6. ASSUME UNCHANGED payout PROVE Last'
    BY <2>6 DEF UnresolvedIsLast, Unresolved
  <2>7. ASSUME NEW n \in Shares, AllocateShare(n) PROVE UNCHANGED payout
    BY <2>7 DEF AllocateShare, payoutVars
  <2>8. ASSUME SettleLegacy \/ TogglePause \/ UNCHANGED vars PROVE UNCHANGED payout
    BY <2>8 DEF SettleLegacy, TogglePause, payoutVars, vars
  <2>9. ASSUME NEW x \in Expenses, RecordExpense(x) PROVE UNCHANGED payout
    BY <2>9 DEF RecordExpense, payoutVars
  <2>10. ASSUME NEW x \in Expenses, NEW n \in 1..Invoice[x], NEW fee \in Fees,
                RecordExpensePayment(x, n, fee)
         PROVE  UNCHANGED payout
    BY <2>10 DEF RecordExpensePayment, payoutVars
  <2>11. ASSUME NEW d \in Days, NEW p \in Policies, ScheduleReserveOnly(d, p) PROVE UNCHANGED payout
    BY <2>11 DEF ScheduleReserveOnly, payoutVars
  <2>. HIDE DEF Last
  <2>. QED
    BY <2>1, <2>3, <2>4, <2>5, <2>6, <2>7, <2>8, <2>9, <2>10, <2>11 DEF Next
<1>. QED
  BY <1>1, <1>2, PTL DEF Spec
=============================================================================
