--------------------------- MODULE TreasuryProofs ---------------------------
(***************************************************************************)
(* Theorems about Treasury, Money and Census, for any number of receipts,  *)
(* rounds, assets and holders and any amounts: how a quantity and a        *)
(* funding are divided, that a census counts every account, that every     *)
(* balance is what the records behind it add up to, in which order         *)
(* receipts are spent, and the promise to the holders.                     *)
(*                                                                         *)
(* The sections follow a round: the division of amounts, receipts, what    *)
(* rounds take of them and return, claims, what the accounts owe, and then *)
(* the inductive invariant LedgerInv with one lemma per operation.         *)
(***************************************************************************)
EXTENDS Treasury, Rules, Sums

-----------------------------------------------------------------------------
(* Dividing a quantity *)

(* Weights an allocation can be made by. *)
IsBalance(balance) ==
    /\ IsFiniteSet(DOMAIN balance) /\ DOMAIN balance \subseteq Nat
    /\ \A o \in DOMAIN balance : balance[o] \in Nat
    /\ SumFunction(balance) > 0

LEMMA DivMod ==
  ASSUME NEW a \in Nat, NEW b \in Nat \ {0}
  PROVE  /\ a \div b \in Nat /\ a % b \in 0..(b - 1)
         /\ a = b * (a \div b) + (a % b)
OBVIOUS

LEMMA ShareOf ==
  ASSUME NEW quantity \in Nat, NEW balance, IsBalance(balance), NEW o \in DOMAIN balance
  PROVE  LET total == SumFunction(balance) IN
         /\ total \in Nat \ {0}
         /\ Share(quantity, balance, o) \in Nat
         /\ Remainder(quantity, balance, o) \in 0..(total - 1)
         /\ quantity * balance[o] =
              total * Share(quantity, balance, o) + Remainder(quantity, balance, o)
<1>1. SumFunction(balance) \in Nat \ {0}
  BY SumNat DEF IsBalance, SumFunction
<1>2. balance[o] \in Nat /\ quantity * balance[o] \in Nat
  <2>1. balance[o] \in Nat
    BY DEF IsBalance
  <2>2. \A p, q \in Nat : p * q \in Nat
    OBVIOUS
  <2>. QED
    BY <2>1, <2>2
<1>. QED
  BY <1>1, <1>2, DivMod DEF Share, Remainder

(* What rounding down leaves is the sum of the remainders over the total, so it is less *)
(* than one unit for each owner.                                                        *)
LEMMA DustOf ==
  ASSUME NEW quantity \in Nat, NEW balance, IsBalance(balance)
  PROVE  /\ Dust(quantity, balance) \in Nat
         /\ Dust(quantity, balance) <= Cardinality(DOMAIN balance)
         /\ SumFunctionOnSet([o \in DOMAIN balance |-> Share(quantity, balance, o)],
                             DOMAIN balance) + Dust(quantity, balance) = quantity
<1>. DEFINE D == DOMAIN balance
            T == SumFunction(balance)
            share == [o \in D |-> Share(quantity, balance, o)]
            rest == [o \in D |-> Remainder(quantity, balance, o)]
            whole == [o \in D |-> quantity * balance[o]]
            S == SumFunctionOnSet(share, D)
            n == Cardinality(D)
            dust == Dust(quantity, balance)
<1>1. IsFiniteSet(D) /\ n \in Nat
  BY FS_CardinalityType DEF IsBalance
<1>2. \A o \in D : /\ T \in Nat \ {0} /\ share[o] \in Nat /\ rest[o] \in 0..(T - 1)
                   /\ balance[o] \in Nat
                   /\ quantity * balance[o] = T * share[o] + rest[o]
  BY ShareOf DEF IsBalance
<1>3. T \in Nat \ {0} /\ T = SumFunctionOnSet(balance, D)
  BY <1>1, SumNat DEF IsBalance, SumFunction
<1>4. dust = quantity - S
  BY DEF Dust, SumFunction
<1>5. \A o \in D : whole[o] = quantity * balance[o]
  OBVIOUS
<1>. HIDE DEF D, T, share, rest, whole, n, dust
<1>6. S \in Nat
  BY <1>1, <1>2, SumNat
<1>7. SumFunctionOnSet(whole, D) = quantity * T
  <2>. DEFINE zero == [o \in D |-> 0]
  <2>1. \A o \in D : zero[o] = 0
    OBVIOUS
  <2>2. \A o \in D : balance[o] \in Int /\ zero[o] \in Int
                     /\ whole[o] = quantity * balance[o] + zero[o]
    <3>1. \A o \in D : balance[o] \in Int /\ quantity * balance[o] \in Int
      BY <1>2
    <3>. QED
      BY <1>5, <2>1, <3>1
  <2>. HIDE DEF zero
  <2>3. SumFunctionOnSet(whole, D) = quantity * SumFunctionOnSet(balance, D)
                                      + SumFunctionOnSet(zero, D)
    BY <1>1, <2>2, SumLinear
  <2>4. SumFunctionOnSet(zero, D) = 0
    BY <1>1, <2>1, SumZero
  <2>5. quantity * T \in Int
    BY <1>3
  <2>. QED
    BY <1>3, <2>3, <2>4, <2>5
<1>8. SumFunctionOnSet(whole, D) = T * S + SumFunctionOnSet(rest, D)
  <2>1. \A o \in D : share[o] \in Int /\ rest[o] \in Int /\ whole[o] = T * share[o] + rest[o]
    BY <1>2, <1>3, <1>5
  <2>2. T \in Int
    BY <1>3
  <2>. QED
    BY <1>1, <2>1, <2>2, SumLinear
<1>9. SumFunctionOnSet(rest, D) \in Nat /\ SumFunctionOnSet(rest, D) <= T * n
  <2>. DEFINE one == [o \in D |-> IF o \in D THEN 1 ELSE 0]
              zero == [o \in D |-> 0]
              ceil == [o \in D |-> T]
  <2>1. SumFunctionOnSet(one, D) = n
    BY <1>1, SumCounts DEF n
  <2>2. \A o \in D : one[o] = 1 /\ zero[o] = 0 /\ ceil[o] = T
    OBVIOUS
  <2>. HIDE DEF one, zero, ceil
  <2>3. \A o \in D : one[o] \in Int /\ zero[o] \in Int /\ ceil[o] = T * one[o] + zero[o]
    BY <1>3, <2>2
  <2>4. SumFunctionOnSet(ceil, D) = T * n + 0
    <3>1. SumFunctionOnSet(ceil, D) =
             T * SumFunctionOnSet(one, D) + SumFunctionOnSet(zero, D)
      BY <1>1, <1>3, <2>3, SumLinear
    <3>2. SumFunctionOnSet(zero, D) = 0
      BY <1>1, <2>2, SumZero
    <3>. QED
      BY <2>1, <3>1, <3>2
  <2>5. T * n \in Int
    BY <1>1, <1>3
  <2>6. \A o \in D : rest[o] \in Int /\ ceil[o] \in Int /\ rest[o] <= ceil[o] /\ rest[o] \in Nat
    BY <1>2, <2>2
  <2>. QED
    BY <1>1, <2>4, <2>5, <2>6, SumMonotonic, SumNat
<1>10. T * dust = SumFunctionOnSet(rest, D)
  <2>1. \A t, q, s, r \in Int : q * t = t * s + r => t * (q - s) = r
    OBVIOUS
  <2>. QED
    BY <1>3, <1>4, <1>6, <1>7, <1>8, <1>9, <2>1
<1>11. dust \in Int
  BY <1>4, <1>6
<1>12. \A t, d, m \in Int : t > 0 /\ t * d >= 0 /\ t * d <= t * m => d >= 0 /\ d <= m
  OBVIOUS
<1>13. dust >= 0 /\ dust <= n
  <2>1. T * dust >= 0 /\ T * dust <= T * n
    BY <1>9, <1>10
  <2>. QED
    BY <1>1, <1>3, <1>11, <1>12, <2>1
<1>14. dust \in Nat
  BY <1>11, <1>13
<1>15. S + dust = quantity
  BY <1>4, <1>6
<1>. QED
  BY <1>13, <1>14, <1>15 DEF n, dust, D, share

(* The owners in the order the dust is handed out. *)
Precedence(quantity, balance) ==
    {p \in (DOMAIN balance) \X (DOMAIN balance) : Precedes(quantity, balance, p[1], p[2])}

LEMMA PrecedenceIsOrder ==
  ASSUME NEW quantity \in Nat, NEW balance, IsBalance(balance)
  PROVE  StrictOrder(Precedence(quantity, balance), DOMAIN balance)
<1>. DEFINE D == DOMAIN balance
            R == Precedence(quantity, balance)
            rest == [o \in D |-> Remainder(quantity, balance, o)]
<1>1. \A x, y \in D : <<x, y>> \in R <=> rest[x] > rest[y] \/ (rest[x] = rest[y] /\ x < y)
  BY DEF Precedence, Precedes
<1>2. \A x \in D : rest[x] \in Int /\ x \in Int
  BY ShareOf DEF IsBalance
<1>. HIDE DEF D, R, rest
<1>3. \A x \in D : <<x, x>> \notin R
  BY <1>1, <1>2
<1>4. \A x, y, z \in D : <<x, y>> \in R /\ <<y, z>> \in R => <<x, z>> \in R
  BY <1>1, <1>2
<1>5. \A x, y \in D : x = y \/ <<x, y>> \in R \/ <<y, x>> \in R
  <2>. SUFFICES ASSUME NEW x \in D, NEW y \in D, x # y
                PROVE  <<x, y>> \in R \/ <<y, x>> \in R
    OBVIOUS
  <2>1. rest[x] \in Int /\ rest[y] \in Int /\ x \in Int /\ y \in Int
    BY <1>2
  <2>2. CASE rest[x] = rest[y]
    <3>1. x < y \/ y < x
      BY <2>1
    <3>. QED
      BY <1>1, <2>2, <3>1
  <2>3. CASE rest[x] # rest[y]
    <3>1. rest[x] > rest[y] \/ rest[y] > rest[x]
      BY <2>1, <2>3
    <3>. QED
      BY <1>1, <3>1
  <2>. QED
    BY <2>2, <2>3
<1>. QED
  BY <1>3, <1>4, <1>5 DEF StrictOrder, D, R

(* The owners who get one unit of the dust. *)
Favoured(quantity, balance) ==
    {o \in DOMAIN balance : Turn(quantity, balance, o) < Dust(quantity, balance)}

LEMMA FavouredCount ==
  ASSUME NEW quantity \in Nat, NEW balance, IsBalance(balance)
  PROVE  Cardinality(Favoured(quantity, balance)) = Dust(quantity, balance)
<1>. DEFINE D == DOMAIN balance
            R == Precedence(quantity, balance)
            dust == Dust(quantity, balance)
<1>1. Cardinality({x \in D : Cardinality(Below(R, D, x)) < dust}) = dust
  <2>1. IsFiniteSet(D)
    BY DEF IsBalance
  <2>2. dust \in Nat /\ dust <= Cardinality(D) /\ StrictOrder(R, D)
    BY DustOf, PrecedenceIsOrder
  <2>. HIDE DEF dust, R, D
  <2>. QED
    BY <2>1, <2>2, RanksFill
<1>2. ASSUME NEW x \in D
      PROVE  Turn(quantity, balance, x) = Cardinality(Below(R, D, x))
  <2>1. Below(R, D, x) = {p \in DOMAIN balance : Precedes(quantity, balance, p, x)}
    BY DEF Below, Precedence
  <2>. QED
    BY <2>1, Zenon DEF Turn
<1>3. Favoured(quantity, balance) = {x \in D : Cardinality(Below(R, D, x)) < dust}
  BY <1>2 DEF Favoured
<1>. QED
  BY <1>1, <1>3, Zenon

(* Every unit of the quantity goes to somebody. *)
LEMMA AllocateSums ==
  ASSUME NEW quantity \in Nat, NEW balance, IsBalance(balance)
  PROVE  /\ Allocate(quantity, balance) \in [DOMAIN balance -> Nat]
         /\ SumFunction(Allocate(quantity, balance)) = quantity
<1>. DEFINE D == DOMAIN balance
            F == Favoured(quantity, balance)
            share == [o \in D |-> Share(quantity, balance, o)]
            extra == [o \in D |-> IF o \in F THEN 1 ELSE 0]
            rows == Allocate(quantity, balance)
<1>1. \A o \in D : share[o] \in Nat /\ extra[o] \in Nat /\ rows[o] = share[o] + extra[o]
  <2>1. \A o \in D : share[o] \in Nat
    BY ShareOf
  <2>2. \A o \in D : rows[o] = share[o] + extra[o]
    BY <2>1 DEF Allocate, Favoured
  <2>. QED
    BY <2>1, <2>2
<1>2. DOMAIN rows = D /\ rows = [o \in D |-> rows[o]]
  BY DEF Allocate
<1>3. IsFiniteSet(D) /\ F \in SUBSET D
  BY DEF IsBalance, Favoured
<1>4. SumFunctionOnSet(extra, D) = Dust(quantity, balance)
  BY <1>3, SumCounts, FavouredCount
<1>5. SumFunctionOnSet(share, D) + Dust(quantity, balance) = quantity
  BY DustOf
<1>6. SumFunction(rows) = SumFunctionOnSet(rows, D)
  BY <1>2, Zenon DEF SumFunction
<1>. HIDE DEF D, share, extra, rows, F
<1>7. SumFunctionOnSet(rows, D) = SumFunctionOnSet(share, D) + SumFunctionOnSet(extra, D)
  BY <1>1, <1>3, SumPlus
<1>8. rows \in [D -> Nat]
  BY <1>1, <1>2
<1>. QED
  BY <1>4, <1>5, <1>6, <1>7, <1>8 DEF rows, D

(* Dividing no more than the weights add up to gives nobody more than his weight. *)
LEMMA AllocateAtMost ==
  ASSUME NEW quantity \in Nat, NEW balance, IsBalance(balance),
         quantity <= SumFunction(balance), NEW o \in DOMAIN balance, balance[o] > 0
  PROVE  Allocate(quantity, balance)[o] <= balance[o]
<1>. DEFINE D == DOMAIN balance
            T == SumFunction(balance)
            share == [p \in D |-> Share(quantity, balance, p)]
            rest == [p \in D |-> Remainder(quantity, balance, p)]
<1>1. \A p \in D : /\ T \in Nat \ {0} /\ share[p] \in Nat /\ rest[p] \in 0..(T - 1)
                   /\ balance[p] \in Nat
                   /\ quantity * balance[p] = T * share[p] + rest[p]
  BY ShareOf DEF IsBalance
<1>0. Allocate(quantity, balance)[o] \in Int
  BY AllocateSums
<1>2. Allocate(quantity, balance)[o] <= share[o] + 1
      /\ (Dust(quantity, balance) = 0 => Allocate(quantity, balance)[o] = share[o])
  <2>1. Turn(quantity, balance, o) \in Nat
    <3>1. {p \in DOMAIN balance : Precedes(quantity, balance, p, o)} \in SUBSET DOMAIN balance
      OBVIOUS
    <3>. QED
      BY <3>1, FS_Subset, FS_CardinalityType DEF Turn, IsBalance
  <2>2. share[o] \in Nat
    BY <1>1
  <2>. QED
    BY <2>1, <2>2 DEF Allocate
<1>. HIDE DEF T, share, rest
<1>3. CASE quantity < T
  <2>1. share[o] < balance[o]
    <3>1. T * share[o] <= quantity * balance[o]
      BY <1>1
    <3>2. \A q, t, s, b \in Nat : q < t /\ b > 0 /\ t * s <= q * b => s < b
      <4>1. SUFFICES ASSUME NEW q \in Nat, NEW t \in Nat, NEW s \in Nat, NEW b \in Nat,
                            q < t, b > 0, s >= b
                     PROVE  t * s > q * b
        OBVIOUS
      <4>2. t * b > q * b
        BY <4>1
      <4>3. t * s >= t * b
        BY <4>1
      <4>. QED
        BY <4>2, <4>3
    <3>. QED
      BY <1>1, <1>3, <3>1, <3>2
  <2>. QED
    BY <1>0, <1>1, <1>2, <2>1
<1>4. CASE quantity = T
  <2>1. ASSUME NEW p \in D
        PROVE  share[p] = balance[p]
    <3>1. \A t, s, b, r \in Nat : t * b = t * s + r /\ r < t => s = b
      <4>1. SUFFICES ASSUME NEW t \in Nat, NEW s \in Nat, NEW b \in Nat, NEW r \in Nat,
                            t * b = t * s + r, r < t
                     PROVE  s = b
        OBVIOUS
      <4>2. t * (b - s) = r
        BY <4>1
      <4>3. CASE b - s >= 1
        <5>1. t * (b - s) >= t
          BY <4>1, <4>3
        <5>. QED
          BY <4>1, <4>2, <5>1
      <4>4. CASE b - s <= -1
        <5>1. t * (b - s) <= -t
          BY <4>1, <4>4
        <5>. QED
          BY <4>1, <4>2, <5>1
      <4>. QED
        BY <4>1, <4>3, <4>4
    <3>2. rest[p] \in Nat /\ rest[p] < T /\ T \in Nat /\ share[p] \in Nat /\ balance[p] \in Nat
      BY <1>1, <2>1
    <3>3. T * balance[p] = T * share[p] + rest[p]
      BY <1>1, <1>4, <2>1
    <3>. QED
      BY <3>1, <3>2, <3>3
  <2>2. IsFiniteSet(D) /\ T = SumFunctionOnSet(balance, D)
    BY DEF IsBalance, T, SumFunction
  <2>3. SumFunctionOnSet(share, D) = SumFunctionOnSet(balance, D)
    BY <2>1, <2>2, SumSame
  <2>4. Dust(quantity, balance) = quantity - SumFunctionOnSet(share, D)
    BY DEF Dust, SumFunction, share
  <2>5. T \in Int
    BY <1>1
  <2>6. Dust(quantity, balance) = 0
    BY <1>4, <2>2, <2>3, <2>4, <2>5
  <2>. QED
    BY <1>1, <1>2, <2>1, <2>6
<1>5. T \in Nat
  BY <1>1
<1>6. quantity <= T
  BY DEF T
<1>. QED
  BY <1>3, <1>4, <1>5, <1>6

-----------------------------------------------------------------------------
(* No division is closer *)

(* The favoured owners and the others are separated by a remainder. *)
LEMMA FavouredFirst ==
  ASSUME NEW quantity \in Nat, NEW balance, IsBalance(balance)
  PROVE  \E limit \in 0..SumFunction(balance) : \A o \in DOMAIN balance :
            IF o \in Favoured(quantity, balance) THEN Remainder(quantity, balance, o) >= limit
                                                 ELSE Remainder(quantity, balance, o) <= limit
<1>. DEFINE D == DOMAIN balance
            R == Precedence(quantity, balance)
            F == Favoured(quantity, balance)
            T == SumFunction(balance)
            rest == [o \in D |-> Remainder(quantity, balance, o)]
            turn == [o \in D |-> Turn(quantity, balance, o)]
            dust == Dust(quantity, balance)
<1>1. \A o \in D : T \in Nat \ {0} /\ rest[o] \in 0..(T - 1)
  BY ShareOf
<1>2. StrictOrder(R, D) /\ IsFiniteSet(D) /\ dust \in Nat
  BY PrecedenceIsOrder, DustOf DEF IsBalance
<1>3. \A x, y \in D : <<x, y>> \in R => rest[x] >= rest[y]
  <2>1. \A x, y \in D : <<x, y>> \in R => rest[x] > rest[y] \/ rest[x] = rest[y]
    BY DEF Precedence, Precedes
  <2>2. \A x \in D : rest[x] \in Int
    BY <1>1
  <2>. HIDE DEF D, R, rest
  <2>. QED
    BY <2>1, <2>2
<1>4. \A x \in D : turn[x] = Cardinality(Below(R, D, x))
  <2>1. ASSUME NEW x \in D
        PROVE  Turn(quantity, balance, x) = Cardinality(Below(R, D, x))
    <3>1. Below(R, D, x) = {p \in DOMAIN balance : Precedes(quantity, balance, p, x)}
      BY DEF Below, Precedence
    <3>. QED
      BY <3>1, Zenon DEF Turn
  <2>. QED
    BY <2>1
<1>5. F = {o \in D : turn[o] < dust}
  BY DEF Favoured
<1>6. T \in Nat \ {0}
  BY SumNat DEF IsBalance, SumFunction
<1>. HIDE DEF D, R, F, T, rest, turn, dust
<1>7. ASSUME NEW x \in F, NEW y \in D \ F
      PROVE  rest[x] >= rest[y]
  <2>1. x \in D /\ y \in D /\ x # y /\ turn[x] < dust /\ ~(turn[y] < dust)
    BY <1>5, <1>7
  <2>2. CASE <<y, x>> \in R
    <3>1. Below(R, D, y) \in SUBSET Below(R, D, x) /\ Below(R, D, x) \in SUBSET D
      BY <1>2, <2>1, <2>2 DEF Below, StrictOrder
    <3>2. IsFiniteSet(Below(R, D, x)) /\ IsFiniteSet(Below(R, D, y))
      BY <1>2, <3>1, FS_Subset
    <3>3. /\ turn[y] <= turn[x] /\ turn[x] \in Nat /\ turn[y] \in Nat
      BY <1>4, <2>1, <3>1, <3>2, FS_Subset, FS_CardinalityType
    <3>. QED
      BY <1>2, <2>1, <3>3
  <2>3. CASE <<x, y>> \in R
    BY <1>3, <2>1, <2>3
  <2>. QED
    BY <1>2, <2>1, <2>2, <2>3 DEF StrictOrder
<1>8. \E limit \in 0..T : \A o \in D : IF o \in F THEN rest[o] >= limit ELSE rest[o] <= limit
  <2>1. CASE F = {}
    <3>1. \A o \in D : rest[o] <= T
      BY <1>1
    <3>. QED
      BY <1>6, <2>1, <3>1
  <2>2. CASE F # {}
    <3>1. IsFiniteSet(F) /\ StrictOrder(R, F) /\ F \in SUBSET D
      <4>1. F \in SUBSET D
        BY <1>5
      <4>. QED
        BY <1>2, <4>1, FS_Subset DEF StrictOrder
    <3>2. PICK l \in F : \A y \in F \ {l} : <<y, l>> \in R
      BY <2>2, <3>1, LastElement
    <3>3. \A o \in F : rest[o] >= rest[l]
      <4>1. rest[l] >= rest[l]
        BY <1>1, <3>1
      <4>. QED
        BY <1>3, <3>1, <3>2, <4>1
    <3>4. \A o \in D \ F : rest[o] <= rest[l]
      <4>1. \A o \in D : rest[o] \in Int
        BY <1>1
      <4>. QED
        BY <1>7, <3>1, <4>1
    <3>5. rest[l] \in 0..T
      BY <1>1, <1>6, <3>1
    <3>. QED
      BY <3>3, <3>4, <3>5
  <2>. QED
    BY <2>1, <2>2
<1>. QED
  BY <1>8 DEF D, F, T, rest

(* Moving one owner's part by y units from the rounded share costs at least what the *)
(* rule's choice (z units) costs, at the price that the limit sets on a unit.        *)
LEMMA PriceOfUnit ==
  ASSUME NEW t \in Nat \ {0}, NEW r \in 0..(t - 1), NEW limit \in 0..t, NEW y \in Int,
         NEW z \in {0, 1}, z = 1 => r >= limit, z = 0 => r <= limit
  PROVE  (t * z - r) * (t * z - r) - (t * t - 2 * t * limit) * z
            <= (t * y - r) * (t * y - r) - (t * t - 2 * t * limit) * y
<1>. DEFINE d == r - limit
            gain == t * (y * y - y) - 2 * d * (y - z)
<1>1. gain >= 0
  <2>1. CASE z = 1
    <3>1. gain = (y - 1) * (t * y - 2 * d)
      BY <2>1
    <3>2. d >= 0 /\ d < t
      BY <2>1
    <3>3. CASE y >= 2
      <4>1. t * y >= 2 * t
        BY <3>3
      <4>2. t * y - 2 * d >= 0 /\ y - 1 >= 0
        BY <3>2, <3>3, <4>1
      <4>3. \A a, b \in Int : a >= 0 /\ b >= 0 => a * b >= 0
        OBVIOUS
      <4>4. t * y - 2 * d \in Int
        OBVIOUS
      <4>. QED
        BY <3>1, <4>2, <4>3, <4>4
    <3>4. CASE y = 1
      BY <3>1, <3>4
    <3>5. CASE y <= 0
      <4>1. t * y <= 0
        BY <3>5
      <4>2. t * y - 2 * d <= 0 /\ y - 1 <= 0
        BY <3>2, <3>5, <4>1
      <4>3. \A a, b \in Int : a <= 0 /\ b <= 0 => a * b >= 0
        OBVIOUS
      <4>4. t * y - 2 * d \in Int
        OBVIOUS
      <4>. QED
        BY <3>1, <4>2, <4>3, <4>4
    <3>. QED
      BY <3>3, <3>4, <3>5
  <2>2. CASE z = 0
    <3>1. gain = y * (t * (y - 1) - 2 * d)
      BY <2>2
    <3>2. d <= 0 /\ d >= -t
      BY <2>2
    <3>3. CASE y >= 1
      <4>1. t * (y - 1) >= 0
        BY <3>3
      <4>2. t * (y - 1) - 2 * d >= 0 /\ y >= 0
        BY <3>2, <3>3, <4>1
      <4>3. \A a, b \in Int : a >= 0 /\ b >= 0 => a * b >= 0
        OBVIOUS
      <4>4. t * (y - 1) - 2 * d \in Int
        OBVIOUS
      <4>. QED
        BY <3>1, <4>2, <4>3, <4>4
    <3>4. CASE y = 0
      BY <3>1, <3>4
    <3>5. CASE y <= -1
      <4>1. t * (y - 1) <= -(2 * t)
        BY <3>5
      <4>2. t * (y - 1) - 2 * d <= 0 /\ y <= 0
        BY <3>2, <3>5, <4>1
      <4>3. \A a, b \in Int : a <= 0 /\ b <= 0 => a * b >= 0
        OBVIOUS
      <4>4. t * (y - 1) - 2 * d \in Int
        OBVIOUS
      <4>. QED
        BY <3>1, <4>2, <4>3, <4>4
    <3>. QED
      BY <3>3, <3>4, <3>5
  <2>. QED
    BY <2>1, <2>2
<1>2. ((t * y - r) * (t * y - r) - (t * t - 2 * t * limit) * y)
        - ((t * z - r) * (t * z - r) - (t * t - 2 * t * limit) * z) = t * gain
  <2>1. CASE z = 0
    BY <2>1
  <2>2. CASE z = 1
    BY <2>2
  <2>. QED
    BY <2>1, <2>2
<1>3. t * gain >= 0
  <2>1. gain \in Int
    OBVIOUS
  <2>. HIDE DEF gain
  <2>. QED
    BY <1>1, <2>1
<1>. QED
  BY <1>2, <1>3

LEMMA AllocateDivides ==
  ASSUME NEW quantity \in Nat, NEW balance, IsBalance(balance)
  PROVE  Allocate(quantity, balance) \in Divisions(quantity, balance)
<1>. DEFINE rows == Allocate(quantity, balance)
            D == DOMAIN balance
<1>1. rows \in [D -> Nat] /\ SumFunction(rows) = quantity
  BY AllocateSums
<1>2. IsFiniteSet(D)
  BY DEF IsBalance
<1>. HIDE DEF rows, D
<1>3. SumFunctionOnSet(rows, D) = quantity
  <2>1. DOMAIN rows = D
    BY <1>1
  <2>. QED
    BY <1>1, <2>1, Zenon DEF SumFunction
<1>4. \A o \in D : rows[o] \in 0..quantity
  <2>1. \A o \in D : rows[o] \in Nat /\ rows[o] <= SumFunctionOnSet(rows, D)
    BY <1>1, <1>2, SumBoundsMember
  <2>. QED
    BY <1>3, <2>1
<1>5. rows \in [D -> 0..quantity]
  BY <1>1, <1>4
<1>. QED
  BY <1>1, <1>5 DEF Divisions, rows, D

(* A quantity is handed out to the last unit, and no other division of it in whole units *)
(* is closer to the exact proportions (money.ts:2-12).                                   *)
THEOREM AllocateIsClosest ==
  ASSUME NEW quantity \in Nat, NEW balance, IsBalance(balance)
  PROVE  ClosestDivision(quantity, balance)
<1>. SUFFICES ASSUME NEW d \in Divisions(quantity, balance)
              PROVE  Deviation(quantity, balance, Allocate(quantity, balance))
                        <= Deviation(quantity, balance, d)
  BY AllocateDivides DEF ClosestDivision
<1>. DEFINE D == DOMAIN balance
            T == SumFunction(balance)
            F == Favoured(quantity, balance)
            a == Allocate(quantity, balance)
            share == [o \in D |-> Share(quantity, balance, o)]
            rest == [o \in D |-> Remainder(quantity, balance, o)]
            off(x) == [o \in D |-> (x[o] * T - quantity * balance[o])
                                      * (x[o] * T - quantity * balance[o])]
<1>1. PICK limit \in 0..T : \A o \in D : IF o \in F THEN rest[o] >= limit ELSE rest[o] <= limit
  BY FavouredFirst
<1>. DEFINE price == T * T - 2 * T * limit
            net(x) == [o \in D |-> (-price) * x[o] + off(x)[o]]
<1>2. \A o \in D : /\ T \in Nat \ {0} /\ share[o] \in Nat /\ rest[o] \in 0..(T - 1)
                   /\ quantity * balance[o] = T * share[o] + rest[o]
  BY ShareOf
<1>3. \A o \in D : a[o] = share[o] + (IF o \in F THEN 1 ELSE 0)
  BY DEF Allocate, Favoured
<1>4. T \in Nat \ {0} /\ price \in Int
  <2>1. T \in Nat \ {0}
    BY SumNat DEF IsBalance, SumFunction
  <2>. HIDE DEF T
  <2>. QED
    BY <1>1, <2>1
<1>5. IsFiniteSet(D)
  BY DEF IsBalance
<1>6. ASSUME NEW x \in Divisions(quantity, balance)
      PROVE  /\ SumFunctionOnSet(x, D) = quantity
             /\ \A o \in D : x[o] \in Int
             /\ Deviation(quantity, balance, x) = SumFunctionOnSet(off(x), D)
  <2>1. x \in [D -> 0..quantity] /\ SumFunction(x) = quantity
    BY <1>6 DEF Divisions
  <2>2. DOMAIN x = D
    BY <2>1
  <2>3. SumFunctionOnSet(x, D) = quantity
    BY <2>1, <2>2, Zenon DEF SumFunction
  <2>4. Deviation(quantity, balance, x) = SumFunctionOnSet(off(x), D)
    BY DEF Deviation, SumFunction
  <2>. QED
    BY <2>1, <2>3, <2>4
<1>7. a \in Divisions(quantity, balance)
  BY AllocateDivides
<1>8. \A x : \A o \in D : /\ off(x)[o] = (x[o] * T - quantity * balance[o])
                                              * (x[o] * T - quantity * balance[o])
                         /\ net(x)[o] = (-price) * x[o] + off(x)[o]
  OBVIOUS
<1>. HIDE DEF D, T, F, a, share, rest, off, price, net
<1>9. ASSUME NEW x \in Divisions(quantity, balance), NEW o \in D
      PROVE  /\ x[o] \in Int /\ off(x)[o] \in Int /\ net(x)[o] \in Int
             /\ off(x)[o] = (T * (x[o] - share[o]) - rest[o]) * (T * (x[o] - share[o]) - rest[o])
  <2>1. x[o] \in Int /\ T \in Int /\ share[o] \in Int /\ rest[o] \in Int
    BY <1>2, <1>6
  <2>2. x[o] * T - quantity * balance[o] = T * (x[o] - share[o]) - rest[o]
    <3>1. \A p, t, s, r \in Int : p * t - (t * s + r) = t * (p - s) - r
      OBVIOUS
    <3>. QED
      BY <1>2, <2>1, <3>1
  <2>3. off(x)[o] = (T * (x[o] - share[o]) - rest[o]) * (T * (x[o] - share[o]) - rest[o])
    BY <1>8, <2>2
  <2>4. off(x)[o] \in Int
    BY <2>1, <2>3
  <2>5. net(x)[o] \in Int
    BY <1>4, <1>8, <2>1, <2>4
  <2>. QED
    BY <2>1, <2>3, <2>4, <2>5
<1>10. ASSUME NEW o \in D
       PROVE  net(a)[o] <= net(d)[o]
  <2>. DEFINE y == d[o] - share[o]
              z == IF o \in F THEN 1 ELSE 0
  <2>1. T \in Nat \ {0} /\ share[o] \in Int /\ rest[o] \in 0..(T - 1)
    BY <1>2
  <2>2. d[o] \in Int /\ a[o] = share[o] + z /\ z \in {0, 1}
    BY <1>3, <1>9
  <2>3. (z = 1 => rest[o] >= limit) /\ (z = 0 => rest[o] <= limit)
    BY <1>1
  <2>4. a[o] - share[o] = z /\ y \in Int /\ d[o] = share[o] + y
    BY <2>1, <2>2
  <2>5. /\ off(a)[o] = (T * z - rest[o]) * (T * z - rest[o])
        /\ off(d)[o] = (T * y - rest[o]) * (T * y - rest[o])
    BY <1>7, <1>9, <2>4
  <2>. HIDE DEF y, z
  <2>6. (T * z - rest[o]) * (T * z - rest[o]) - (T * T - 2 * T * limit) * z
           <= (T * y - rest[o]) * (T * y - rest[o]) - (T * T - 2 * T * limit) * y
    BY <2>1, <2>2, <2>3, <2>4, PriceOfUnit
  <2>7. off(a)[o] - price * z <= off(d)[o] - price * y
    BY <2>5, <2>6 DEF price
  <2>8. off(a)[o] \in Int /\ off(d)[o] \in Int
    BY <1>7, <1>9
  <2>9. \A p, s, i, j, u, v \in Int : u - p * i <= v - p * j
           => (-p) * (s + i) + u <= (-p) * (s + j) + v
    OBVIOUS
  <2>10. (-price) * (share[o] + z) + off(a)[o] <= (-price) * (share[o] + y) + off(d)[o]
    <3>1. z \in Int
      BY <2>2
    <3>. QED
      BY <1>4, <2>1, <2>4, <2>7, <2>8, <2>9, <3>1
  <2>. QED
    BY <1>8, <2>2, <2>4, <2>10
<1>11. SumFunctionOnSet(net(a), D) <= SumFunctionOnSet(net(d), D)
  BY <1>5, <1>7, <1>9, <1>10, SumMonotonic
<1>12. ASSUME NEW x \in Divisions(quantity, balance)
       PROVE  /\ SumFunctionOnSet(net(x), D) = (-price) * quantity + SumFunctionOnSet(off(x), D)
              /\ SumFunctionOnSet(off(x), D) \in Int
  <2>1. \A o \in D : /\ x[o] \in Int /\ off(x)[o] \in Int
                     /\ net(x)[o] = (-price) * x[o] + off(x)[o]
    BY <1>8, <1>9
  <2>2. PICK k \in Int : k = -price
    BY <1>4
  <2>3. SumFunctionOnSet(net(x), D) = k * SumFunctionOnSet(x, D) + SumFunctionOnSet(off(x), D)
    <3>1. \A o \in D : x[o] \in Int /\ off(x)[o] \in Int /\ net(x)[o] = k * x[o] + off(x)[o]
      BY <2>1, <2>2
    <3>. QED
      BY <1>5, <3>1, SumLinear
  <2>. QED
    BY <1>5, <1>6, <2>1, <2>2, <2>3, SumInt
<1>13. (-price) * quantity \in Int
  BY <1>4
<1>14. SumFunctionOnSet(off(a), D) <= SumFunctionOnSet(off(d), D)
  <2>1. \A p, u, v \in Int : p + u <= p + v => u <= v
    OBVIOUS
  <2>. QED
    BY <1>7, <1>11, <1>12, <1>13, <2>1
<1>. QED
  BY <1>6, <1>7, <1>14 DEF a

(* The parts of a round are natural and take exactly its funding. *)
LEMMA BudgetParts ==
  ASSUME NEW funding \in Nat, NEW spent \in Nat, spent < funding
  PROVE  /\ Budget(funding, spent) \in
               [cost : Nat, buyback : Nat, operations : Nat, leg : Nat, remainder : Nat]
         /\ Budget(funding, spent).cost = spent
         /\ BudgetTotal(Budget(funding, spent)) = funding
<1>. DEFINE net == funding - spent
            basket == (net * BasketShare) \div Whole
            burnt == (net * BuybackShare) \div Whole
            share == (net * OperationsShare) \div Whole
            leg == basket \div BasketSize
            rest == basket % BasketSize
<1>1. net \in Nat
  OBVIOUS
<1>. HIDE DEF net
<1>2. ASSUME NEW s \in Nat
      PROVE  /\ (net * s) \div Whole \in Nat
             /\ Whole * ((net * s) \div Whole) <= net * s
  <2>1. net * s \in Nat
    BY <1>1
  <2>2. \A a \in Nat, b \in Nat \ {0} : a \div b \in Nat /\ b * (a \div b) <= a
    OBVIOUS
  <2>. QED
    BY <2>1, <2>2, PolicyIsValid
<1>3. /\ basket \in Nat /\ burnt \in Nat /\ share \in Nat
      /\ Whole * basket <= net * BasketShare
      /\ Whole * burnt <= net * BuybackShare
      /\ Whole * share <= net * OperationsShare
  BY <1>2, PolicyIsValid
<1>4. leg \in Nat /\ rest \in Nat /\ basket = BasketSize * leg + rest
  <2>1. basket \in Nat
    BY <1>3
  <2>. HIDE DEF basket
  <2>. QED
    BY <2>1, DivMod, PolicyIsValid
<1>. HIDE DEF basket, burnt, share, leg, rest
<1>5. basket + burnt + share <= net
  <2>1. net * BasketShare + net * BuybackShare + net * OperationsShare = net * Whole
    BY <1>1, PolicyIsValid
  <2>2. Whole * (basket + burnt + share) <= Whole * net
    BY <1>1, <1>3, <2>1, PolicyIsValid
  <2>3. \A w, p, q \in Int : w > 0 /\ w * p <= w * q => p <= q
    OBVIOUS
  <2>. QED
    BY <1>1, <1>3, <2>2, <2>3, PolicyIsValid
<1>6. Budget(funding, spent) =
        [cost |-> spent, buyback |-> burnt, operations |-> share, leg |-> leg,
         remainder |-> net - basket - burnt - share + rest]
  BY DEF Budget, net, basket, burnt, share, leg, rest
<1>7. net - basket - burnt - share + rest \in Nat
  BY <1>1, <1>3, <1>4, <1>5
<1>8. spent + burnt + share + (net - basket - burnt - share + rest)
        + BasketSize * leg = funding
  <2>1. BasketSize * leg \in Int
    BY <1>4, PolicyIsValid
  <2>. QED
    BY <1>1, <1>3, <1>4, <2>1 DEF net
<1>. QED
  BY <1>3, <1>4, <1>6, <1>7, <1>8 DEF BudgetTotal

(* The moves of a round take exactly its funding out of revenue and no part is negative, *)
(* whatever the divisions leave (money.ts:13-21).                                        *)
THEOREM BudgetTakesFunding ==
  ASSUME NEW funding \in Nat, NEW spent \in Nat, spent < funding
  PROVE  ExactBudget(funding, spent)
<1>. DEFINE b == Budget(funding, spent)
<1>1. /\ b \in [cost : Nat, buyback : Nat, operations : Nat, leg : Nat, remainder : Nat]
      /\ BudgetTotal(b) = funding
  BY BudgetParts
<1>. HIDE DEF b
<1>2. /\ BudgetTotal(b) = funding
      /\ b.cost >= 0 /\ b.buyback >= 0 /\ b.operations >= 0 /\ b.leg >= 0 /\ b.remainder >= 0
  BY <1>1
<1>. QED
  BY <1>2 DEF b, ExactBudget

-----------------------------------------------------------------------------
(* Dividing among the holders of a census *)

Accounts == Seq([owner : Nat, amount : Nat])
OwnersOf(census) == {census[n].owner : n \in DOMAIN census}

(* Every account counts, once, for its owner. *)
LEMMA CensusIsWhole ==
  ASSUME NEW census \in Accounts
  PROVE  LET each == [o \in OwnersOf(census) |-> Balance(census, o)] IN
         /\ IsFiniteSet(OwnersOf(census)) /\ OwnersOf(census) \subseteq Nat
         /\ \A o \in OwnersOf(census) : each[o] = Balance(census, o) /\ each[o] \in Nat
         /\ SumFunction(each) = Supply(census)
<1>. DEFINE D == DOMAIN census
            amounts == [n \in D |-> census[n].amount]
            holder == [n \in D |-> census[n].owner]
            owners == OwnersOf(census)
            group == [o \in owners |-> AccountsOf(census, o)]
            each == [o \in owners |-> Balance(census, o)]
<1>1. /\ IsFiniteSet(D) /\ \A n \in D : census[n] \in [owner : Nat, amount : Nat]
  <2>. DEFINE Account == [owner : Nat, amount : Nat]
  <2>1. census \in Seq(Account)
    BY DEF Accounts
  <2>. HIDE DEF Account
  <2>2. Len(census) \in Nat /\ D = 1..Len(census) /\ \A n \in 1..Len(census) : census[n] \in Account
    BY <2>1
  <2>3. ASSUME NEW l \in Nat PROVE IsFiniteSet(1..l)
    BY FS_Interval
  <2>. HIDE DEF D
  <2>4. IsFiniteSet(D) /\ \A n \in D : census[n] \in Account
    BY <2>2, <2>3
  <2>. QED
    BY <2>4 DEF Account
<1>2. IsFiniteSet(owners)
  <2>1. holder \in Surjection(D, owners)
    BY DEF Surjection, OwnersOf
  <2>. HIDE DEF holder, D, owners
  <2>. QED
    BY <1>1, <2>1, FS_Surjection
<1>3. /\ \A n \in D : amounts[n] \in Nat /\ amounts[n] \in Int
      /\ owners \subseteq Nat
  BY <1>1 DEF OwnersOf
<1>4. ASSUME NEW o \in owners
      PROVE  /\ each[o] = Balance(census, o)
             /\ each[o] = SumFunctionOnSet(amounts, group[o])
             /\ each[o] \in Nat
             /\ group[o] \in SUBSET D
             /\ \A n \in D : n \in group[o] <=> holder[n] = o
  <2>1. /\ each[o] = Balance(census, o)
        /\ each[o] = SumFunctionOnSet(amounts, group[o])
    BY DEF Balance
  <2>2. /\ group[o] \in SUBSET D
        /\ \A n \in D : n \in group[o] <=> holder[n] = o
    BY DEF AccountsOf
  <2>. HIDE DEF amounts, group, each, D, holder, owners
  <2>3. IsFiniteSet(group[o]) /\ \A n \in group[o] : amounts[n] \in Nat
    BY <1>1, <1>3, <2>2, FS_Subset
  <2>4. SumFunctionOnSet(amounts, group[o]) \in Nat
    BY <2>3, SumNat
  <2>. QED
    BY <2>1, <2>2, <2>4
<1>5. \A n \in D : holder[n] \in owners
  BY DEF OwnersOf
<1>6. DOMAIN each = owners /\ DOMAIN amounts = D /\ Supply(census) = SumFunction(amounts)
  BY DEF Supply
<1>. HIDE DEF amounts, group, each, D, holder, owners
<1>7. Grouped(amounts, D, holder, owners, group, each, D)
  <2>1. /\ IsFiniteSet(D) /\ \A n \in D : amounts[n] \in Int
        /\ IsFiniteSet(owners) /\ \A o \in owners : each[o] = SumFunctionOnSet(amounts, group[o])
    BY <1>1, <1>2, <1>3, <1>4
  <2>2. \A o \in owners : group[o] \in SUBSET D /\ \A n \in D : n \in group[o] <=> holder[n] = o
    BY <1>4
  <2>3. D \in SUBSET D /\ \A n \in D : n \in D <=> holder[n] \in owners
    BY <1>5
  <2>. QED
    BY <2>1, <2>2, <2>3 DEF Grouped
<1>8. SumFunctionOnSet(each, owners) = SumFunctionOnSet(amounts, D)
  <2>1. Grouped(amounts, D, holder, owners, group, each, D) =>
           SumFunctionOnSet(each, owners) = SumFunctionOnSet(amounts, D)
    BY SumOfGroups
  <2>. QED
    BY <1>7, <2>1
<1>9. SumFunction(each) = SumFunctionOnSet(each, owners)
      /\ SumFunction(amounts) = SumFunctionOnSet(amounts, D)
  BY <1>6, Zenon DEF SumFunction
<1>10. SumFunction(each) = Supply(census)
  BY <1>6, <1>8, <1>9
<1>. USE DEF each, owners
<1>. QED
  BY <1>2, <1>3, <1>4, <1>10

(* The eligible owners have something to divide by. *)
LEMMA HoldersWeigh ==
  ASSUME NEW census \in Accounts, DOMAIN Holders(census) # {}
  PROVE  IsBalance(Holders(census))
<1>. DEFINE H == Holders(census)
            S == Eligible(census)
<1>1. S \in SUBSET OwnersOf(census) /\ \A o \in S : Balance(census, o) >= Threshold
  BY DEF Eligible, OwnersOf
<1>2. IsFiniteSet(OwnersOf(census)) /\ OwnersOf(census) \subseteq Nat
      /\ \A o \in OwnersOf(census) : Balance(census, o) \in Nat
  BY CensusIsWhole
<1>3. DOMAIN H = S /\ \A o \in S : H[o] = Balance(census, o)
  BY DEF Holders
<1>4. IsFiniteSet(S) /\ S \subseteq Nat /\ \A o \in S : H[o] \in Nat /\ H[o] > 0
  <2>1. IsFiniteSet(S) /\ S \subseteq Nat
    BY <1>1, <1>2, FS_Subset
  <2>2. \A o \in S : Balance(census, o) \in Nat /\ Balance(census, o) >= Threshold
    BY <1>1, <1>2
  <2>. HIDE DEF H, S
  <2>. QED
    BY <1>3, <2>1, <2>2, CensusPolicy
<1>5. PICK o \in S : TRUE
  BY <1>3
<1>. HIDE DEF H, S
<1>6. SumFunction(H) = SumFunctionOnSet(H, S)
  BY <1>3, Zenon DEF SumFunction
<1>7. H[o] <= SumFunctionOnSet(H, S) /\ SumFunctionOnSet(H, S) \in Nat
  BY <1>4, SumBoundsMember, SumNat
<1>8. SumFunction(H) > 0
  BY <1>4, <1>5, <1>6, <1>7
<1>9. IsBalance(H)
  BY <1>3, <1>4, <1>8 DEF IsBalance
<1>. QED
  BY <1>9 DEF H

(* What the enumeration keeps. *)
InputsTyped ==
    /\ holdings \in Accounts /\ purchase \in Nat
    /\ income \in Nat /\ upkeep \in Nat /\ upkeep < income

LEMMA InputsHold == Inputs => []InputsTyped
<1>1. NoInputs => InputsTyped
  BY DEF NoInputs, InputsTyped, Accounts
<1>2. InputsTyped /\ [MoreInputs]_inputs => InputsTyped'
  <2>. SUFFICES ASSUME InputsTyped, [MoreInputs]_inputs PROVE InputsTyped'
    OBVIOUS
  <2>1. CASE AddAccount
    <3>1. PICK account \in TokenAccounts : holdings' = Append(holdings, account)
      BY <2>1 DEF AddAccount
    <3>2. account \in [owner : Nat, amount : Nat]
      BY InputsAreBounded DEF TokenAccounts
    <3>3. holdings' \in Accounts
      BY <3>1, <3>2 DEF InputsTyped, Accounts
    <3>. QED
      BY <2>1, <3>3 DEF AddAccount, InputsTyped
  <2>2. CASE AcquireMore \/ FundMore \/ CostMore \/ AddRow \/ UNCHANGED inputs
    BY <2>2 DEF AcquireMore, FundMore, CostMore, AddRow, inputs, InputsTyped
  <2>. QED
    BY <2>1, <2>2 DEF MoreInputs
<1>. QED
  BY <1>1, <1>2, PTL DEF Inputs

(* Whatever the accounts and the quantity, all accounts count and the quantity is handed *)
(* out to the last unit, as close to the proportions of the eligible owners as whole     *)
(* units allow (money.ts:2-12, selection.ts:55-63).                                      *)
THEOREM EveryCensusIsDivided == Inputs => []AllocationIsClosest
<1>1. InputsTyped => AllocationIsClosest
  <2>. SUFFICES ASSUME InputsTyped PROVE AllocationIsClosest
    OBVIOUS
  <2>1. SumFunction([o \in OwnersOf(holdings) |-> Balance(holdings, o)]) = Supply(holdings)
    BY CensusIsWhole DEF InputsTyped
  <2>2. DOMAIN Holders(holdings) # {} => ClosestDivision(purchase, Holders(holdings))
    BY HoldersWeigh, AllocateIsClosest DEF InputsTyped
  <2>. QED
    BY <2>1, <2>2 DEF AllocationIsClosest, OwnersOf
<1>. QED
  BY <1>1, InputsHold, PTL

(* A round's moves take exactly its funding out of revenue, whatever the funding, its cost *)
(* allowance and the shares of the policy (money.ts:13-21, engine.ts:66-69).               *)
THEOREM EveryBudgetIsExact == Inputs => []BudgetIsExact
<1>1. InputsTyped => BudgetIsExact
  BY BudgetTakesFunding DEF InputsTyped, BudgetIsExact
<1>. QED
  BY <1>1, InputsHold, PTL

-----------------------------------------------------------------------------
(* Receipts *)

LEMMA LargerOfTwo ==
  ASSUME NEW a \in Int, NEW b \in Int
  PROVE  Max({a, b}) = IF a >= b THEN a ELSE b
<1>. DEFINE m == IF a >= b THEN a ELSE b
<1>1. m \in {a, b} /\ \A y \in {a, b} : m >= y
  OBVIOUS
<1>2. \A x \in {a, b} : (\A y \in {a, b} : x >= y) => x = m
  OBVIOUS
<1>. HIDE DEF m
<1>3. Max({a, b}) = m
  BY <1>1, <1>2 DEF Max
<1>. QED
  BY <1>3 DEF m

LEMMA SmallerOfTwo ==
  ASSUME NEW a \in Int, NEW b \in Int
  PROVE  Min({a, b}) = IF a <= b THEN a ELSE b
<1>. DEFINE m == IF a <= b THEN a ELSE b
<1>1. m \in {a, b} /\ \A y \in {a, b} : m <= y
  OBVIOUS
<1>2. \A x \in {a, b} : (\A y \in {a, b} : x <= y) => x = m
  OBVIOUS
<1>. HIDE DEF m
<1>3. Min({a, b}) = m
  BY <1>1, <1>2 DEF Min
<1>. QED
  BY <1>3 DEF m

(* The receipts in the order plan() takes them. *)
Age == {p \in Receipts \X Receipts : Older(p[1], p[2])}

LEMMA AgeIsOrder == StrictOrder(Age, Receipts)
<1>1. \A x \in Receipts : x \in Int /\ Slot[x] \in Int
  BY TreasuryConstants
<1>2. \A x, y \in Receipts : <<x, y>> \in Age <=> Slot[x] < Slot[y] \/ (Slot[x] = Slot[y] /\ x < y)
  BY DEF Age, Older
<1>3. \A x \in Receipts : <<x, x>> \notin Age
  BY <1>1, <1>2
<1>4. \A x, y, z \in Receipts : <<x, y>> \in Age /\ <<y, z>> \in Age => <<x, z>> \in Age
  BY <1>1, <1>2
<1>5. ASSUME NEW x \in Receipts, NEW y \in Receipts, x # y
      PROVE  <<x, y>> \in Age \/ <<y, x>> \in Age
  <2>1. CASE Slot[x] = Slot[y]
    <3>1. x < y \/ y < x
      BY <1>1, <1>5
    <3>. QED
      BY <1>2, <2>1, <3>1
  <2>2. CASE Slot[x] # Slot[y]
    <3>1. Slot[x] < Slot[y] \/ Slot[y] < Slot[x]
      BY <1>1, <2>2
    <3>. QED
      BY <1>2, <3>1
  <2>. QED
    BY <2>1, <2>2
<1>. QED
  BY <1>3, <1>4, <1>5 DEF StrictOrder

(* What is taken of a receipt: what it has left, as far as the older ones fall short. *)
AvailableBefore(r) ==
    SumFunctionOnSet([q \in Receipts |-> AvailableOf(q)], {x \in Receipts : Older(x, r)})

LEMMA TakeOf ==
  ASSUME NEW funding \in Nat, \A r \in Receipts : AvailableOf(r) \in Nat, NEW r \in Receipts
  PROVE  LET room == funding - AvailableBefore(r) IN
         /\ AvailableBefore(r) \in Nat
         /\ Take(r, funding) = IF room <= 0 THEN 0
                               ELSE IF AvailableOf(r) <= room THEN AvailableOf(r) ELSE room
<1>. DEFINE O == {x \in Receipts : Older(x, r)}
            avail == [q \in Receipts |-> AvailableOf(q)]
            part == [q \in O |-> AvailableOf(q)]
            before == SumFunctionOnSet(avail, O)
<1>1. IsFiniteSet(O)
  BY TreasuryConstants, FS_Subset
<1>2. \A q \in O : part[q] = avail[q] /\ avail[q] \in Nat
  OBVIOUS
<1>3. SumFunction(part) = SumFunctionOnSet(part, O)
  BY DEF SumFunction
<1>4. Take(r, funding) = Max({0, Min({AvailableOf(r), funding - SumFunction(part)})})
  BY DEF Take
<1>. HIDE DEF O, avail, part
<1>5. before \in Nat /\ SumFunction(part) = before
  BY <1>1, <1>2, <1>3, SumNat, SumSame
<1>. DEFINE a == AvailableOf(r)
            room == funding - before
            m == Min({a, room})
<1>6. a \in Nat /\ room \in Int
  BY <1>5
<1>7. Take(r, funding) = Max({0, m})
  BY <1>4, <1>5
<1>. HIDE DEF a, room
<1>8. m = IF a <= room THEN a ELSE room
  BY <1>6, SmallerOfTwo
<1>. HIDE DEF m
<1>9. m \in Int
  BY <1>6, <1>8
<1>10. Take(r, funding) = IF 0 >= m THEN 0 ELSE m
  BY <1>7, <1>9, LargerOfTwo
<1>11. Take(r, funding) = IF room <= 0 THEN 0 ELSE IF a <= room THEN a ELSE room
  BY <1>6, <1>8, <1>10
<1>. QED
  BY <1>5, <1>11 DEF a, room, avail, O, AvailableBefore

(* A round takes of each receipt at most what it has left, and its funding in all. *)
LEMMA TakeSums ==
  ASSUME NEW funding \in Nat, \A r \in Receipts : AvailableOf(r) \in Nat,
         funding <= SumFunction([r \in Receipts |-> AvailableOf(r)])
  PROVE  /\ \A r \in Receipts : Take(r, funding) \in Nat /\ Take(r, funding) <= AvailableOf(r)
         /\ SumFunctionOnSet([r \in Receipts |-> Take(r, funding)], Receipts) = funding
<1>. DEFINE avail == [q \in Receipts |-> AvailableOf(q)]
            take == [q \in Receipts |-> Take(q, funding)]
            Closed(t) == \A x \in t : \A y \in Receipts : Older(y, x) => y \in t
            Least(m, n) == IF m <= n THEN m ELSE n
            G == {t \in SUBSET Receipts : Closed(t) =>
                     SumFunctionOnSet(take, t) = Least(SumFunctionOnSet(avail, t), funding)}
<1>1. IsFiniteSet(Receipts)
  BY TreasuryConstants
<1>2. ASSUME NEW r \in Receipts
      PROVE  /\ take[r] \in Nat /\ take[r] <= avail[r] /\ avail[r] \in Nat
             /\ AvailableBefore(r) \in Nat
             /\ take[r] = IF funding - AvailableBefore(r) <= 0 THEN 0
                          ELSE Least(avail[r], funding - AvailableBefore(r))
  <2>1. avail[r] \in Nat /\ avail[r] = AvailableOf(r) /\ take[r] = Take(r, funding)
    OBVIOUS
  <2>. HIDE DEF avail, take
  <2>2. /\ AvailableBefore(r) \in Nat
        /\ take[r] = IF funding - AvailableBefore(r) <= 0 THEN 0
                     ELSE Least(avail[r], funding - AvailableBefore(r))
    BY <2>1, TakeOf
  <2>. QED
    BY <2>1, <2>2
<1>3. \A r \in Receipts : AvailableBefore(r) =
                            SumFunctionOnSet(avail, {x \in Receipts : Older(x, r)})
  BY DEF AvailableBefore
<1>4. \A r \in Receipts : take[r] = Take(r, funding) /\ avail[r] = AvailableOf(r)
  OBVIOUS
<1>. HIDE DEF avail, take
<1>5. {} \in G
  BY SumEmpty
<1>6. ASSUME NEW t \in SUBSET Receipts, t # {}, \A x \in t : t \ {x} \in G
      PROVE  t \in G
  <2>. SUFFICES ASSUME Closed(t)
                PROVE  SumFunctionOnSet(take, t) = Least(SumFunctionOnSet(avail, t), funding)
    OBVIOUS
  <2>1. IsFiniteSet(t) /\ StrictOrder(Age, t)
    <3>1. IsFiniteSet(t)
      BY <1>1, FS_Subset
    <3>2. StrictOrder(Age, t)
      BY AgeIsOrder DEF StrictOrder
    <3>. QED
      BY <3>1, <3>2
  <2>2. PICK r \in t : \A y \in t \ {r} : <<y, r>> \in Age
    BY <1>6, <2>1, LastElement
  <2>3. t \ {r} = {x \in Receipts : Older(x, r)}
    <3>1. \A y \in t \ {r} : Older(y, r)
      BY <2>2 DEF Age
    <3>2. ~Older(r, r)
      BY AgeIsOrder DEF StrictOrder, Age
    <3>. QED
      BY <2>2, <3>1, <3>2
  <2>4. Closed(t \ {r})
    <3>1. \A x, y \in Receipts : Older(y, x) /\ Older(x, r) => Older(y, r)
      BY AgeIsOrder DEF StrictOrder, Age
    <3>. QED
      BY <2>3, <3>1
  <2>5. SumFunctionOnSet(take, t \ {r}) = Least(SumFunctionOnSet(avail, t \ {r}), funding)
    BY <1>6, <2>4
  <2>6. AvailableBefore(r) = SumFunctionOnSet(avail, t \ {r})
    BY <1>3, <2>3, Zenon
  <2>7. /\ SumFunctionOnSet(take, t) = take[r] + SumFunctionOnSet(take, t \ {r})
        /\ SumFunctionOnSet(avail, t) = avail[r] + SumFunctionOnSet(avail, t \ {r})
    BY <1>2, <2>1, SumRemove
  <2>8. \A f, a, b, k \in Nat : k = (IF f - b <= 0 THEN 0 ELSE Least(a, f - b))
            => k + Least(b, f) = Least(a + b, f)
    OBVIOUS
  <2>. HIDE DEF Least
  <2>9. take[r] + Least(AvailableBefore(r), funding) = Least(avail[r] + AvailableBefore(r), funding)
    BY <1>2, <2>8
  <2>. QED
    BY <2>5, <2>6, <2>7, <2>9
<1>7. Receipts \in G
  <2>. HIDE DEF G
  <2>. QED
    BY <1>1, <1>5, <1>6, SetInduction
<1>8. SumFunctionOnSet(avail, Receipts) = SumFunction([r \in Receipts |-> AvailableOf(r)])
  BY DEF SumFunction, avail
<1>9. SumFunctionOnSet(avail, Receipts) \in Nat
  BY <1>1, <1>2, SumNat
<1>10. SumFunctionOnSet(take, Receipts) = funding
  <2>1. SumFunctionOnSet(take, Receipts) = Least(SumFunctionOnSet(avail, Receipts), funding)
    BY <1>7
  <2>. QED
    BY <1>8, <1>9, <2>1
<1>. QED
  BY <1>2, <1>4, <1>10 DEF take

(* The share of each receipt in what a round returns is at most what it gave. *)
LEMMA RefundsSum ==
  ASSUME NEW e \in Rounds, committed[e] \in [Receipts -> Nat], cost[e] \in Nat \ {0},
         cost[e] <= SumFunction(committed[e])
  PROVE  /\ Refunds(e) \in [Receipts -> Nat]
         /\ \A r \in Receipts : Refunds(e)[r] <= committed[e][r]
         /\ SumFunctionOnSet(Refunds(e), Receipts) = cost[e]
<1>. DEFINE sources == {q \in Receipts : committed[e][q] > 0}
            given == committed[e]
            weights == [q \in sources |-> committed[e][q]]
            rows == Allocate(cost[e], weights)
            back == Refunds(e)
            q == cost[e]
<1>1. IsFiniteSet(Receipts) /\ Receipts \subseteq Nat
  BY TreasuryConstants
<1>2. IsFiniteSet(sources) /\ sources \in SUBSET Receipts
  BY <1>1, FS_Subset
<1>3. DOMAIN weights = sources /\ \A r \in sources : weights[r] = given[r] /\ given[r] > 0
  OBVIOUS
<1>4. \A r \in Receipts : given[r] \in Nat /\ (r \notin sources => given[r] = 0)
  OBVIOUS
<1>5. DOMAIN given = Receipts
  OBVIOUS
<1>6. back = [r \in Receipts |-> IF r \in sources THEN rows[r] ELSE 0]
  BY DEF Refunds
<1>7. q \in Nat \ {0} /\ q <= SumFunction(given)
  OBVIOUS
<1>8. weights = [r \in sources |-> weights[r]]
  OBVIOUS
<1>. HIDE DEF sources, given, weights, back, q
<1>9. SumFunction(weights) = SumFunctionOnSet(weights, sources)
      /\ SumFunction(given) = SumFunctionOnSet(given, Receipts)
  BY <1>3, <1>5, Zenon DEF SumFunction
<1>10. SumFunction(weights) = SumFunction(given)
  <2>1. SumFunctionOnSet(given, Receipts) = SumFunctionOnSet(given, sources)
    <3>1. \A r \in Receipts : given[r] \in Int /\ (r \notin sources => given[r] = 0)
      BY <1>4
    <3>. QED
      BY <1>1, <1>2, <3>1, SumOfPart
  <2>3. SumFunctionOnSet(weights, sources) = SumFunctionOnSet(given, sources)
    BY <1>2, <1>3, SumSame
  <2>. QED
    BY <1>9, <2>1, <2>3
<1>11. SumFunction(given) \in Nat
  BY <1>1, <1>4, <1>9, SumNat
<1>12. IsBalance(weights)
  <2>1. weights \in [sources -> Nat]
    BY <1>2, <1>3, <1>4, <1>8
  <2>. QED
    BY <1>1, <1>2, <1>3, <1>7, <1>10, <1>11, <2>1 DEF IsBalance
<1>13. rows \in [sources -> Nat] /\ SumFunction(rows) = q
  BY <1>3, <1>7, <1>12, AllocateSums DEF q
<1>14. \A r \in sources : rows[r] <= given[r]
  <2>1. q \in Nat /\ q <= SumFunction(weights)
    BY <1>7, <1>10
  <2>2. \A r \in sources : r \in DOMAIN weights /\ weights[r] > 0 /\ weights[r] = given[r]
    BY <1>3
  <2>3. rows = Allocate(q, weights)
    BY DEF q
  <2>4. \A r \in DOMAIN weights : weights[r] > 0 => Allocate(q, weights)[r] <= weights[r]
    BY <1>12, <2>1, AllocateAtMost
  <2>. QED
    BY <2>2, <2>3, <2>4
<1>. HIDE DEF rows
<1>15. back \in [Receipts -> Nat] /\ \A r \in Receipts : back[r] <= given[r]
  <2>1. \A r \in Receipts : back[r] = IF r \in sources THEN rows[r] ELSE 0
    BY <1>6
  <2>2. \A r \in Receipts : back[r] \in Nat /\ back[r] <= given[r]
    BY <1>4, <1>13, <1>14, <2>1
  <2>. QED
    BY <1>6, <2>2
<1>16. SumFunctionOnSet(back, Receipts) = q
  <2>1. SumFunctionOnSet(back, Receipts) = SumFunctionOnSet(back, sources)
    <3>1. \A r \in Receipts : back[r] \in Int /\ (r \notin sources => back[r] = 0)
      BY <1>6, <1>15
    <3>. QED
      BY <1>1, <1>2, <3>1, SumOfPart
  <2>3. SumFunctionOnSet(back, sources) = SumFunctionOnSet(rows, sources)
    <3>1. \A r \in sources : back[r] = rows[r]
      BY <1>2, <1>6
    <3>. QED
      BY <1>2, <3>1, SumSame
  <2>4. SumFunctionOnSet(rows, sources) = q
    <3>1. DOMAIN rows = sources
      BY <1>13
    <3>. QED
      BY <1>13, <3>1, Zenon DEF SumFunction
  <2>. QED
    BY <2>1, <2>3, <2>4
<1>. QED
  BY <1>15, <1>16 DEF back, given, q

-----------------------------------------------------------------------------
(* What receipts have left *)

(* Used and AvailableOf over given commitments, refunds and classes. *)
UsedIn(given, back, r) == SumFunctionOnSet([e \in Rounds |-> given[e][r] - back[e][r]], Rounds)
LeftIn(kind, given, back, r) ==
    IF kind[r] = "creator_fee" THEN Amount[r] - UsedIn(given, back, r) ELSE 0
LeftInAll(kind, given, back) ==
    SumFunctionOnSet([r \in Receipts |-> LeftIn(kind, given, back, r)], Receipts)

Ledger == [Rounds -> [Receipts -> Nat]]

(* Receipts fund no more than they brought, rounds return no more than they took. *)
Conserved(kind, given, back) ==
    \A r \in Receipts :
        /\ UsedIn(given, back, r) <= (IF kind[r] = "creator_fee" THEN Amount[r] ELSE 0)
        /\ \A e \in Rounds : back[e][r] <= given[e][r]

LEMMA UsedIsNat ==
  ASSUME NEW given \in Ledger, NEW back \in Ledger, NEW r \in Receipts,
         \A e \in Rounds : back[e][r] <= given[e][r]
  PROVE  /\ UsedIn(given, back, r) \in Nat
         /\ \A e \in Rounds : given[e][r] - back[e][r] <= UsedIn(given, back, r)
<1>. DEFINE net == [e \in Rounds |-> given[e][r] - back[e][r]]
<1>1. \A e \in Rounds : net[e] \in Nat
  <2>1. \A e \in Rounds : given[e][r] \in Nat /\ back[e][r] \in Nat
    BY DEF Ledger
  <2>. QED
    BY <2>1
<1>2. IsFiniteSet(Rounds)
  BY TreasuryConstants
<1>3. UsedIn(given, back, r) = SumFunctionOnSet(net, Rounds)
  BY DEF UsedIn
<1>4. \A e \in Rounds : net[e] = given[e][r] - back[e][r]
  OBVIOUS
<1>. HIDE DEF net
<1>. QED
  BY <1>1, <1>2, <1>3, <1>4, SumNat, SumBoundsMember

(* A round changes what it has of a receipt. *)
LEMMA UsedMoves ==
  ASSUME NEW given \in Ledger, NEW back \in Ledger, NEW given2 \in Ledger, NEW back2 \in Ledger,
         NEW e \in Rounds, NEW r \in Receipts,
         \A x \in Rounds \ {e} : given2[x][r] = given[x][r] /\ back2[x][r] = back[x][r]
  PROVE  UsedIn(given2, back2, r) = UsedIn(given, back, r)
            + ((given2[e][r] - back2[e][r]) - (given[e][r] - back[e][r]))
<1>. DEFINE net == [x \in Rounds |-> given[x][r] - back[x][r]]
            net2 == [x \in Rounds |-> given2[x][r] - back2[x][r]]
<1>1. \A x \in Rounds : net[x] \in Int /\ net2[x] \in Int
  <2>1. \A x \in Rounds : /\ given[x][r] \in Nat /\ back[x][r] \in Nat
                          /\ given2[x][r] \in Nat /\ back2[x][r] \in Nat
    BY DEF Ledger
  <2>. QED
    BY <2>1
<1>2. \A x \in Rounds \ {e} : net2[x] = net[x]
  OBVIOUS
<1>3. IsFiniteSet(Rounds)
  BY TreasuryConstants
<1>4. /\ UsedIn(given, back, r) = SumFunctionOnSet(net, Rounds)
      /\ UsedIn(given2, back2, r) = SumFunctionOnSet(net2, Rounds)
  BY DEF UsedIn
<1>5. net[e] = given[e][r] - back[e][r] /\ net2[e] = given2[e][r] - back2[e][r]
  OBVIOUS
<1>. HIDE DEF net, net2
<1>. QED
  BY <1>1, <1>2, <1>3, <1>4, <1>5, SumUpdate

LEMMA LeftIsNat ==
  ASSUME NEW kind, NEW given \in Ledger, NEW back \in Ledger, Conserved(kind, given, back),
         NEW r \in Receipts
  PROVE  /\ LeftIn(kind, given, back, r) \in Nat
         /\ UsedIn(given, back, r) \in Nat
<1>1. UsedIn(given, back, r) \in Nat
  BY UsedIsNat DEF Conserved
<1>2. Amount[r] \in Nat
  BY TreasuryConstants
<1>. QED
  BY <1>1, <1>2 DEF Conserved, LeftIn

(* A round takes and the receipts have that much less. *)
LEMMA RoundTakes ==
  ASSUME NEW kind, NEW given \in Ledger, NEW back \in Ledger, Conserved(kind, given, back),
         NEW e \in Rounds, NEW part \in [Receipts -> Nat],
         \A r \in Receipts : /\ given[e][r] = 0 /\ back[e][r] = 0
                             /\ part[r] <= LeftIn(kind, given, back, r),
         NEW given2 \in Ledger, given2[e] = part,
         \A x \in Rounds \ {e} : given2[x] = given[x]
  PROVE  /\ Conserved(kind, given2, back)
         /\ LeftInAll(kind, given2, back) =
              LeftInAll(kind, given, back) - SumFunctionOnSet(part, Receipts)
<1>2. given2[e] = part /\ \A x \in Rounds \ {e} : given2[x] = given[x]
  OBVIOUS
<1>3. ASSUME NEW r \in Receipts
      PROVE  /\ UsedIn(given2, back, r) = UsedIn(given, back, r) + part[r]
             /\ UsedIn(given, back, r) \in Nat /\ part[r] \in Nat
             /\ LeftIn(kind, given, back, r) \in Nat
             /\ LeftIn(kind, given2, back, r) = LeftIn(kind, given, back, r) - part[r]
  <2>1. UsedIn(given2, back, r) = UsedIn(given, back, r)
            + ((given2[e][r] - back[e][r]) - (given[e][r] - back[e][r]))
    <3>1. PICK back2 \in Ledger : back2 = back
      OBVIOUS
    <3>2. \A x \in Rounds \ {e} : given2[x][r] = given[x][r] /\ back2[x][r] = back[x][r]
      BY <1>2, <3>1
    <3>3. UsedIn(given2, back2, r) = UsedIn(given, back, r)
            + ((given2[e][r] - back2[e][r]) - (given[e][r] - back[e][r]))
      BY <3>2, UsedMoves
    <3>. QED
      BY <3>1, <3>3, Zenon
  <2>2. given2[e][r] = part[r] /\ part[r] \in Nat /\ given[e][r] = 0 /\ back[e][r] = 0
    BY <1>2
  <2>3. UsedIn(given, back, r) \in Nat /\ LeftIn(kind, given, back, r) \in Nat
    BY LeftIsNat
  <2>4. UsedIn(given2, back, r) = UsedIn(given, back, r) + part[r]
    BY <2>1, <2>2, <2>3
  <2>5. Amount[r] \in Nat /\ part[r] <= LeftIn(kind, given, back, r)
    BY TreasuryConstants
  <2>6. LeftIn(kind, given2, back, r) = LeftIn(kind, given, back, r) - part[r]
    BY <2>2, <2>3, <2>4, <2>5 DEF LeftIn
  <2>. QED
    BY <2>2, <2>3, <2>4, <2>6
<1>4. Conserved(kind, given2, back)
  <2>1. ASSUME NEW r \in Receipts
        PROVE  UsedIn(given2, back, r) <= (IF kind[r] = "creator_fee" THEN Amount[r] ELSE 0)
    <3>1. /\ part[r] <= LeftIn(kind, given, back, r) /\ Amount[r] \in Nat
          /\ UsedIn(given2, back, r) = UsedIn(given, back, r) + part[r]
          /\ UsedIn(given, back, r) \in Nat /\ part[r] \in Nat
      BY <1>3, TreasuryConstants
    <3>2. UsedIn(given, back, r) <= (IF kind[r] = "creator_fee" THEN Amount[r] ELSE 0)
      BY DEF Conserved
    <3>3. LeftIn(kind, given, back, r) =
             IF kind[r] = "creator_fee" THEN Amount[r] - UsedIn(given, back, r) ELSE 0
      BY DEF LeftIn
    <3>. QED
      BY <3>1, <3>2, <3>3
  <2>2. \A r \in Receipts, x \in Rounds : back[x][r] <= given2[x][r]
    <3>1. \A r \in Receipts : back[e][r] <= given2[e][r]
      BY <1>2
    <3>. QED
      BY <1>2, <3>1 DEF Conserved
  <2>. QED
    BY <2>1, <2>2 DEF Conserved
<1>5. LeftInAll(kind, given2, back) =
        LeftInAll(kind, given, back) - SumFunctionOnSet(part, Receipts)
  <2>. DEFINE f == [r \in Receipts |-> LeftIn(kind, given, back, r)]
              g == [r \in Receipts |-> LeftIn(kind, given2, back, r)]
  <2>1. ASSUME NEW r \in Receipts
        PROVE  f[r] \in Int /\ part[r] \in Int /\ g[r] = f[r] - part[r]
    <3>1. f[r] = LeftIn(kind, given, back, r) /\ g[r] = LeftIn(kind, given2, back, r)
      OBVIOUS
    <3>2. LeftIn(kind, given, back, r) \in Int /\ part[r] \in Int
      BY <1>3
    <3>3. LeftIn(kind, given2, back, r) = LeftIn(kind, given, back, r) - part[r]
      BY <1>3
    <3>. HIDE DEF f, g
    <3>. QED
      BY <3>1, <3>2, <3>3, Zenon
  <2>2. IsFiniteSet(Receipts)
    BY TreasuryConstants
  <2>. HIDE DEF f, g
  <2>3. SumFunctionOnSet(g, Receipts) = SumFunctionOnSet(f, Receipts) - SumFunctionOnSet(part, Receipts)
    BY <2>1, <2>2, SumMinus
  <2>. QED
    BY <2>3 DEF f, g, LeftInAll
<1>. QED
  BY <1>4, <1>5

(* A round returns and the receipts have that much more. *)
LEMMA RoundReturns ==
  ASSUME NEW kind, NEW given \in Ledger, NEW back \in Ledger, Conserved(kind, given, back),
         NEW e \in Rounds, NEW part \in [Receipts -> Nat],
         \A r \in Receipts : back[e][r] = 0 /\ part[r] <= given[e][r],
         NEW back2 \in Ledger, back2[e] = part,
         \A x \in Rounds \ {e} : back2[x] = back[x]
  PROVE  /\ Conserved(kind, given, back2)
         /\ LeftInAll(kind, given, back2) =
              LeftInAll(kind, given, back) + SumFunctionOnSet(part, Receipts)
<1>2. back2[e] = part /\ \A x \in Rounds \ {e} : back2[x] = back[x]
  OBVIOUS
<1>3. ASSUME NEW r \in Receipts
      PROVE  /\ UsedIn(given, back2, r) = UsedIn(given, back, r) - part[r]
             /\ UsedIn(given, back, r) \in Nat /\ part[r] \in Nat
             /\ LeftIn(kind, given, back, r) \in Nat
             /\ LeftIn(kind, given, back2, r) = LeftIn(kind, given, back, r) + part[r]
  <2>1. UsedIn(given, back2, r) = UsedIn(given, back, r)
            + ((given[e][r] - back2[e][r]) - (given[e][r] - back[e][r]))
    <3>1. PICK given2 \in Ledger : given2 = given
      OBVIOUS
    <3>2. \A x \in Rounds \ {e} : given2[x][r] = given[x][r] /\ back2[x][r] = back[x][r]
      BY <1>2, <3>1
    <3>3. UsedIn(given2, back2, r) = UsedIn(given, back, r)
            + ((given2[e][r] - back2[e][r]) - (given[e][r] - back[e][r]))
      BY <3>2, UsedMoves
    <3>. QED
      BY <3>1, <3>3, Zenon
  <2>2. /\ back2[e][r] = part[r] /\ part[r] \in Nat /\ back[e][r] = 0
        /\ given[e][r] \in Nat /\ part[r] <= given[e][r]
    BY <1>2 DEF Ledger
  <2>3. UsedIn(given, back, r) \in Nat /\ LeftIn(kind, given, back, r) \in Nat
    BY LeftIsNat
  <2>4. UsedIn(given, back2, r) = UsedIn(given, back, r) - part[r]
    BY <2>1, <2>2, <2>3
  <2>5. Amount[r] \in Nat
    BY TreasuryConstants
  <2>6. kind[r] # "creator_fee" => part[r] = 0
    <3>1. given[e][r] - back[e][r] <= UsedIn(given, back, r)
      BY UsedIsNat DEF Conserved
    <3>2. kind[r] # "creator_fee" => UsedIn(given, back, r) <= 0
      BY DEF Conserved
    <3>. QED
      BY <2>2, <2>3, <3>1, <3>2
  <2>7. LeftIn(kind, given, back2, r) = LeftIn(kind, given, back, r) + part[r]
    BY <2>2, <2>3, <2>4, <2>5, <2>6 DEF LeftIn
  <2>. QED
    BY <2>2, <2>3, <2>4, <2>7
<1>4. Conserved(kind, given, back2)
  <2>1. ASSUME NEW r \in Receipts
        PROVE  UsedIn(given, back2, r) <= (IF kind[r] = "creator_fee" THEN Amount[r] ELSE 0)
    <3>1. UsedIn(given, back, r) <= (IF kind[r] = "creator_fee" THEN Amount[r] ELSE 0)
      BY DEF Conserved
    <3>2. /\ UsedIn(given, back2, r) = UsedIn(given, back, r) - part[r] /\ Amount[r] \in Nat
          /\ UsedIn(given, back, r) \in Nat /\ part[r] \in Nat
      BY <1>3, TreasuryConstants
    <3>. QED
      BY <3>1, <3>2
  <2>2. \A r \in Receipts, x \in Rounds : back2[x][r] <= given[x][r]
    BY <1>2 DEF Conserved
  <2>. QED
    BY <2>1, <2>2 DEF Conserved
<1>5. LeftInAll(kind, given, back2) =
        LeftInAll(kind, given, back) + SumFunctionOnSet(part, Receipts)
  <2>. DEFINE f == [r \in Receipts |-> LeftIn(kind, given, back, r)]
              g == [r \in Receipts |-> LeftIn(kind, given, back2, r)]
  <2>1. ASSUME NEW r \in Receipts
        PROVE  f[r] \in Int /\ part[r] \in Int /\ g[r] = f[r] + part[r]
    <3>1. f[r] = LeftIn(kind, given, back, r) /\ g[r] = LeftIn(kind, given, back2, r)
      OBVIOUS
    <3>2. LeftIn(kind, given, back, r) \in Int /\ part[r] \in Int
      BY <1>3
    <3>3. LeftIn(kind, given, back2, r) = LeftIn(kind, given, back, r) + part[r]
      BY <1>3
    <3>. HIDE DEF f, g
    <3>. QED
      BY <3>1, <3>2, <3>3, Zenon
  <2>2. IsFiniteSet(Receipts)
    BY TreasuryConstants
  <2>. HIDE DEF f, g
  <2>3. SumFunctionOnSet(g, Receipts) = SumFunctionOnSet(f, Receipts) + SumFunctionOnSet(part, Receipts)
    BY <2>1, <2>2, SumPlus
  <2>. QED
    BY <2>3 DEF f, g, LeftInAll
<1>. QED
  BY <1>4, <1>5

(* A new creator receipt has all of its amount left, another one adds nothing. *)
LEMMA ReceiptArrives ==
  ASSUME NEW kind, NEW given \in Ledger, NEW back \in Ledger, Conserved(kind, given, back),
         NEW r \in Receipts, kind[r] = "none",
         NEW kind2, \A x \in Receipts \ {r} : kind2[x] = kind[x]
  PROVE  /\ Conserved(kind2, given, back)
         /\ LeftInAll(kind2, given, back) =
              LeftInAll(kind, given, back) + (IF kind2[r] = "creator_fee" THEN Amount[r] ELSE 0)
<1>1. \A x \in Receipts \ {r} : kind2[x] = kind[x]
  OBVIOUS
<1>2. Amount[r] \in Nat /\ IsFiniteSet(Receipts)
  BY TreasuryConstants
<1>3. UsedIn(given, back, r) = 0
  <2>1. UsedIn(given, back, r) \in Nat /\ UsedIn(given, back, r) <= 0
    BY LeftIsNat DEF Conserved
  <2>. QED
    BY <2>1
<1>4. Conserved(kind2, given, back)
  <2>1. ASSUME NEW x \in Receipts
        PROVE  UsedIn(given, back, x) <= (IF kind2[x] = "creator_fee" THEN Amount[x] ELSE 0)
    <3>1. CASE x = r
      BY <1>2, <1>3, <3>1
    <3>2. CASE x # r
      BY <1>1, <3>2 DEF Conserved
    <3>. QED
      BY <3>1, <3>2
  <2>. QED
    BY <2>1 DEF Conserved
<1>5. LeftInAll(kind2, given, back) =
        LeftInAll(kind, given, back) + (IF kind2[r] = "creator_fee" THEN Amount[r] ELSE 0)
  <2>. DEFINE f == [x \in Receipts |-> LeftIn(kind, given, back, x)]
              g == [x \in Receipts |-> LeftIn(kind2, given, back, x)]
  <2>1. \A x \in Receipts : f[x] \in Int /\ g[x] \in Int
    BY <1>4, LeftIsNat
  <2>2. \A x \in Receipts \ {r} : g[x] = f[x]
    BY <1>1 DEF LeftIn
  <2>3. f[r] = 0 /\ g[r] = IF kind2[r] = "creator_fee" THEN Amount[r] ELSE 0
    BY <1>1, <1>2, <1>3 DEF LeftIn
  <2>. HIDE DEF f, g
  <2>4. SumFunctionOnSet(g, Receipts) = SumFunctionOnSet(f, Receipts) + (g[r] - f[r])
    BY <1>2, <2>1, <2>2, SumUpdate
  <2>5. g[r] - f[r] = IF kind2[r] = "creator_fee" THEN Amount[r] ELSE 0
    BY <1>2, <2>3
  <2>. QED
    BY <2>4, <2>5 DEF f, g, LeftInAll
<1>. QED
  BY <1>4, <1>5

-----------------------------------------------------------------------------
(* Claims and batches *)

(* Batches and entitlements fit together: a claim is paid in full or not at all, what *)
(* is in a batch is owed and in no other batch, and a leg still to be bought has      *)
(* credited nobody.                                                                   *)
PaidInFullOrNot ==
    \A k \in Claims : paid[k] = 0 \/ (paid[k] = entitled[k] /\ entitled[k] > 0)

BatchesAreClaims == \A b \in DOMAIN reserved : b \subseteq Claims /\ b # {}

UnboughtCreditsNobody ==
    \A k \in Claims : swap[<<k[1], k[2]>>] # "finalized" => entitled[k] = 0

NewRoundsAreUnbought == \A l \in Legs : epoch[l[1]] = "none" => swap[l] = "none"

ClaimInv ==
    /\ PaidInFullOrNot
    /\ BatchesAreClaims
    /\ OneBatchPerClaim
    /\ UnboughtCreditsNobody
    /\ NewRoundsAreUnbought
    /\ entitled \in [Claims -> Nat] /\ paid \in [Claims -> Nat]
    /\ swap \in [Legs -> Statuses] /\ DOMAIN epoch = Rounds

(* Nothing that leaves entitlements, payments, batches and legs alone disturbs a claim. *)
LEMMA ClaimsFrozen ==
  ASSUME ClaimInv, UNCHANGED <<entitled, paid, reserved, swap>>,
         DOMAIN epoch' = Rounds, \A e \in Rounds : epoch'[e] = "none" => epoch[e] = "none"
  PROVE  ClaimInv' /\ Stage' = Stage
<1>1. PaidInFullOrNot' /\ BatchesAreClaims' /\ UnboughtCreditsNobody'
  BY DEF ClaimInv, PaidInFullOrNot, BatchesAreClaims, UnboughtCreditsNobody
<1>2. OneBatchPerClaim'
  BY DEF ClaimInv, OneBatchPerClaim
<1>3. Stage' = Stage
  BY DEF Stage, InBatch
<1>4. NewRoundsAreUnbought'
  BY DEF ClaimInv, NewRoundsAreUnbought, Legs
<1>. QED
  BY <1>1, <1>2, <1>3, <1>4 DEF ClaimInv

(* The stages of a set of claims move together; those of the others stay. *)
LEMMA StagesMove ==
  ASSUME NEW C, C \in SUBSET Claims, NEW from, NEW to,
         C # {},
         \A k \in C : Stage[k] = from /\ Stage'[k] = to,
         \A k \in Claims \ C : Stage'[k] = Stage[k]
  PROVE  Promise!Advance(C, from, to)
<1>1. Stage' = [k \in Claims |-> Stage'[k]]
  BY DEF Stage
<1>2. Stage' = [k \in Claims |-> IF k \in C THEN to ELSE Stage[k]]
  BY <1>1
<1>. QED
  BY <1>2 DEF Promise!Advance

LEMMA StagesStay ==
  ASSUME \A k \in Claims : Stage'[k] = Stage[k]
  PROVE  Stage' = Stage
<1>1. Stage' = [k \in Claims |-> Stage'[k]] /\ Stage = [k \in Claims |-> Stage[k]]
  BY DEF Stage
<1>. QED
  BY <1>1

(* A purchase credits claims that did not exist. *)
LEMMA SwapCredits ==
  ASSUME ClaimInv, NEW e \in Rounds, NEW a \in Assets, NEW out, NEW charge,
         FinalizeSwap(e, a, out, charge)
  PROVE  ClaimInv' /\ (Promise!Next \/ Stage' = Stage)
<1>. DEFINE New == {k \in Claims : k[1] = e /\ k[2] = a /\ entitled'[k] # 0}
<1>1. /\ swap[<<e, a>>] = "planned"
      /\ <<e, a>> \in Legs
      /\ swap' = [swap EXCEPT ![<<e, a>>] = "finalized"]
      /\ UNCHANGED <<paid, reserved>>
  BY DEF FinalizeSwap, Legs
<1>2. \A k \in Claims : k[1] = e /\ k[2] = a => entitled[k] = 0
  BY <1>1 DEF ClaimInv, UnboughtCreditsNobody
<1>3. /\ \A k \in Claims : ~(k[1] = e /\ k[2] = a) => entitled'[k] = entitled[k]
      /\ entitled' \in [Claims -> Nat]
  BY DEF FinalizeSwap, ClaimInv
<1>4. \A k \in Claims : k[1] = e /\ k[2] = a => paid[k] = 0 /\ ~InBatch(k)
  BY <1>2 DEF ClaimInv, PaidInFullOrNot, OneBatchPerClaim, InBatch
<1>5. PaidInFullOrNot'
  BY <1>1, <1>3, <1>4 DEF ClaimInv, PaidInFullOrNot
<1>6. OneBatchPerClaim' /\ BatchesAreClaims'
  <2>1. \A b \in DOMAIN reserved : \A k \in b : entitled'[k] = entitled[k]
    BY <1>3, <1>4 DEF ClaimInv, BatchesAreClaims, InBatch
  <2>. QED
    BY <1>1, <2>1 DEF ClaimInv, OneBatchPerClaim, BatchesAreClaims
<1>7. UnboughtCreditsNobody' /\ swap' \in [Legs -> Statuses]
  <2>1. \A l \in Legs : l # <<e, a>> => swap'[l] = swap[l]
    BY <1>1 DEF ClaimInv
  <2>2. \A k \in Claims : <<k[1], k[2]>> \in Legs
    BY DEF Claims, Legs
  <2>3. swap'[<<e, a>>] = "finalized"
    BY <1>1 DEF ClaimInv
  <2>4. swap' \in [Legs -> Statuses]
    BY <1>1 DEF ClaimInv, Statuses
  <2>. QED
    BY <1>3, <2>1, <2>2, <2>3, <2>4 DEF ClaimInv, UnboughtCreditsNobody
<1>13. DOMAIN epoch' = Rounds /\ NewRoundsAreUnbought'
  <2>1. epoch' = [epoch EXCEPT ![e] = Refreshed(e, swap')] /\ Refreshed(e, swap') # "none"
    BY DEF FinalizeSwap, Refreshed
  <2>2. \A l \in Legs : l # <<e, a>> => swap'[l] = swap[l]
    BY <1>1 DEF ClaimInv
  <2>. QED
    BY <1>1, <2>1, <2>2 DEF ClaimInv, NewRoundsAreUnbought, Legs
<1>8. ClaimInv'
  BY <1>1, <1>3, <1>5, <1>6, <1>7, <1>13 DEF ClaimInv
<1>9. \A k \in Claims \ New : Stage'[k] = Stage[k]
  BY <1>1, <1>2, <1>3 DEF Stage, InBatch
<1>10. \A k \in New : Stage[k] = "none" /\ Stage'[k] = "owed"
  BY <1>1, <1>2, <1>4 DEF Stage, InBatch
<1>11. CASE New = {}
  BY <1>8, <1>9, <1>11, StagesStay
<1>12. CASE New # {}
  <2>. HIDE DEF New
  <2>1. New \in SUBSET Claims
    BY DEF New
  <2>2. Promise!Advance(New, "none", "owed")
    BY <1>9, <1>10, <1>12, <2>1, StagesMove
  <2>. QED
    BY <1>8, <2>1, <2>2 DEF Promise!Next
<1>. QED
  BY <1>11, <1>12

(* A payout reserves claims that were owed and in no batch. *)
LEMMA PayoutReserves ==
  ASSUME ClaimInv, NEW a \in Assets, NEW owners \in SUBSET Owners, SchedulePayout(a, owners)
  PROVE  ClaimInv' /\ Promise!Next
<1>. DEFINE batch == UNION {Unbatched(a, o) : o \in owners}
<1>1. /\ UNCHANGED <<entitled, paid, swap, epoch>>
      /\ DOMAIN reserved' = DOMAIN reserved \cup {batch}
  BY DEF SchedulePayout, roundVars
<1>2. batch # {} /\ batch \in SUBSET Claims
  BY DEF SchedulePayout, Unbatched
<1>3. \A k \in batch : paid[k] < entitled[k] /\ ~InBatch(k)
  BY DEF Unbatched
<1>. HIDE DEF batch
<1>4. \A k \in batch : paid[k] = 0 /\ entitled[k] > 0
  BY <1>2, <1>3 DEF ClaimInv, PaidInFullOrNot
<1>5. \A b \in DOMAIN reserved : b \cap batch = {}
  BY <1>3 DEF InBatch
<1>6. OneBatchPerClaim'
  BY <1>1, <1>4, <1>5 DEF ClaimInv, OneBatchPerClaim
<1>7. ClaimInv'
  BY <1>1, <1>2, <1>6 DEF ClaimInv, PaidInFullOrNot, BatchesAreClaims, UnboughtCreditsNobody,
                          NewRoundsAreUnbought
<1>8. \A k \in batch : Stage[k] = "owed" /\ Stage'[k] = "reserved"
  BY <1>1, <1>2, <1>3, <1>4 DEF Stage, InBatch
<1>9. \A k \in Claims \ batch : Stage'[k] = Stage[k]
  BY <1>1 DEF Stage, InBatch
<1>10. Promise!Advance(batch, "owed", "reserved")
  BY <1>2, <1>8, <1>9, StagesMove
<1>. QED
  BY <1>2, <1>7, <1>10 DEF Promise!Next

(* A finalized payout delivers its whole batch. *)
LEMMA PayoutDelivers ==
  ASSUME ClaimInv, NEW b \in DOMAIN reserved, NEW charge, FinalizePayout(b, charge)
  PROVE  ClaimInv' /\ Promise!Next
<1>1. /\ UNCHANGED <<entitled, swap, epoch>>
      /\ DOMAIN reserved' = DOMAIN reserved \ {b}
      /\ paid' = [k \in Claims |-> IF k \in b THEN entitled[k] ELSE paid[k]]
  BY DEF FinalizePayout, roundVars
<1>2. b # {} /\ b \in SUBSET Claims
  BY DEF ClaimInv, BatchesAreClaims
<1>3. \A k \in b : paid[k] = 0 /\ entitled[k] > 0
  BY DEF ClaimInv, OneBatchPerClaim
<1>4. \A c \in DOMAIN reserved : c # b => b \cap c = {}
  BY DEF ClaimInv, OneBatchPerClaim
<1>5. PaidInFullOrNot'
  BY <1>1, <1>3 DEF ClaimInv, PaidInFullOrNot
<1>6. BatchesAreClaims' /\ UnboughtCreditsNobody'
  BY <1>1 DEF ClaimInv, BatchesAreClaims, UnboughtCreditsNobody
<1>7. OneBatchPerClaim'
  <2>1. \A c \in DOMAIN reserved' : \A k \in c : k \in Claims /\ paid'[k] = paid[k]
    BY <1>1, <1>4 DEF ClaimInv, BatchesAreClaims
  <2>. QED
    BY <1>1, <2>1 DEF ClaimInv, OneBatchPerClaim
<1>8. ClaimInv'
  BY <1>1, <1>2, <1>5, <1>6, <1>7 DEF ClaimInv, NewRoundsAreUnbought
<1>9. \A k \in b : Stage[k] = "reserved" /\ Stage'[k] = "paid"
  BY <1>1, <1>2, <1>3 DEF Stage, InBatch
<1>10. \A k \in Claims \ b : Stage'[k] = Stage[k]
  BY <1>1 DEF Stage, InBatch
<1>11. Promise!Advance(b, "reserved", "paid")
  BY <1>2, <1>9, <1>10, StagesMove
<1>. QED
  BY <1>2, <1>8, <1>11 DEF Promise!Next

(* Committing a round plans legs that were never bought. *)
LEMMA PlanCreditsNobody ==
  ASSUME ClaimInv, NEW e \in Rounds, NEW f, NEW balance, Plan(e, f, balance)
  PROVE  ClaimInv' /\ Stage' = Stage
<1>1. /\ UNCHANGED <<entitled, paid, reserved>>
      /\ swap' = [l \in Legs |-> IF l[1] = e THEN "planned" ELSE swap[l]]
      /\ epoch[e] = "none" /\ epoch' = [epoch EXCEPT ![e] = "funded"]
  BY DEF Plan, claimVars
<1>2. \A k \in Claims : <<k[1], k[2]>> \in Legs
  BY DEF Claims, Legs
<1>3. UnboughtCreditsNobody'
  BY <1>1, <1>2 DEF ClaimInv, UnboughtCreditsNobody, NewRoundsAreUnbought
<1>4. PaidInFullOrNot' /\ BatchesAreClaims' /\ OneBatchPerClaim'
  BY <1>1 DEF ClaimInv, PaidInFullOrNot, BatchesAreClaims, OneBatchPerClaim
<1>5. Stage' = Stage
  BY <1>1 DEF Stage, InBatch
<1>6. swap' \in [Legs -> Statuses] /\ DOMAIN epoch' = Rounds
  BY <1>1 DEF ClaimInv, Statuses
<1>7. NewRoundsAreUnbought'
  BY <1>1 DEF ClaimInv, NewRoundsAreUnbought, Legs
<1>. QED
  BY <1>1, <1>3, <1>4, <1>5, <1>6, <1>7 DEF ClaimInv

(* The other operations leave the claims alone. *)
LEMMA OthersLeaveClaims ==
  ASSUME ClaimInv,
         \/ \E r \in Receipts, c \in Classes : Ingest(r, c)
         \/ \E r \in Receipts : IngestCapital(r) \/ Reclassify(r)
         \/ \E e \in Rounds, out \in Outputs, c \in Charges : FinalizeBuyback(e, out, c)
         \/ \E e \in Rounds, c \in Charges : FinalizeBurn(e, c) \/ FailRoundAttempt(e, c)
         \/ \E e \in Rounds : ReturnUnusedCosts(e)
         \/ \E c \in Charges : FailPayoutAttempt(c)
         \/ NewDay \/ TogglePause \/ UNCHANGED vars
  PROVE  ClaimInv' /\ Stage' = Stage
<1>. USE DEF roundVars, claimVars, useVars
<1>1. UNCHANGED <<entitled, paid, reserved, swap>>
  BY DEF Ingest, IngestCapital, Reclassify, FinalizeBuyback, FinalizeBurn, FailRoundAttempt,
         ReturnUnusedCosts, FailPayoutAttempt, NewDay, TogglePause, vars
<1>2. DOMAIN epoch' = Rounds /\ \A e \in Rounds : epoch'[e] = "none" => epoch[e] = "none"
  <2>1. CASE \/ \E e \in Rounds, out \in Outputs, c \in Charges : FinalizeBuyback(e, out, c)
             \/ \E e \in Rounds, c \in Charges : FinalizeBurn(e, c)
    BY <2>1 DEF FinalizeBuyback, FinalizeBurn, Refreshed, ClaimInv
  <2>2. CASE UNCHANGED epoch
    BY <2>2 DEF ClaimInv
  <2>. QED
    BY <2>1, <2>2 DEF Ingest, IngestCapital, Reclassify, FailRoundAttempt, ReturnUnusedCosts,
                      FailPayoutAttempt, NewDay, TogglePause, vars
<1>. QED
  BY <1>1, <1>2, ClaimsFrozen

LEMMA ClaimStep ==
  ASSUME ClaimInv, [Next]_vars
  PROVE  ClaimInv' /\ [Promise!Next]_Stage
<1>1. CASE \E e \in Rounds, f \in Fundings, b \in Snapshots : Plan(e, f, b)
  BY <1>1, PlanCreditsNobody
<1>2. CASE \E e \in Rounds, a \in Assets, out \in Outputs, c \in Charges :
              FinalizeSwap(e, a, out, c)
  BY <1>2, SwapCredits
<1>3. CASE \E a \in Assets, owners \in SUBSET Owners : SchedulePayout(a, owners)
  BY <1>3, PayoutReserves
<1>4. CASE \E b \in DOMAIN reserved, c \in Charges : FinalizePayout(b, c)
  BY <1>4, PayoutDelivers
<1>. QED
  BY <1>1, <1>2, <1>3, <1>4, OthersLeaveClaims DEF Next

LEMMA ClaimsStart == Init => ClaimInv /\ Promise!Init
<1>. SUFFICES ASSUME Init PROVE ClaimInv /\ Promise!Init
  OBVIOUS
<1>1. /\ entitled = [k \in Claims |-> 0] /\ paid = [k \in Claims |-> 0]
      /\ DOMAIN reserved = {} /\ swap = [l \in Legs |-> "none"]
      /\ epoch = [e \in Rounds |-> "none"]
  BY DEF Init
<1>2. PaidInFullOrNot /\ BatchesAreClaims /\ OneBatchPerClaim /\ UnboughtCreditsNobody
  BY <1>1 DEF PaidInFullOrNot, BatchesAreClaims, OneBatchPerClaim, UnboughtCreditsNobody
<1>3. NewRoundsAreUnbought
  BY <1>1 DEF NewRoundsAreUnbought
<1>4. ClaimInv
  BY <1>1, <1>2, <1>3 DEF ClaimInv, Statuses
<1>5. Promise!Init
  BY <1>1 DEF Promise!Init, Stage
<1>. QED
  BY <1>4, <1>5

-----------------------------------------------------------------------------
(* What the accounts owe *)

LEMMA ClaimsAreFinite == IsFiniteSet(Claims)
<1>. DEFINE T == Rounds \X (Assets \X Owners)
            m == [k \in Claims |-> <<k[1], <<k[2], k[3]>>>>]
<1>1. IsFiniteSet(T)
  <2>1. IsFiniteSet(Rounds) /\ IsFiniteSet(Assets) /\ IsFiniteSet(Owners)
    BY TreasuryConstants
  <2>2. IsFiniteSet(Assets \X Owners)
    BY <2>1, FS_Product
  <2>. QED
    BY <2>1, <2>2, FS_Product
<1>2. m \in [Claims -> T] /\ \A x, y \in Claims : m[x] = m[y] => x = y
  BY DEF Claims
<1>. HIDE DEF m, T
<1>3. m \in Injection(Claims, T)
  BY <1>2, Zenon DEF Injection, IsInjective
<1>. QED
  BY <1>1, <1>3, FS_Injection

(* The claims to an asset, those of them in no batch, and what each is still owed. *)
Of(a) == {k \in Claims : k[2] = a}
FreeOf(batches, a) == {k \in Of(a) : \A b \in batches : k \notin b}
Due(en, pa) == [k \in Claims |-> en[k] - pa[k]]

(* ClaimsAreBacked over given balances, batches and entitlements. *)
Backed(li, res, de, en, pa) ==
    /\ \A a \in Assets : /\ li[a] = SumFunctionOnSet(Due(en, pa), FreeOf(DOMAIN res, a))
                         /\ de[a] = SumFunctionOnSet(pa, Of(a))
    /\ \A b \in DOMAIN res : res[b] = SumFunctionOnSet(Due(en, pa), b)
    /\ \A b \in DOMAIN res : \E a \in Assets : b \subseteq Of(a)

LEMMA ClaimSets ==
  /\ \A a : IsFiniteSet(Of(a)) /\ Of(a) \in SUBSET Claims
  /\ \A batches, a : IsFiniteSet(FreeOf(batches, a)) /\ FreeOf(batches, a) \in SUBSET Of(a)
  /\ \A b \in SUBSET Claims : IsFiniteSet(b)
<1>1. \A b \in SUBSET Claims : IsFiniteSet(b)
  BY ClaimsAreFinite, FS_Subset
<1>2. \A a : Of(a) \in SUBSET Claims
  BY DEF Of
<1>3. \A batches, a : FreeOf(batches, a) \in SUBSET Of(a) /\ FreeOf(batches, a) \in SUBSET Claims
  BY <1>2 DEF FreeOf
<1>. QED
  BY <1>1, <1>2, <1>3

(* What a claim that is in no batch or in a batch is owed is an integer. *)
LEMMA DueIsInt ==
  ASSUME NEW en \in [Claims -> Nat], NEW pa \in [Claims -> Nat]
  PROVE  \A k \in Claims : Due(en, pa)[k] = en[k] - pa[k] /\ Due(en, pa)[k] \in Int
BY DEF Due

(* A purchase credits claims of one asset that were not owed anything. *)
LEMMA CreditBacked ==
  ASSUME NEW li, NEW res, NEW de, NEW en \in [Claims -> Nat], NEW pa \in [Claims -> Nat],
         Backed(li, res, de, en, pa), DOMAIN li = Assets,
         NEW a \in Assets, NEW N \in SUBSET Of(a), NEW out \in Nat, NEW en2 \in [Claims -> Nat],
         \A k \in N : en[k] = 0 /\ pa[k] = 0 /\ \A b \in DOMAIN res : k \notin b,
         \A k \in Claims \ N : en2[k] = en[k],
         SumFunctionOnSet(en2, N) = out,
         NEW li2, li2[a] = li[a] + out, \A x \in Assets \ {a} : li2[x] = li[x]
  PROVE  Backed(li2, res, de, en2, pa)
<1>. DEFINE B == DOMAIN res
            due == Due(en, pa)
            due2 == Due(en2, pa)
<1>1. /\ \A k \in Claims : due[k] = en[k] - pa[k] /\ due[k] \in Int
      /\ \A k \in Claims : due2[k] = en2[k] - pa[k] /\ due2[k] \in Int
      /\ \A k \in Claims : en[k] \in Nat /\ pa[k] \in Nat /\ en2[k] \in Nat
  BY DueIsInt
<1>. HIDE DEF due, due2
<1>2. N \in SUBSET Claims /\ \A x \in Assets : N \cap FreeOf(B, x) = (IF x = a THEN N ELSE {})
  BY DEF Of, FreeOf
<1>3. \A k \in Claims \ N : due2[k] = due[k]
  BY <1>1
<1>4. \A k \in N : due[k] = 0 /\ due2[k] = en2[k]
  BY <1>1, <1>2
<1>5. SumFunctionOnSet(due2, FreeOf(B, a)) = SumFunctionOnSet(due, FreeOf(B, a)) + out
  <2>. DEFINE F == FreeOf(B, a)
  <2>1. IsFiniteSet(F) /\ F \in SUBSET Claims /\ N \in SUBSET F
    BY <1>2, ClaimSets DEF FreeOf, Of
  <2>2. IsFiniteSet(N) /\ IsFiniteSet(F \ N)
    BY <2>1, FS_Subset, FS_Difference
  <2>. HIDE DEF F
  <2>3. SumFunctionOnSet(due2, F) = SumFunctionOnSet(due2, N) + SumFunctionOnSet(due2, F \ N)
    <3>1. \A k \in F : due2[k] \in Int
      BY <1>1, <2>1
    <3>. QED
      BY <2>1, <3>1, SumSplit
  <2>4. SumFunctionOnSet(due2, N) = out
    <3>1. SumFunctionOnSet(due2, N) = SumFunctionOnSet(en2, N)
      BY <1>4, <2>2, SumSame
    <3>. QED
      BY <3>1
  <2>5. SumFunctionOnSet(due2, F \ N) = SumFunctionOnSet(due, F \ N)
    <3>1. \A k \in F \ N : due2[k] = due[k]
      BY <1>3, <2>1
    <3>. QED
      BY <2>2, <3>1, SumSame
  <2>6. SumFunctionOnSet(due, F) = SumFunctionOnSet(due, F \ N)
    <3>1. \A k \in F : due[k] \in Int
      BY <1>1, <2>1
    <3>2. F \ N \in SUBSET F /\ \A k \in F \ (F \ N) : due[k] = 0
      BY <1>4
    <3>. QED
      BY <2>1, <3>1, <3>2, SumOfPart
  <2>7. SumFunctionOnSet(due, F) \in Int
    <3>1. \A k \in F : due[k] \in Int
      BY <1>1, <2>1
    <3>. QED
      BY <2>1, <3>1, SumInt
  <2>. QED
    BY <2>3, <2>4, <2>5, <2>6, <2>7 DEF F
<1>6. ASSUME NEW x \in Assets \ {a}
      PROVE  SumFunctionOnSet(due2, FreeOf(B, x)) = SumFunctionOnSet(due, FreeOf(B, x))
  <2>1. \A k \in FreeOf(B, x) : k \in Claims \ N
    BY <1>2, ClaimSets
  <2>2. IsFiniteSet(FreeOf(B, x))
    BY ClaimSets
  <2>. QED
    BY <1>3, <2>1, <2>2, SumSame
<1>7. ASSUME NEW b \in B
      PROVE  SumFunctionOnSet(due2, b) = SumFunctionOnSet(due, b)
  <2>1. b \in SUBSET Claims
    BY DEF Backed, Of
  <2>2. \A k \in b : due2[k] = due[k]
    BY <1>3, <2>1
  <2>3. IsFiniteSet(b)
    BY <2>1, ClaimSets
  <2>. QED
    BY <2>2, <2>3, SumSame
<1>8. /\ \A x \in Assets : /\ li[x] = SumFunctionOnSet(due, FreeOf(B, x))
                           /\ de[x] = SumFunctionOnSet(pa, Of(x))
      /\ \A b \in B : res[b] = SumFunctionOnSet(due, b) /\ \E x \in Assets : b \subseteq Of(x)
  BY DEF Backed, due
<1>9. \A x \in Assets : li2[x] = SumFunctionOnSet(due2, FreeOf(B, x))
  <2>1. li2[a] = SumFunctionOnSet(due2, FreeOf(B, a))
    BY <1>5, <1>8
  <2>. QED
    BY <1>6, <1>8, <2>1
<1>10. \A b \in B : res[b] = SumFunctionOnSet(due2, b)
  BY <1>7, <1>8
<1>. QED
  BY <1>8, <1>9, <1>10 DEF Backed, due2, B

(* A payout reserves free claims of one asset, and the account owes that much less. *)
LEMMA ReserveBacked ==
  ASSUME NEW li, NEW res, NEW de, NEW en \in [Claims -> Nat], NEW pa \in [Claims -> Nat],
         Backed(li, res, de, en, pa),
         NEW a \in Assets, NEW batch \in SUBSET FreeOf(DOMAIN res, a),
         NEW res2, DOMAIN res2 = DOMAIN res \cup {batch},
         res2[batch] = SumFunctionOnSet(Due(en, pa), batch),
         \A b \in DOMAIN res \ {batch} : res2[b] = res[b],
         NEW li2, li2[a] = li[a] - SumFunctionOnSet(Due(en, pa), batch),
         \A x \in Assets \ {a} : li2[x] = li[x]
  PROVE  /\ Backed(li2, res2, de, en, pa)
         /\ li2[a] = SumFunctionOnSet(Due(en, pa), FreeOf(DOMAIN res2, a))
<1>. DEFINE B == DOMAIN res
            B2 == DOMAIN res2
            due == Due(en, pa)
<1>1. \A k \in Claims : due[k] \in Int
  BY DueIsInt
<1>2. B2 = B \cup {batch}
  OBVIOUS
<1>3. /\ \A x \in Assets : /\ li[x] = SumFunctionOnSet(due, FreeOf(B, x))
                           /\ de[x] = SumFunctionOnSet(pa, Of(x))
      /\ \A b \in B : res[b] = SumFunctionOnSet(due, b) /\ \E x \in Assets : b \subseteq Of(x)
  BY DEF Backed
<1>4. res2[batch] = SumFunctionOnSet(due, batch) /\ \A b \in B \ {batch} : res2[b] = res[b]
  OBVIOUS
<1>5. batch \in SUBSET FreeOf(B, a) /\ li2[a] = li[a] - SumFunctionOnSet(due, batch)
  OBVIOUS
<1>. HIDE DEF due, B, B2
<1>6. FreeOf(B2, a) = FreeOf(B, a) \ batch
  BY <1>2, <1>5 DEF FreeOf
<1>7. ASSUME NEW x \in Assets \ {a} PROVE FreeOf(B2, x) = FreeOf(B, x)
  BY <1>2, <1>5 DEF FreeOf, Of
<1>8. li2[a] = SumFunctionOnSet(due, FreeOf(B2, a))
  <2>. DEFINE F == FreeOf(B, a)
  <2>1. IsFiniteSet(F) /\ F \in SUBSET Claims /\ batch \in SUBSET F
    BY <1>5, ClaimSets DEF FreeOf, Of
  <2>. HIDE DEF F
  <2>2. \A k \in F : due[k] \in Int
    BY <1>1, <2>1
  <2>3. SumFunctionOnSet(due, F) = SumFunctionOnSet(due, batch) + SumFunctionOnSet(due, F \ batch)
    BY <2>1, <2>2, SumSplit
  <2>4. IsFiniteSet(batch) /\ IsFiniteSet(F \ batch)
    BY <2>1, FS_Subset, FS_Difference
  <2>5. \A k \in batch : due[k] \in Int
    BY <2>1, <2>2
  <2>6. \A k \in F \ batch : due[k] \in Int
    BY <2>2
  <2>7. SumFunctionOnSet(due, batch) \in Int
    BY <2>4, <2>5, SumInt
  <2>8. SumFunctionOnSet(due, F \ batch) \in Int
    BY <2>4, <2>6, SumInt
  <2>9. li2[a] = SumFunctionOnSet(due, F) - SumFunctionOnSet(due, batch)
    BY <1>3, <1>5 DEF F
  <2>10. li2[a] = SumFunctionOnSet(due, F \ batch)
    BY <2>3, <2>7, <2>8, <2>9
  <2>. QED
    BY <1>6, <2>10, Zenon DEF F
<1>9. \A x \in Assets \ {a} : li2[x] = SumFunctionOnSet(due, FreeOf(B2, x))
  BY <1>3, <1>7, Zenon
<1>10. \A b \in B2 : res2[b] = SumFunctionOnSet(due, b) /\ \E x \in Assets : b \subseteq Of(x)
  BY <1>2, <1>3, <1>4, <1>5 DEF FreeOf
<1>11. \A x \in Assets : li2[x] = SumFunctionOnSet(due, FreeOf(B2, x))
  BY <1>8, <1>9
<1>. QED
  BY <1>3, <1>8, <1>10, <1>11 DEF Backed, due, B2

(* A batch of claims that were owed in full is delivered. *)
LEMMA DeliverBacked ==
  ASSUME NEW li, NEW res, NEW de, NEW en \in [Claims -> Nat], NEW pa \in [Claims -> Nat],
         Backed(li, res, de, en, pa),
         NEW b \in DOMAIN res, \A k \in b : pa[k] = 0,
         \A c \in DOMAIN res : c # b => c \cap b = {},
         NEW a \in Assets, b \subseteq Of(a),
         NEW res2, DOMAIN res2 = DOMAIN res \ {b}, \A c \in DOMAIN res2 : res2[c] = res[c],
         NEW pa2 \in [Claims -> Nat],
         \A k \in Claims : pa2[k] = IF k \in b THEN en[k] ELSE pa[k],
         NEW de2, de2[a] = de[a] + res[b], \A x \in Assets \ {a} : de2[x] = de[x]
  PROVE  Backed(li, res2, de2, en, pa2)
<1>. DEFINE B == DOMAIN res
            B2 == DOMAIN res2
            due == Due(en, pa)
            due2 == Due(en, pa2)
<1>1. /\ \A k \in Claims : due[k] = en[k] - pa[k] /\ due[k] \in Int
      /\ \A k \in Claims : due2[k] = en[k] - pa2[k] /\ due2[k] \in Int
      /\ \A k \in Claims : en[k] \in Int /\ pa[k] \in Int /\ pa2[k] \in Int
  <2>1. \A k \in Claims : due[k] = en[k] - pa[k] /\ due[k] \in Int
    BY DueIsInt
  <2>2. \A k \in Claims : due2[k] = en[k] - pa2[k] /\ due2[k] \in Int
    BY DueIsInt
  <2>3. \A k \in Claims : en[k] \in Int /\ pa[k] \in Int /\ pa2[k] \in Int
    OBVIOUS
  <2>. QED
    BY <2>1, <2>2, <2>3
<1>2. B2 = B \ {b} /\ b \in SUBSET Of(a) /\ b \in SUBSET Claims /\ IsFiniteSet(b)
  BY ClaimSets DEF Of
<1>3. /\ \A x \in Assets : /\ li[x] = SumFunctionOnSet(due, FreeOf(B, x))
                           /\ de[x] = SumFunctionOnSet(pa, Of(x))
      /\ \A c \in B : res[c] = SumFunctionOnSet(due, c) /\ \E x \in Assets : c \subseteq Of(x)
  BY DEF Backed
<1>4. \A c \in B2 : res2[c] = res[c] /\ c \cap b = {}
  OBVIOUS
<1>. HIDE DEF due, due2, B
<1>5. \A k \in b : due[k] = en[k] /\ due2[k] = 0 /\ pa2[k] = en[k] /\ pa[k] = 0
  <2>1. ASSUME NEW k \in b PROVE k \in Claims /\ pa2[k] = en[k] /\ pa[k] = 0
    BY <1>2
  <2>. QED
    BY <1>1, <2>1
<1>6. \A k \in Claims \ b : due2[k] = due[k] /\ pa2[k] = pa[k]
  <2>1. ASSUME NEW k \in Claims \ b PROVE pa2[k] = pa[k]
    OBVIOUS
  <2>. QED
    BY <1>1, <2>1
<1>7. FreeOf(B2, a) = FreeOf(B, a) \cup b /\ FreeOf(B, a) \cap b = {}
  BY <1>2, <1>4 DEF FreeOf, B
<1>8. ASSUME NEW x \in Assets \ {a} PROVE FreeOf(B2, x) = FreeOf(B, x)
  BY <1>2 DEF FreeOf, Of
<1>9. ASSUME NEW x \in Assets
      PROVE  SumFunctionOnSet(due2, FreeOf(B, x)) = SumFunctionOnSet(due, FreeOf(B, x))
  <2>1. \A k \in FreeOf(B, x) : k \in Claims \ b
    BY ClaimSets DEF FreeOf, Of, B
  <2>2. IsFiniteSet(FreeOf(B, x))
    BY ClaimSets
  <2>. QED
    BY <1>6, <2>1, <2>2, SumSame
<1>10. SumFunctionOnSet(due2, FreeOf(B2, a)) = SumFunctionOnSet(due2, FreeOf(B, a))
  <2>. DEFINE F == FreeOf(B, a)
              F2 == FreeOf(B2, a)
  <2>1. IsFiniteSet(F2) /\ F2 \in SUBSET Claims /\ F \in SUBSET F2
    BY <1>7, ClaimSets DEF FreeOf, Of
  <2>2. \A k \in F2 : due2[k] \in Int
    BY <1>1, <2>1
  <2>3. \A k \in F2 \ F : due2[k] = 0
    BY <1>5, <1>7
  <2>. HIDE DEF F, F2
  <2>4. SumFunctionOnSet(due2, F2) = SumFunctionOnSet(due2, F)
    BY <2>1, <2>2, <2>3, SumOfPart
  <2>. QED
    BY <2>4 DEF F, F2
<1>11. SumFunctionOnSet(pa2, Of(a)) = SumFunctionOnSet(pa, Of(a)) + res[b]
  <2>. DEFINE O == Of(a)
  <2>1. IsFiniteSet(O) /\ O \in SUBSET Claims /\ b \in SUBSET O
    BY <1>2, ClaimSets
  <2>2. IsFiniteSet(O \ b)
    BY <2>1, FS_Difference
  <2>. HIDE DEF O
  <2>3. SumFunctionOnSet(pa2, O) = SumFunctionOnSet(pa2, b) + SumFunctionOnSet(pa2, O \ b)
    <3>1. \A k \in O : pa2[k] \in Int
      BY <1>1, <2>1
    <3>. QED
      BY <2>1, <3>1, SumSplit
  <2>4. SumFunctionOnSet(pa2, b) = res[b]
    <3>1. \A k \in b : pa2[k] = due[k]
      BY <1>5
    <3>2. SumFunctionOnSet(pa2, b) = SumFunctionOnSet(due, b)
      BY <1>2, <3>1, SumSame
    <3>. QED
      BY <1>3, <3>2 DEF B
  <2>5. SumFunctionOnSet(pa2, O \ b) = SumFunctionOnSet(pa, O \ b)
    <3>1. \A k \in O \ b : pa2[k] = pa[k]
      BY <1>6, <2>1
    <3>. QED
      BY <2>2, <3>1, SumSame
  <2>6. SumFunctionOnSet(pa, O) = SumFunctionOnSet(pa, O \ b)
    <3>1. \A k \in O : pa[k] \in Int
      BY <1>1, <2>1
    <3>2. O \ b \in SUBSET O /\ \A k \in O \ (O \ b) : pa[k] = 0
      BY <1>5
    <3>. QED
      BY <2>1, <3>1, <3>2, SumOfPart
  <2>7. SumFunctionOnSet(pa, O \ b) \in Int /\ res[b] \in Int
    <3>1. \A k \in O \ b : pa[k] \in Int
      BY <1>1, <2>1
    <3>2. \A k \in b : due[k] \in Int
      BY <1>1, <1>2
    <3>3. SumFunctionOnSet(pa, O \ b) \in Int
      BY <2>2, <3>1, SumInt
    <3>4. SumFunctionOnSet(due, b) \in Int
      BY <1>2, <3>2, SumInt
    <3>. QED
      BY <1>3, <3>3, <3>4 DEF B
  <2>. QED
    BY <2>3, <2>4, <2>5, <2>6, <2>7 DEF O
<1>12. ASSUME NEW x \in Assets \ {a}
       PROVE  SumFunctionOnSet(pa2, Of(x)) = SumFunctionOnSet(pa, Of(x))
  <2>1. \A k \in Of(x) : k \in Claims \ b
    BY <1>2 DEF Of
  <2>2. IsFiniteSet(Of(x)) /\ \A k \in Of(x) : pa2[k] = pa[k]
    BY <1>6, <2>1, ClaimSets
  <2>. QED
    BY <2>2, SumSame
<1>13. ASSUME NEW c \in B2
       PROVE  SumFunctionOnSet(due2, c) = SumFunctionOnSet(due, c)
  <2>1. c \in SUBSET Claims /\ c \cap b = {}
    BY <1>2, <1>3, <1>4 DEF Of
  <2>2. IsFiniteSet(c) /\ \A k \in c : due2[k] = due[k]
    BY <1>6, <2>1, ClaimSets
  <2>. QED
    BY <2>2, SumSame
<1>14. \A x \in Assets : li[x] = SumFunctionOnSet(due2, FreeOf(B2, x))
  <2>1. li[a] = SumFunctionOnSet(due2, FreeOf(B2, a))
    BY <1>3, <1>9, <1>10, Zenon
  <2>2. ASSUME NEW x \in Assets \ {a} PROVE li[x] = SumFunctionOnSet(due2, FreeOf(B2, x))
    <3>1. li[x] = SumFunctionOnSet(due, FreeOf(B, x))
      BY <1>3
    <3>2. SumFunctionOnSet(due2, FreeOf(B, x)) = SumFunctionOnSet(due, FreeOf(B, x))
      BY <1>9
    <3>. QED
      BY <1>8, <3>1, <3>2, Zenon
  <2>. QED
    BY <2>1, <2>2
<1>15. \A x \in Assets : de2[x] = SumFunctionOnSet(pa2, Of(x))
  <2>1. de2[a] = SumFunctionOnSet(pa2, Of(a))
    BY <1>3, <1>11
  <2>. QED
    BY <1>3, <1>12, <2>1
<1>16. \A c \in B2 : res2[c] = SumFunctionOnSet(due2, c) /\ \E x \in Assets : c \subseteq Of(x)
  BY <1>2, <1>3, <1>4, <1>13
<1>. QED
  BY <1>14, <1>15, <1>16 DEF Backed, due2

-----------------------------------------------------------------------------
(* The inductive invariant of the balances *)

(* Receipts fund no more than they brought and revenue is what they have left. *)
ReceiptsFit ==
    /\ Conserved(class, committed, refunded)
    /\ revenue = LeftInAll(class, committed, refunded)

(* Deposits nobody has recognized as capital. *)
PendingIn(kind, linked) == {x \in Receipts : kind[x] = "deposit"} \ linked

DepositsFit ==
    /\ \A r \in reclassified : class[r] = "deposit"
    /\ deposits = SumFunctionOnSet(Amount, PendingIn(class, reclassified))

(* A round that is new has taken and spent nothing; one that is not has a snapshot and *)
(* a buyback, its burn follows the buyback, it has at most what its receipts gave, and *)
(* it has returned that only once nothing can spend it any more.                       *)
RoundFits(e) ==
    /\ epoch[e] = "none" =>
          /\ \A r \in Receipts : committed[e][r] = 0 /\ refunded[e][r] = 0
          /\ cost[e] = 0 /\ buy[e] = "none"
    /\ epoch[e] # "none" => snapshot[e] \in Snapshots /\ buy[e] # "none"
    /\ buy[e] = "finalized" <=> burn[e] # "none"
    /\ cost[e] <= SumFunction(committed[e])
    /\ (\E r \in Receipts : refunded[e][r] > 0) =>
          cost[e] = 0 /\ ~InFlight(e) /\ burn[e] = "finalized"

BackingFits == Backed(liabilities, reserved, delivered, entitled, paid)

LedgerInv ==
    /\ TypeOK
    /\ ClaimInv
    /\ ReceiptsFit
    /\ DepositsFit
    /\ \A e \in Rounds : RoundFits(e)
    /\ BackingFits

(* The properties follow from the invariant. *)
LEMMA Views ==
  ASSUME committed \in Ledger, refunded \in Ledger
  PROVE  /\ \A r \in Receipts : /\ Used(r) = UsedIn(committed, refunded, r)
                                /\ AvailableOf(r) = LeftIn(class, committed, refunded, r)
         /\ SumFunction([r \in Receipts |-> AvailableOf(r)]) = LeftInAll(class, committed, refunded)
<1>1. \A r \in Receipts : Used(r) = UsedIn(committed, refunded, r)
  BY DEF Used, UsedIn, SumFunction
<1>2. \A r \in Receipts : AvailableOf(r) = LeftIn(class, committed, refunded, r)
  BY <1>1 DEF AvailableOf, LeftIn
<1>3. SumFunction([r \in Receipts |-> AvailableOf(r)]) = LeftInAll(class, committed, refunded)
  <2>. DEFINE f == [r \in Receipts |-> AvailableOf(r)]
              g == [r \in Receipts |-> LeftIn(class, committed, refunded, r)]
  <2>1. f = g
    BY <1>2
  <2>2. DOMAIN f = Receipts
    OBVIOUS
  <2>. HIDE DEF f, g
  <2>3. SumFunction(f) = SumFunctionOnSet(g, Receipts)
    BY <2>1, <2>2, Zenon DEF SumFunction
  <2>. QED
    BY <2>3 DEF f, g, LeftInAll
<1>. QED
  BY <1>1, <1>2, <1>3

LEMMA InvImpliesProperties ==
  ASSUME LedgerInv
  PROVE  /\ RevenueIsUnassigned /\ ReceiptsConserved /\ AllowanceOutlivesIntents
         /\ DepositsAreAccounted /\ ClaimsAreBacked
<1>1. committed \in Ledger /\ refunded \in Ledger
  BY DEF LedgerInv, TypeOK, Ledger
<1>2. RevenueIsUnassigned
  BY <1>1, Views DEF RevenueIsUnassigned, LedgerInv, ReceiptsFit
<1>3. ReceiptsConserved
  <2>1. ASSUME NEW r \in Receipts
        PROVE  /\ Used(r) >= 0 /\ Used(r) <= (IF class[r] = "creator_fee" THEN Amount[r] ELSE 0)
               /\ \A e \in Rounds : refunded[e][r] <= committed[e][r]
    <3>1. Conserved(class, committed, refunded)
      BY DEF LedgerInv, ReceiptsFit
    <3>2. UsedIn(committed, refunded, r) \in Nat
      BY <1>1, <3>1, LeftIsNat
    <3>3. Used(r) = UsedIn(committed, refunded, r)
      BY <1>1, Views
    <3>. QED
      BY <3>1, <3>2, <3>3 DEF Conserved
  <2>. QED
    BY <2>1 DEF ReceiptsConserved
<1>4. AllowanceOutlivesIntents
  BY DEF AllowanceOutlivesIntents, LedgerInv, RoundFits
<1>5. DepositsAreAccounted
  <2>. DEFINE P == PendingIn(class, reclassified)
              f == [r \in {x \in Receipts : class[x] = "deposit"} \ reclassified |-> Amount[r]]
  <2>1. IsFiniteSet(P)
    BY TreasuryConstants, FS_Subset DEF PendingIn
  <2>2. DOMAIN f = P /\ \A r \in P : f[r] = Amount[r]
    BY DEF PendingIn
  <2>3. deposits = SumFunctionOnSet(Amount, P)
    BY DEF LedgerInv, DepositsFit
  <2>. HIDE DEF P, f
  <2>4. SumFunctionOnSet(f, P) = SumFunctionOnSet(Amount, P)
    BY <2>1, <2>2, SumSame
  <2>5. deposits = SumFunction(f)
    BY <2>2, <2>3, <2>4, Zenon DEF SumFunction
  <2>. QED
    BY <2>5 DEF f, DepositsAreAccounted
<1>6. ClaimsAreBacked
  <2>. DEFINE due == Due(entitled, paid)
              B == DOMAIN reserved
  <2>1. /\ \A a \in Assets : /\ liabilities[a] = SumFunctionOnSet(due, FreeOf(B, a))
                             /\ delivered[a] = SumFunctionOnSet(paid, Of(a))
        /\ \A b \in B : reserved[b] = SumFunctionOnSet(due, b) /\ \E a \in Assets : b \subseteq Of(a)
    BY DEF LedgerInv, BackingFits, Backed
  <2>2. ASSUME NEW S \in SUBSET Claims
        PROVE  SumFunction([k \in S |-> entitled[k] - paid[k]]) = SumFunctionOnSet(due, S)
    <3>. DEFINE f == [k \in S |-> entitled[k] - paid[k]]
    <3>1. DOMAIN f = S /\ \A k \in S : f[k] = due[k]
      BY DEF Due
    <3>2. IsFiniteSet(S)
      BY ClaimSets
    <3>. HIDE DEF f, due
    <3>3. SumFunctionOnSet(f, S) = SumFunctionOnSet(due, S)
      BY <3>1, <3>2, SumSame
    <3>4. SumFunction(f) = SumFunctionOnSet(due, S)
      BY <3>1, <3>3, Zenon DEF SumFunction
    <3>. QED
      BY <3>4 DEF f
  <2>3. ASSUME NEW S \in SUBSET Claims
        PROVE  SumFunction([k \in S |-> paid[k]]) = SumFunctionOnSet(paid, S)
    <3>. DEFINE f == [k \in S |-> paid[k]]
    <3>1. DOMAIN f = S /\ \A k \in S : f[k] = paid[k]
      OBVIOUS
    <3>2. IsFiniteSet(S)
      BY ClaimSets
    <3>. HIDE DEF f
    <3>3. SumFunctionOnSet(f, S) = SumFunctionOnSet(paid, S)
      BY <3>1, <3>2, SumSame
    <3>4. SumFunction(f) = SumFunctionOnSet(paid, S)
      BY <3>1, <3>3, Zenon DEF SumFunction
    <3>. QED
      BY <3>4 DEF f
  <2>. HIDE DEF due
  <2>4. ASSUME NEW a \in Assets
        PROVE  /\ liabilities[a] = SumFunction([k \in {x \in Of(a) : ~InBatch(x)} |->
                                                   entitled[k] - paid[k]])
               /\ delivered[a] = SumFunction([k \in Of(a) |-> paid[k]])
               /\ \A b \in DOMAIN reserved :
                     /\ (\E k \in b : k[2] = a) => b \subseteq Of(a)
                     /\ b \subseteq Of(a) => reserved[b] = DueOn(b)
    <3>1. {x \in Of(a) : ~InBatch(x)} = FreeOf(B, a)
      BY DEF FreeOf, InBatch
    <3>2. FreeOf(B, a) \in SUBSET Claims /\ Of(a) \in SUBSET Claims
      BY ClaimSets
    <3>3. liabilities[a] = SumFunction([k \in FreeOf(B, a) |-> entitled[k] - paid[k]])
      BY <2>1, <2>2, <3>2
    <3>4. delivered[a] = SumFunction([k \in Of(a) |-> paid[k]])
      BY <2>1, <2>3, <3>2
    <3>5. ASSUME NEW b \in B
          PROVE  /\ (\E k \in b : k[2] = a) => b \subseteq Of(a)
                 /\ reserved[b] = DueOn(b)
      <4>1. PICK x \in Assets : b \subseteq Of(x)
        BY <2>1
      <4>2. b \in SUBSET Claims
        BY <4>1 DEF Of
      <4>3. DueOn(b) = SumFunctionOnSet(due, b)
        BY <2>2, <4>2 DEF DueOn
      <4>. QED
        BY <2>1, <4>1, <4>3 DEF Of
    <3>. QED
      BY <3>1, <3>3, <3>4, <3>5, Zenon
  <2>. QED
    BY <2>4 DEF ClaimsAreBacked, Of
<1>. QED
  BY <1>2, <1>3, <1>4, <1>5, <1>6

(* What a step leaves alone keeps its part of the invariant. *)
LEMMA PartsFrozen ==
  /\ ReceiptsFit /\ UNCHANGED <<class, committed, refunded, revenue>> => ReceiptsFit'
  /\ DepositsFit /\ UNCHANGED <<class, reclassified, deposits>> => DepositsFit'
  /\ (\A e \in Rounds : RoundFits(e))
     /\ UNCHANGED <<committed, refunded, cost, epoch, snapshot, swap, buy, burn>>
        => (\A e \in Rounds : RoundFits(e))'
  /\ BackingFits /\ UNCHANGED claimVars => BackingFits'
<1>1. ReceiptsFit /\ UNCHANGED <<class, committed, refunded, revenue>> => ReceiptsFit'
  BY DEF ReceiptsFit
<1>2. DepositsFit /\ UNCHANGED <<class, reclassified, deposits>> => DepositsFit'
  BY DEF DepositsFit
<1>3. (\A e \in Rounds : RoundFits(e))
      /\ UNCHANGED <<committed, refunded, cost, epoch, snapshot, swap, buy, burn>>
         => (\A e \in Rounds : RoundFits(e))'
  BY DEF RoundFits, InFlight
<1>4. BackingFits /\ UNCHANGED claimVars => BackingFits'
  BY DEF BackingFits, claimVars
<1>. QED
  BY <1>1, <1>2, <1>3, <1>4

(* A recorded receipt changes no deposit unless it is one. *)
LEMMA DepositArrives ==
  ASSUME DepositsFit, NEW r \in Receipts, class[r] = "none",
         NEW c, class'[r] = c, \A x \in Receipts \ {r} : class'[x] = class[x],
         UNCHANGED reclassified, reclassified \subseteq Receipts,
         deposits' = IF c = "deposit" THEN deposits + Amount[r] ELSE deposits
  PROVE  DepositsFit'
<1>. DEFINE P == PendingIn(class, reclassified)
            P2 == PendingIn(class', reclassified')
<1>1. \A x \in reclassified' : class'[x] = "deposit"
  BY DEF DepositsFit
<1>2. deposits = SumFunctionOnSet(Amount, P)
  BY DEF DepositsFit
<1>3. r \notin reclassified
  BY DEF DepositsFit
<1>4. CASE c = "deposit"
  <2>1. IsFiniteSet(P2) /\ r \in P2 /\ P = P2 \ {r}
    BY <1>3, <1>4, TreasuryConstants, FS_Subset DEF PendingIn
  <2>2. \A x \in P2 : Amount[x] \in Int
    <3>1. \A x \in Receipts : Amount[x] \in Int
      BY TreasuryConstants
    <3>2. P2 \in SUBSET Receipts
      BY DEF PendingIn
    <3>. QED
      BY <3>1, <3>2
  <2>. HIDE DEF P, P2
  <2>3. SumFunctionOnSet(Amount, P2) = Amount[r] + SumFunctionOnSet(Amount, P2 \ {r})
    BY <2>1, <2>2, SumRemove
  <2>4. SumFunctionOnSet(Amount, P2 \ {r}) = deposits
    BY <1>2, <2>1, Zenon
  <2>5. deposits \in Int /\ Amount[r] \in Int
    <3>1. IsFiniteSet(P) /\ \A x \in P : Amount[x] \in Int
      BY <2>1, <2>2, FS_RemoveElement
    <3>. QED
      BY <1>2, <2>1, <2>2, <3>1, SumInt
  <2>6. deposits' = SumFunctionOnSet(Amount, P2)
    BY <1>4, <2>3, <2>4, <2>5
  <2>. QED
    BY <1>1, <2>6 DEF P2, DepositsFit
<1>5. CASE c # "deposit"
  <2>1. P2 = P
    BY <1>5 DEF PendingIn
  <2>. HIDE DEF P, P2
  <2>2. deposits' = SumFunctionOnSet(Amount, P2)
    BY <1>2, <1>5, <2>1, Zenon
  <2>. QED
    BY <1>1, <2>2 DEF P2, DepositsFit
<1>. QED
  BY <1>4, <1>5

LEMMA IngestKeeps ==
  ASSUME LedgerInv, NEW r \in Receipts, NEW c \in Classes, Ingest(r, c)
  PROVE  TypeOK' /\ ReceiptsFit' /\ DepositsFit' /\ (\A e \in Rounds : RoundFits(e))' /\ BackingFits'
<1>1. /\ class[r] = "none" /\ class' = [class EXCEPT ![r] = c]
      /\ revenue' = IF c = "creator_fee" THEN revenue + Amount[r] ELSE revenue
      /\ deposits' = IF c = "deposit" THEN deposits + Amount[r] ELSE deposits
      /\ quarantine' = IF c = "review" THEN quarantine + Amount[r] ELSE quarantine
      /\ UNCHANGED <<paused, reclassified, committed, refunded, dayFunding, reserve,
                     roundVars, claimVars>>
  BY DEF Ingest
<1>2. TypeOK
  BY DEF LedgerInv
<1>3. Amount[r] \in Nat
  BY TreasuryConstants
<1>4. TypeOK'
  BY <1>1, <1>2, <1>3 DEF TypeOK, roundVars, claimVars
<1>5. ReceiptsFit'
  <2>1. /\ Conserved(class, committed, refunded) /\ DOMAIN class = Receipts
        /\ revenue = LeftInAll(class, committed, refunded)
        /\ committed \in Ledger /\ refunded \in Ledger
    BY <1>2 DEF LedgerInv, ReceiptsFit, TypeOK, Ledger
  <2>2. class[r] = "none" /\ class'[r] = c /\ \A x \in Receipts \ {r} : class'[x] = class[x]
    BY <1>1, <2>1
  <2>3. /\ Conserved(class', committed, refunded)
        /\ LeftInAll(class', committed, refunded) =
              LeftInAll(class, committed, refunded)
              + (IF class'[r] = "creator_fee" THEN Amount[r] ELSE 0)
    BY <2>1, <2>2, ReceiptArrives
  <2>4. revenue' = LeftInAll(class', committed, refunded)
    BY <1>1, <1>2, <1>3, <2>1, <2>2, <2>3 DEF TypeOK
  <2>. QED
    BY <1>1, <2>3, <2>4 DEF ReceiptsFit
<1>6. DepositsFit'
  <2>1. /\ class'[r] = c /\ \A x \in Receipts \ {r} : class'[x] = class[x]
        /\ reclassified \subseteq Receipts
    BY <1>1, <1>2 DEF TypeOK
  <2>. QED
    BY <1>1, <2>1, DepositArrives DEF LedgerInv
<1>. QED
  BY <1>1, <1>4, <1>5, <1>6, PartsFrozen DEF LedgerInv, roundVars

LEMMA IngestCapitalKeeps ==
  ASSUME LedgerInv, NEW r \in Receipts, IngestCapital(r)
  PROVE  TypeOK' /\ ReceiptsFit' /\ DepositsFit' /\ (\A e \in Rounds : RoundFits(e))' /\ BackingFits'
<1>1. /\ class[r] = "none" /\ class' = [class EXCEPT ![r] = "capital"]
      /\ reserve' = reserve + Amount[r]
      /\ UNCHANGED <<paused, reclassified, deposits, quarantine, useVars, roundVars, claimVars>>
  BY DEF IngestCapital
<1>2. TypeOK
  BY DEF LedgerInv
<1>3. Amount[r] \in Nat /\ "capital" \in Classes
  BY TreasuryConstants DEF Classes
<1>4. TypeOK'
  BY <1>1, <1>2, <1>3 DEF TypeOK, useVars, roundVars, claimVars
<1>5. ReceiptsFit'
  <2>1. /\ Conserved(class, committed, refunded) /\ DOMAIN class = Receipts
        /\ revenue = LeftInAll(class, committed, refunded)
        /\ committed \in Ledger /\ refunded \in Ledger
    BY <1>2 DEF LedgerInv, ReceiptsFit, TypeOK, Ledger
  <2>2. class[r] = "none" /\ class'[r] = "capital" /\ \A x \in Receipts \ {r} : class'[x] = class[x]
    BY <1>1, <2>1
  <2>3. /\ Conserved(class', committed, refunded)
        /\ LeftInAll(class', committed, refunded) =
              LeftInAll(class, committed, refunded)
              + (IF class'[r] = "creator_fee" THEN Amount[r] ELSE 0)
    BY <2>1, <2>2, ReceiptArrives
  <2>4. revenue' = LeftInAll(class', committed, refunded)
    BY <1>1, <1>2, <2>1, <2>2, <2>3 DEF TypeOK, useVars
  <2>. QED
    BY <1>1, <2>3, <2>4 DEF ReceiptsFit, useVars
<1>6. DepositsFit'
  <2>1. PICK c : c = "capital"
    OBVIOUS
  <2>2. /\ class'[r] = c /\ \A x \in Receipts \ {r} : class'[x] = class[x]
        /\ reclassified \subseteq Receipts
        /\ deposits' = IF c = "deposit" THEN deposits + Amount[r] ELSE deposits
    BY <1>1, <1>2, <2>1 DEF TypeOK
  <2>. QED
    BY <1>1, <2>2, DepositArrives DEF LedgerInv
<1>. QED
  BY <1>1, <1>4, <1>5, <1>6, PartsFrozen DEF LedgerInv, roundVars, useVars

LEMMA ReclassifyKeeps ==
  ASSUME LedgerInv, NEW r \in Receipts, Reclassify(r)
  PROVE  TypeOK' /\ ReceiptsFit' /\ DepositsFit' /\ (\A e \in Rounds : RoundFits(e))' /\ BackingFits'
<1>. DEFINE P == PendingIn(class, reclassified)
            P2 == PendingIn(class', reclassified')
<1>1. /\ class[r] = "deposit" /\ r \notin reclassified /\ reclassified' = reclassified \cup {r}
      /\ deposits' = deposits - Amount[r] /\ reserve' = reserve + Amount[r]
      /\ UNCHANGED <<paused, class, quarantine, useVars, roundVars, claimVars>>
  BY DEF Reclassify
<1>2. TypeOK /\ deposits = SumFunctionOnSet(Amount, P)
  BY DEF LedgerInv, DepositsFit
<1>3. Amount \in [Receipts -> Nat \ {0}]
  BY TreasuryConstants
<1>4. IsFiniteSet(P) /\ r \in P /\ P2 = P \ {r} /\ P \in SUBSET Receipts
  BY <1>1, TreasuryConstants, FS_Subset DEF PendingIn
<1>5. \A x \in P : Amount[x] \in Nat
  BY <1>3, <1>4
<1>. HIDE DEF P, P2
<1>6. deposits = Amount[r] + SumFunctionOnSet(Amount, P \ {r})
  <2>1. \A x \in P : Amount[x] \in Int
    BY <1>5
  <2>. QED
    BY <1>2, <1>4, <2>1, SumRemove
<1>7. SumFunctionOnSet(Amount, P \ {r}) \in Nat
  <2>1. IsFiniteSet(P \ {r})
    BY <1>4, FS_RemoveElement
  <2>2. \A x \in P \ {r} : Amount[x] \in Nat
    BY <1>5
  <2>. QED
    BY <2>1, <2>2, SumNat
<1>8. Amount[r] \in Nat
  BY <1>4, <1>5
<1>9. deposits' = SumFunctionOnSet(Amount, P \ {r}) /\ deposits' \in Nat
  BY <1>1, <1>6, <1>7, <1>8
<1>10. TypeOK'
  BY <1>1, <1>2, <1>8, <1>9 DEF TypeOK, useVars, roundVars, claimVars
<1>11. DepositsFit'
  <2>1. deposits' = SumFunctionOnSet(Amount, P2)
    BY <1>4, <1>9, Zenon
  <2>2. \A x \in reclassified' : class'[x] = "deposit"
    BY <1>1 DEF LedgerInv, DepositsFit
  <2>. QED
    BY <2>1, <2>2 DEF P2, DepositsFit
<1>. QED
  BY <1>1, <1>10, <1>11, PartsFrozen DEF LedgerInv, roundVars, useVars

(* The reserve, the day and the pause concern no other part. *)
LEMMA SmallStepsKeep ==
  ASSUME LedgerInv,
         (\E c \in Charges : FailPayoutAttempt(c)) \/ NewDay \/ TogglePause \/ UNCHANGED vars
  PROVE  TypeOK' /\ ReceiptsFit' /\ DepositsFit' /\ (\A e \in Rounds : RoundFits(e))' /\ BackingFits'
<1>1. TypeOK
  BY DEF LedgerInv
<1>2. /\ UNCHANGED <<receiptVars, committed, refunded, revenue, roundVars, claimVars>>
      /\ paused' \in BOOLEAN /\ dayFunding' \in 0..MaxDay /\ reserve' \in Nat
  <2>1. CASE \E c \in Charges : FailPayoutAttempt(c)
    <3>1. PICK c \in Charges : FailPayoutAttempt(c)
      BY <2>1
    <3>2. c \in Nat /\ MinReserve \in Nat /\ c <= reserve - MinReserve /\ reserve \in Nat
      BY <1>1, <3>1, TreasuryConstants DEF FailPayoutAttempt, TypeOK
    <3>. QED
      BY <1>1, <3>1, <3>2 DEF FailPayoutAttempt, TypeOK, useVars
  <2>2. CASE NewDay
    BY <1>1, <2>2, TreasuryConstants DEF NewDay, TypeOK
  <2>3. CASE TogglePause
    BY <1>1, <2>3 DEF TogglePause, TypeOK, useVars
  <2>4. CASE UNCHANGED vars
    BY <1>1, <2>4 DEF vars, TypeOK, useVars
  <2>. QED
    BY <2>1, <2>2, <2>3, <2>4
<1>3. TypeOK'
  BY <1>1, <1>2 DEF TypeOK, receiptVars, roundVars, claimVars
<1>. QED
  BY <1>2, <1>3, PartsFrozen DEF LedgerInv, receiptVars, roundVars

(* What revenue allows, the oldest receipts provide. *)
LEMMA PlanTakes ==
  ASSUME LedgerInv, NEW funding \in Nat, funding <= revenue
  PROVE  LET part == [r \in Receipts |-> Take(r, funding)] IN
         /\ part \in [Receipts -> Nat]
         /\ \A r \in Receipts : part[r] <= LeftIn(class, committed, refunded, r)
         /\ SumFunctionOnSet(part, Receipts) = funding
<1>. DEFINE part == [r \in Receipts |-> Take(r, funding)]
<1>1. /\ committed \in Ledger /\ refunded \in Ledger /\ Conserved(class, committed, refunded)
      /\ revenue = LeftInAll(class, committed, refunded)
  BY DEF LedgerInv, TypeOK, Ledger, ReceiptsFit
<1>2. \A r \in Receipts : AvailableOf(r) \in Nat
                          /\ AvailableOf(r) = LeftIn(class, committed, refunded, r)
  BY <1>1, Views, LeftIsNat
<1>3. funding <= SumFunction([r \in Receipts |-> AvailableOf(r)])
  BY <1>1, Views
<1>4. /\ \A r \in Receipts : Take(r, funding) \in Nat /\ Take(r, funding) <= AvailableOf(r)
      /\ SumFunctionOnSet(part, Receipts) = funding
  BY <1>2, <1>3, TakeSums
<1>. QED
  BY <1>2, <1>4

LEMMA PlanKeeps ==
  ASSUME LedgerInv, NEW e \in Rounds, NEW funding \in Fundings, NEW balance \in Snapshots,
         Plan(e, funding, balance)
  PROVE  TypeOK' /\ ReceiptsFit' /\ DepositsFit' /\ (\A x \in Rounds : RoundFits(x))' /\ BackingFits'
<1>. DEFINE b == Budget(funding, CostForecast)
            part == [r \in Receipts |-> Take(r, funding)]
<1>1. /\ epoch[e] = "none" /\ CostForecast < funding /\ funding <= revenue
      /\ dayFunding + funding <= MaxDay
      /\ epoch' = [epoch EXCEPT ![e] = "funded"]
      /\ snapshot' = [snapshot EXCEPT ![e] = balance]
      /\ committed' = [committed EXCEPT ![e] = part]
      /\ dayFunding' = dayFunding + funding
      /\ revenue' = revenue - BudgetTotal(b)
      /\ cost' = [cost EXCEPT ![e] = b.cost]
      /\ buyback' = [buyback EXCEPT ![e] = b.buyback]
      /\ operations' = [operations EXCEPT ![e] = b.operations]
      /\ rounding' = [rounding EXCEPT ![e] = b.remainder]
      /\ budget' = [l \in Legs |-> IF l[1] = e THEN b.leg ELSE budget[l]]
      /\ swap' = [l \in Legs |-> IF l[1] = e THEN "planned" ELSE swap[l]]
      /\ buy' = [buy EXCEPT ![e] = "planned"]
      /\ UNCHANGED <<paused, receiptVars, refunded, reserve, burn, claimVars>>
  BY DEF Plan
<1>2. TypeOK /\ RoundFits(e)
  BY DEF LedgerInv
<1>3. funding \in Nat /\ CostForecast \in Nat /\ MaxDay \in Nat
  BY TreasuryConstants
<1>4. /\ b \in [cost : Nat, buyback : Nat, operations : Nat, leg : Nat, remainder : Nat]
      /\ b.cost = CostForecast /\ BudgetTotal(b) = funding
  BY <1>1, <1>3, BudgetParts
<1>5. /\ part \in [Receipts -> Nat] /\ SumFunctionOnSet(part, Receipts) = funding
      /\ \A r \in Receipts : part[r] <= LeftIn(class, committed, refunded, r)
  BY <1>1, <1>3, PlanTakes
<1>. HIDE DEF b, part
<1>6. revenue' = revenue - funding /\ revenue' \in Nat
  BY <1>1, <1>2, <1>3, <1>4 DEF TypeOK
<1>7. TypeOK'
  <2>1. dayFunding' \in 0..MaxDay
    BY <1>1, <1>2, <1>3 DEF TypeOK
  <2>2. committed' \in [Rounds -> [Receipts -> Nat]] /\ refunded' \in [Rounds -> [Receipts -> Nat]]
    BY <1>1, <1>2, <1>5 DEF TypeOK
  <2>3. /\ cost' \in [Rounds -> Nat] /\ buyback' \in [Rounds -> Nat]
        /\ operations' \in [Rounds -> Nat] /\ rounding' \in [Rounds -> Nat]
        /\ budget' \in [Legs -> Nat]
    BY <1>1, <1>2, <1>4 DEF TypeOK
  <2>4. /\ epoch' \in [Rounds -> {"none", "funded", "purchasing", "partial", "settled"}]
        /\ swap' \in [Legs -> Statuses] /\ buy' \in [Rounds -> Statuses]
        /\ burn' \in [Rounds -> Statuses]
    BY <1>1, <1>2 DEF TypeOK, Statuses
  <2>5. snapshot' \in [Rounds -> Snapshots \cup {NoBalance}]
    BY <1>1, <1>2 DEF TypeOK
  <2>6. UNCHANGED <<paused, class, reclassified, reserve, deposits, quarantine, claimVars>>
    BY <1>1 DEF receiptVars
  <2>. QED
    BY <1>2, <1>6, <2>1, <2>2, <2>3, <2>4, <2>5, <2>6 DEF TypeOK, claimVars
<1>8. committed'[e] = part /\ \A x \in Rounds \ {e} : committed'[x] = committed[x]
  BY <1>1, <1>2 DEF TypeOK
<1>9. ReceiptsFit'
  <2>1. /\ committed \in Ledger /\ refunded \in Ledger /\ Conserved(class, committed, refunded)
        /\ revenue = LeftInAll(class, committed, refunded)
        /\ committed' \in Ledger
    BY <1>7 DEF LedgerInv, TypeOK, Ledger, ReceiptsFit
  <2>2. \A r \in Receipts : /\ committed[e][r] = 0 /\ refunded[e][r] = 0
                            /\ part[r] <= LeftIn(class, committed, refunded, r)
    BY <1>1, <1>2, <1>5 DEF RoundFits
  <2>3. /\ Conserved(class, committed', refunded)
        /\ LeftInAll(class, committed', refunded) =
              LeftInAll(class, committed, refunded) - SumFunctionOnSet(part, Receipts)
    <3>1. PICK given2 \in Ledger : given2 = committed'
      BY <2>1
    <3>2. given2[e] = part /\ \A x \in Rounds \ {e} : given2[x] = committed[x]
      BY <1>8, <3>1
    <3>3. part \in [Receipts -> Nat]
      BY <1>5
    <3>4. /\ Conserved(class, given2, refunded)
          /\ LeftInAll(class, given2, refunded) =
                LeftInAll(class, committed, refunded) - SumFunctionOnSet(part, Receipts)
      BY <2>1, <2>2, <3>2, <3>3, RoundTakes
    <3>. QED
      BY <3>1, <3>4, Zenon
  <2>4. revenue' = LeftInAll(class, committed', refunded)
    BY <1>5, <1>6, <2>1, <2>3
  <2>. QED
    BY <1>1, <2>3, <2>4 DEF ReceiptsFit, receiptVars
<1>10. (\A x \in Rounds : RoundFits(x))'
  <2>1. RoundFits(e)'
    <3>1. /\ epoch'[e] = "funded" /\ snapshot'[e] = balance /\ buy'[e] = "planned"
          /\ burn'[e] = burn[e] /\ cost'[e] = CostForecast /\ refunded' = refunded
      BY <1>1, <1>2, <1>4, <1>7 DEF TypeOK
    <3>2. burn[e] = "none" /\ \A r \in Receipts : refunded[e][r] = 0
      BY <1>1, <1>2 DEF RoundFits
    <3>3. SumFunction(committed'[e]) = funding
      <4>1. DOMAIN part = Receipts
        BY <1>5
      <4>. QED
        BY <1>5, <1>8, <4>1, Zenon DEF SumFunction
    <3>4. cost'[e] <= SumFunction(committed'[e])
      BY <1>1, <1>3, <3>1, <3>3
    <3>. QED
      BY <3>1, <3>2, <3>4 DEF RoundFits
  <2>2. ASSUME NEW x \in Rounds \ {e} PROVE RoundFits(x)'
    <3>1. /\ epoch'[x] = epoch[x] /\ snapshot'[x] = snapshot[x] /\ buy'[x] = buy[x]
          /\ burn'[x] = burn[x] /\ cost'[x] = cost[x] /\ refunded'[x] = refunded[x]
          /\ committed'[x] = committed[x]
      BY <1>1, <1>2, <1>8 DEF TypeOK
    <3>2. \A a \in Assets : swap'[<<x, a>>] = swap[<<x, a>>]
      BY <1>1 DEF Legs
    <3>3. RoundFits(x)
      BY DEF LedgerInv
    <3>. QED
      BY <3>1, <3>2, <3>3 DEF RoundFits, InFlight
  <2>. QED
    BY <2>1, <2>2
<1>. QED
  BY <1>1, <1>7, <1>9, <1>10, PartsFrozen DEF LedgerInv, receiptVars

(* A charge leaves the cost balance of a round. *)
LEMMA Charged ==
  ASSUME TypeOK, NEW e \in Rounds, NEW charge \in Nat, charge <= cost[e],
         cost' = [cost EXCEPT ![e] = @ - charge]
  PROVE  /\ cost' \in [Rounds -> Nat] /\ cost'[e] <= cost[e]
         /\ \A x \in Rounds \ {e} : cost'[x] = cost[x]
<1>1. cost[e] \in Nat /\ cost \in [Rounds -> Nat]
  BY DEF TypeOK
<1>2. cost[e] - charge \in Nat /\ cost[e] - charge <= cost[e]
  BY <1>1
<1>. QED
  BY <1>1, <1>2

(* Steps of a round in flight: it has returned nothing and returns nothing. *)
LEMMA RoundsAdvance ==
  ASSUME LedgerInv, NEW e \in Rounds, InFlight(e),
         UNCHANGED <<committed, refunded, snapshot>>,
         cost' \in [Rounds -> Nat], cost'[e] <= cost[e],
         epoch[e] # "none" /\ epoch'[e] # "none", buy'[e] # "none",
         buy'[e] = "finalized" <=> burn'[e] # "none",
         \A x \in Rounds \ {e} : /\ epoch'[x] = epoch[x] /\ cost'[x] = cost[x]
                                 /\ buy'[x] = buy[x] /\ burn'[x] = burn[x]
                                 /\ \A a \in Assets : swap'[<<x, a>>] = swap[<<x, a>>]
  PROVE  (\A x \in Rounds : RoundFits(x))'
<1>1. \A x \in Rounds : RoundFits(x)
  BY DEF LedgerInv
<1>2. ASSUME NEW x \in Rounds \ {e} PROVE RoundFits(x)'
  <2>1. RoundFits(x)
    BY <1>1
  <2>. QED
    BY <2>1 DEF RoundFits, InFlight
<1>3. RoundFits(e)'
  <2>1. snapshot[e] \in Snapshots /\ cost[e] <= SumFunction(committed[e])
        /\ ~\E r \in Receipts : refunded[e][r] > 0
    BY <1>1 DEF RoundFits
  <2>2. cost'[e] <= SumFunction(committed[e])
    <3>1. committed[e] \in [Receipts -> Nat] /\ cost[e] \in Nat /\ cost'[e] \in Nat
      BY DEF LedgerInv, TypeOK
    <3>2. SumFunction(committed[e]) \in Int
      <4>. DEFINE f == committed[e]
      <4>1. IsFiniteSet(Receipts) /\ DOMAIN f = Receipts /\ \A r \in Receipts : f[r] \in Int
        BY <3>1, TreasuryConstants
      <4>. HIDE DEF f
      <4>2. SumFunctionOnSet(f, Receipts) \in Int
        BY <4>1, SumInt
      <4>3. SumFunction(f) \in Int
        BY <4>1, <4>2, Zenon DEF SumFunction
      <4>. QED
        BY <4>3 DEF f
    <3>. QED
      BY <2>1, <3>1, <3>2
  <2>. QED
    BY <2>1, <2>2 DEF RoundFits
<1>. QED
  BY <1>2, <1>3

(* The shares of a purchase, credited claim by claim, are what was purchased. *)
LEMMA SharesCredited ==
  ASSUME NEW e \in Rounds, NEW a \in Assets, NEW balance \in Snapshots, NEW out \in Nat,
         NEW N, N = {k \in Claims : k[1] = e /\ k[2] = a /\ k[3] \in DOMAIN balance},
         NEW en2, \A k \in N : en2[k] = Allocate(out, balance)[k[3]]
  PROVE  SumFunctionOnSet(en2, N) = out
<1>. DEFINE D == DOMAIN balance
            rows == Allocate(out, balance)
            m == [o \in D |-> <<e, a, o>>]
<1>1. D \subseteq Owners /\ D # {} /\ IsFiniteSet(D) /\ \A o \in D : balance[o] \in Nat \ {0}
  BY TreasuryConstants, FS_Subset
<1>2. IsBalance(balance)
  <2>1. SumFunction(balance) = SumFunctionOnSet(balance, D)
    BY DEF SumFunction
  <2>2. PICK o \in D : TRUE
    BY <1>1
  <2>3. \A x \in D : balance[x] \in Nat
    BY <1>1
  <2>4. balance[o] <= SumFunctionOnSet(balance, D)
    BY <1>1, <2>3, SumBoundsMember
  <2>5. SumFunctionOnSet(balance, D) \in Nat
    BY <1>1, <2>3, SumNat
  <2>6. SumFunction(balance) > 0
    BY <1>1, <2>1, <2>4, <2>5
  <2>. QED
    BY <1>1, <2>3, <2>6, TreasuryConstants DEF IsBalance
<1>3. rows \in [D -> Nat] /\ SumFunction(rows) = out
  BY <1>2, AllocateSums
<1>4. \A o \in D : m[o] = <<e, a, o>> /\ m[o] \in N
  BY <1>1 DEF Claims
<1>5. N = {m[o] : o \in D}
  BY <1>1 DEF Claims
<1>. HIDE DEF D, rows, m
<1>6. \A o \in D : en2[m[o]] \in Int /\ rows[o] = en2[m[o]]
  <2>1. ASSUME NEW o \in D PROVE en2[m[o]] = rows[o]
    BY <1>4 DEF rows
  <2>. QED
    BY <1>3, <2>1
<1>7. \A x, y \in D : m[x] = m[y] => x = y
  BY <1>4
<1>8. SumFunctionOnSet(rows, D) = SumFunctionOnSet(en2, {m[o] : o \in D})
  BY <1>1, <1>6, <1>7, SumRename
<1>9. DOMAIN rows = D
  BY <1>3
<1>10. SumFunctionOnSet(rows, D) = out
  BY <1>3, <1>9, Zenon DEF SumFunction
<1>. QED
  BY <1>5, <1>8, <1>10, Zenon

LEMMA FinalizeSwapKeeps ==
  ASSUME LedgerInv, NEW e \in Rounds, NEW a \in Assets, NEW out \in Outputs, NEW charge \in Charges,
         FinalizeSwap(e, a, out, charge)
  PROVE  TypeOK' /\ ReceiptsFit' /\ DepositsFit' /\ (\A x \in Rounds : RoundFits(x))' /\ BackingFits'
<1>. DEFINE balance == snapshot[e]
            rows == Allocate(out, balance)
            N == {k \in Claims : k[1] = e /\ k[2] = a /\ k[3] \in DOMAIN balance}
<1>1. /\ swap[<<e, a>>] = "planned" /\ rows \in [DOMAIN balance -> Nat]
      /\ charge <= cost[e] /\ cost' = [cost EXCEPT ![e] = @ - charge]
      /\ budget' = [budget EXCEPT ![<<e, a>>] = 0]
      /\ liabilities' = [liabilities EXCEPT ![a] = @ + out]
      /\ entitled' = [k \in Claims |-> IF k[1] = e /\ k[2] = a /\ k[3] \in DOMAIN balance
                                       THEN rows[k[3]] ELSE entitled[k]]
      /\ swap' = [swap EXCEPT ![<<e, a>>] = "finalized"]
      /\ epoch' = [epoch EXCEPT ![e] = Refreshed(e, swap')]
      /\ UNCHANGED <<paused, receiptVars, useVars, reserve, buyback, operations, rounding, snapshot,
                     buy, burn, burnUnits, reserved, delivered, paid>>
  BY DEF FinalizeSwap
<1>2. TypeOK /\ ClaimInv /\ RoundFits(e) /\ BackingFits
  BY DEF LedgerInv
<1>3. out \in Nat /\ charge \in Nat /\ <<e, a>> \in Legs
  BY TreasuryConstants DEF Legs
<1>4. epoch[e] # "none" /\ balance \in Snapshots
  BY <1>1, <1>2, <1>3 DEF ClaimInv, NewRoundsAreUnbought, RoundFits
<1>5. Refreshed(e, swap') \in {"purchasing", "partial", "settled"}
  BY DEF Refreshed
<1>6. /\ cost' \in [Rounds -> Nat] /\ cost'[e] <= cost[e]
      /\ \A x \in Rounds \ {e} : cost'[x] = cost[x]
  BY <1>1, <1>2, <1>3, Charged
<1>7. \A k \in Claims : entitled'[k] = IF k \in N THEN rows[k[3]] ELSE entitled[k]
  BY <1>1
<1>8. entitled' \in [Claims -> Nat]
  BY <1>1, <1>2 DEF TypeOK
<1>. HIDE DEF rows
<1>9. TypeOK'
  <2>1. /\ budget' \in [Legs -> Nat] /\ liabilities' \in [Assets -> Nat]
        /\ swap' \in [Legs -> Statuses]
    BY <1>1, <1>2, <1>3 DEF TypeOK, Statuses
  <2>2. epoch' \in [Rounds -> {"none", "funded", "purchasing", "partial", "settled"}]
    BY <1>1, <1>2, <1>5 DEF TypeOK
  <2>3. UNCHANGED <<paused, class, reclassified, committed, refunded, dayFunding, revenue, reserve,
                    deposits, quarantine, buyback, operations, rounding, snapshot, buy, burn,
                    burnUnits, reserved, delivered, paid>>
    BY <1>1 DEF receiptVars, useVars
  <2>. QED
    BY <1>2, <1>6, <1>8, <2>1, <2>2, <2>3 DEF TypeOK
<1>10. (\A x \in Rounds : RoundFits(x))'
  <2>1. InFlight(e)
    BY <1>1 DEF InFlight
  <2>2. buy'[e] # "none" /\ (buy'[e] = "finalized" <=> burn'[e] # "none")
    BY <1>1, <1>2, <1>4 DEF RoundFits
  <2>3. epoch'[e] # "none" /\ \A x \in Rounds \ {e} : epoch'[x] = epoch[x]
    BY <1>1, <1>2, <1>5 DEF TypeOK
  <2>4. \A x \in Rounds \ {e} : \A y \in Assets : swap'[<<x, y>>] = swap[<<x, y>>]
    BY <1>1, <1>2 DEF TypeOK, Legs
  <2>5. UNCHANGED <<committed, refunded, snapshot, buy, burn>>
    BY <1>1 DEF useVars
  <2>. QED
    BY <1>4, <1>6, <2>1, <2>2, <2>3, <2>4, <2>5, RoundsAdvance
<1>11. BackingFits'
  <2>1. N \in SUBSET Of(a) /\ N \in SUBSET Claims
    BY DEF Of
  <2>2. ASSUME NEW k \in N
        PROVE  entitled[k] = 0 /\ paid[k] = 0 /\ \A b \in DOMAIN reserved : k \notin b
    <3>1. k \in Claims /\ k[1] = e /\ k[2] = a
      OBVIOUS
    <3>2. entitled[k] = 0
      BY <1>1, <1>2, <3>1 DEF ClaimInv, UnboughtCreditsNobody
    <3>. QED
      BY <1>2, <3>1, <3>2 DEF ClaimInv, PaidInFullOrNot, OneBatchPerClaim
  <2>3. SumFunctionOnSet(entitled', N) = out
    <3>1. \A k \in N : entitled'[k] = Allocate(out, balance)[k[3]]
      BY <1>7, <2>1 DEF rows
    <3>2. N = {k \in Claims : k[1] = e /\ k[2] = a /\ k[3] \in DOMAIN balance}
      OBVIOUS
    <3>. HIDE DEF N, balance
    <3>. QED
      BY <1>3, <1>4, <3>1, <3>2, SharesCredited
  <2>4. \A k \in Claims \ N : entitled'[k] = entitled[k]
    BY <1>7
  <2>5. liabilities'[a] = liabilities[a] + out /\ \A x \in Assets \ {a} : liabilities'[x] = liabilities[x]
    BY <1>1, <1>2 DEF TypeOK
  <2>6. /\ entitled \in [Claims -> Nat] /\ paid \in [Claims -> Nat] /\ DOMAIN liabilities = Assets
        /\ Backed(liabilities, reserved, delivered, entitled, paid)
    BY <1>2 DEF TypeOK, BackingFits
  <2>7. PICK en2 \in [Claims -> Nat] : en2 = entitled'
    BY <1>8
  <2>8. SumFunctionOnSet(en2, N) = out /\ \A k \in Claims \ N : en2[k] = entitled[k]
    BY <2>3, <2>4, <2>7, Zenon
  <2>9. PICK li2 : li2 = liabilities'
    OBVIOUS
  <2>10. li2[a] = liabilities[a] + out /\ \A x \in Assets \ {a} : li2[x] = liabilities[x]
    BY <2>5, <2>9
  <2>. HIDE DEF N
  <2>11. Backed(li2, reserved, delivered, en2, paid)
    BY <1>3, <2>1, <2>2, <2>6, <2>8, <2>10, CreditBacked
  <2>12. Backed(liabilities', reserved', delivered', entitled', paid')
    BY <1>1, <2>7, <2>9, <2>11
  <2>. QED
    BY <2>12 DEF BackingFits
<1>. QED
  BY <1>1, <1>9, <1>10, <1>11, PartsFrozen DEF LedgerInv, receiptVars, useVars

LEMMA FinalizeBuybackKeeps ==
  ASSUME LedgerInv, NEW e \in Rounds, NEW out \in Outputs, NEW charge \in Charges,
         FinalizeBuyback(e, out, charge)
  PROVE  TypeOK' /\ ReceiptsFit' /\ DepositsFit' /\ (\A x \in Rounds : RoundFits(x))' /\ BackingFits'
<1>1. /\ buy[e] = "planned" /\ charge <= cost[e] /\ cost' = [cost EXCEPT ![e] = @ - charge]
      /\ buyback' = [buyback EXCEPT ![e] = 0]
      /\ burnUnits' = [burnUnits EXCEPT ![e] = @ + out]
      /\ buy' = [buy EXCEPT ![e] = "finalized"] /\ burn' = [burn EXCEPT ![e] = "planned"]
      /\ epoch' = [epoch EXCEPT ![e] = Refreshed(e, swap)]
      /\ UNCHANGED <<paused, receiptVars, useVars, reserve, operations, rounding, budget, snapshot,
                     swap, liabilities, reserved, delivered, entitled, paid>>
  BY DEF FinalizeBuyback
<1>2. TypeOK /\ RoundFits(e)
  BY DEF LedgerInv
<1>3. out \in Nat /\ charge \in Nat
  BY TreasuryConstants
<1>4. Refreshed(e, swap) \in {"purchasing", "partial", "settled"}
  BY DEF Refreshed
<1>5. /\ cost' \in [Rounds -> Nat] /\ cost'[e] <= cost[e]
      /\ \A x \in Rounds \ {e} : cost'[x] = cost[x]
  BY <1>1, <1>2, <1>3, Charged
<1>6. TypeOK'
  <2>1. /\ buyback' \in [Rounds -> Nat] /\ burnUnits' \in [Rounds -> Nat]
        /\ buy' \in [Rounds -> Statuses] /\ burn' \in [Rounds -> Statuses]
    BY <1>1, <1>2, <1>3 DEF TypeOK, Statuses
  <2>2. epoch' \in [Rounds -> {"none", "funded", "purchasing", "partial", "settled"}]
    BY <1>1, <1>2, <1>4 DEF TypeOK
  <2>3. UNCHANGED <<paused, class, reclassified, committed, refunded, dayFunding, revenue, reserve,
                    deposits, quarantine, operations, rounding, budget, snapshot, swap,
                    liabilities, reserved, delivered, entitled, paid>>
    BY <1>1 DEF receiptVars, useVars
  <2>. QED
    BY <1>2, <1>5, <2>1, <2>2, <2>3 DEF TypeOK
<1>7. (\A x \in Rounds : RoundFits(x))'
  <2>1. InFlight(e)
    BY <1>1 DEF InFlight
  <2>2. /\ buy'[e] # "none" /\ (buy'[e] = "finalized" <=> burn'[e] # "none")
        /\ \A x \in Rounds \ {e} : buy'[x] = buy[x] /\ burn'[x] = burn[x]
    BY <1>1, <1>2 DEF TypeOK
  <2>3. epoch'[e] # "none" /\ \A x \in Rounds \ {e} : epoch'[x] = epoch[x]
    BY <1>1, <1>2, <1>4 DEF TypeOK
  <2>4. epoch[e] # "none"
    BY <1>1, <1>2 DEF RoundFits
  <2>5. UNCHANGED <<committed, refunded, snapshot, swap>>
    BY <1>1 DEF useVars
  <2>. QED
    BY <1>5, <2>1, <2>2, <2>3, <2>4, <2>5, RoundsAdvance
<1>8. BackingFits'
  BY <1>1 DEF LedgerInv, BackingFits
<1>. QED
  BY <1>1, <1>6, <1>7, <1>8, PartsFrozen DEF LedgerInv, receiptVars, useVars

LEMMA FinalizeBurnKeeps ==
  ASSUME LedgerInv, NEW e \in Rounds, NEW charge \in Charges, FinalizeBurn(e, charge)
  PROVE  TypeOK' /\ ReceiptsFit' /\ DepositsFit' /\ (\A x \in Rounds : RoundFits(x))' /\ BackingFits'
<1>1. /\ burn[e] = "planned" /\ charge <= cost[e] /\ cost' = [cost EXCEPT ![e] = @ - charge]
      /\ burnUnits' = [burnUnits EXCEPT ![e] = 0]
      /\ burn' = [burn EXCEPT ![e] = "finalized"]
      /\ epoch' = [epoch EXCEPT ![e] = Refreshed(e, swap)]
      /\ UNCHANGED <<paused, receiptVars, useVars, reserve, buyback, operations, rounding, budget,
                     snapshot, swap, buy, liabilities, reserved, delivered, entitled, paid>>
  BY DEF FinalizeBurn
<1>2. TypeOK /\ RoundFits(e)
  BY DEF LedgerInv
<1>3. charge \in Nat
  BY TreasuryConstants
<1>4. Refreshed(e, swap) \in {"purchasing", "partial", "settled"}
  BY DEF Refreshed
<1>5. /\ cost' \in [Rounds -> Nat] /\ cost'[e] <= cost[e]
      /\ \A x \in Rounds \ {e} : cost'[x] = cost[x]
  BY <1>1, <1>2, <1>3, Charged
<1>6. TypeOK'
  <2>1. burnUnits' \in [Rounds -> Nat] /\ burn' \in [Rounds -> Statuses]
    BY <1>1, <1>2 DEF TypeOK, Statuses
  <2>2. epoch' \in [Rounds -> {"none", "funded", "purchasing", "partial", "settled"}]
    BY <1>1, <1>2, <1>4 DEF TypeOK
  <2>3. UNCHANGED <<paused, class, reclassified, committed, refunded, dayFunding, revenue, reserve,
                    deposits, quarantine, buyback, operations, rounding, budget, snapshot, swap, buy,
                    liabilities, reserved, delivered, entitled, paid>>
    BY <1>1 DEF receiptVars, useVars
  <2>. QED
    BY <1>2, <1>5, <2>1, <2>2, <2>3 DEF TypeOK
<1>7. (\A x \in Rounds : RoundFits(x))'
  <2>1. InFlight(e)
    BY <1>1 DEF InFlight
  <2>2. /\ buy'[e] # "none" /\ (buy'[e] = "finalized" <=> burn'[e] # "none")
        /\ \A x \in Rounds \ {e} : buy'[x] = buy[x] /\ burn'[x] = burn[x]
    BY <1>1, <1>2 DEF TypeOK, RoundFits
  <2>3. epoch'[e] # "none" /\ \A x \in Rounds \ {e} : epoch'[x] = epoch[x]
    BY <1>1, <1>2, <1>4 DEF TypeOK
  <2>4. epoch[e] # "none"
    BY <1>1, <1>2 DEF RoundFits
  <2>5. UNCHANGED <<committed, refunded, snapshot, swap>>
    BY <1>1 DEF useVars
  <2>. QED
    BY <1>5, <2>1, <2>2, <2>3, <2>4, <2>5, RoundsAdvance
<1>8. BackingFits'
  BY <1>1 DEF LedgerInv, BackingFits
<1>. QED
  BY <1>1, <1>6, <1>7, <1>8, PartsFrozen DEF LedgerInv, receiptVars, useVars

LEMMA FailRoundAttemptKeeps ==
  ASSUME LedgerInv, NEW e \in Rounds, NEW fee \in Charges, FailRoundAttempt(e, fee)
  PROVE  TypeOK' /\ ReceiptsFit' /\ DepositsFit' /\ (\A x \in Rounds : RoundFits(x))' /\ BackingFits'
<1>1. /\ InFlight(e) /\ fee <= cost[e] /\ cost' = [cost EXCEPT ![e] = @ - fee]
      /\ UNCHANGED <<paused, receiptVars, useVars, reserve, buyback, operations, rounding, budget,
                     epoch, snapshot, swap, buy, burn, claimVars>>
  BY DEF FailRoundAttempt
<1>2. TypeOK /\ RoundFits(e) /\ ClaimInv
  BY DEF LedgerInv
<1>3. fee \in Nat
  BY TreasuryConstants
<1>4. /\ cost' \in [Rounds -> Nat] /\ cost'[e] <= cost[e]
      /\ \A x \in Rounds \ {e} : cost'[x] = cost[x]
  BY <1>1, <1>2, <1>3, Charged
<1>5. TypeOK'
  BY <1>1, <1>2, <1>4 DEF TypeOK, receiptVars, useVars, claimVars
<1>6. epoch[e] # "none"
  BY <1>1, <1>2 DEF RoundFits, InFlight, ClaimInv, NewRoundsAreUnbought, Legs
<1>7. (\A x \in Rounds : RoundFits(x))'
  <2>1. buy'[e] # "none" /\ (buy'[e] = "finalized" <=> burn'[e] # "none")
    BY <1>1, <1>2, <1>6 DEF RoundFits
  <2>2. UNCHANGED <<committed, refunded, snapshot, swap, epoch, buy, burn>>
    BY <1>1 DEF useVars
  <2>. QED
    BY <1>1, <1>4, <1>6, <2>1, <2>2, RoundsAdvance
<1>. QED
  BY <1>1, <1>5, <1>7, PartsFrozen DEF LedgerInv, receiptVars, useVars

LEMMA ReturnUnusedCostsKeeps ==
  ASSUME LedgerInv, NEW e \in Rounds, ReturnUnusedCosts(e)
  PROVE  TypeOK' /\ ReceiptsFit' /\ DepositsFit' /\ (\A x \in Rounds : RoundFits(x))' /\ BackingFits'
<1>. DEFINE part == Refunds(e)
<1>1. /\ epoch[e] # "none" /\ ~InFlight(e) /\ cost[e] > 0
      /\ revenue' = revenue + cost[e]
      /\ refunded' = [refunded EXCEPT ![e] = part]
      /\ cost' = [cost EXCEPT ![e] = 0]
      /\ UNCHANGED <<paused, receiptVars, committed, dayFunding, reserve, buyback, operations,
                     rounding, budget, epoch, snapshot, swap, buy, burn, claimVars>>
  BY DEF ReturnUnusedCosts
<1>2. TypeOK /\ RoundFits(e)
  BY DEF LedgerInv
<1>3. /\ part \in [Receipts -> Nat] /\ SumFunctionOnSet(part, Receipts) = cost[e]
      /\ \A r \in Receipts : part[r] <= committed[e][r]
  <2>1. committed[e] \in [Receipts -> Nat] /\ cost[e] \in Nat \ {0}
        /\ cost[e] <= SumFunction(committed[e])
    BY <1>1, <1>2 DEF TypeOK, RoundFits
  <2>. QED
    BY <2>1, RefundsSum
<1>. HIDE DEF part
<1>4. TypeOK'
  <2>1. refunded' \in [Rounds -> [Receipts -> Nat]] /\ cost' \in [Rounds -> Nat] /\ revenue' \in Nat
    BY <1>1, <1>2, <1>3 DEF TypeOK
  <2>. QED
    BY <1>1, <1>2, <2>1 DEF TypeOK, receiptVars, claimVars
<1>5. refunded'[e] = part /\ \A x \in Rounds \ {e} : refunded'[x] = refunded[x]
  BY <1>1, <1>2 DEF TypeOK
<1>6. ReceiptsFit'
  <2>1. /\ committed \in Ledger /\ refunded \in Ledger /\ Conserved(class, committed, refunded)
        /\ revenue = LeftInAll(class, committed, refunded)
        /\ refunded' \in Ledger
    BY <1>4 DEF LedgerInv, TypeOK, Ledger, ReceiptsFit
  <2>2. \A r \in Receipts : refunded[e][r] = 0 /\ part[r] <= committed[e][r]
    <3>1. \A r \in Receipts : refunded[e][r] \in Nat /\ ~(refunded[e][r] > 0)
      BY <1>1, <1>2 DEF RoundFits, TypeOK
    <3>. QED
      BY <1>3, <3>1
  <2>3. PICK back2 \in Ledger : back2 = refunded'
    BY <2>1
  <2>4. back2[e] = part /\ (\A x \in Rounds \ {e} : back2[x] = refunded[x]) /\ part \in [Receipts -> Nat]
    BY <1>3, <1>5, <2>3
  <2>5. /\ Conserved(class, committed, back2)
        /\ LeftInAll(class, committed, back2) =
              LeftInAll(class, committed, refunded) + SumFunctionOnSet(part, Receipts)
    BY <2>1, <2>2, <2>4, RoundReturns
  <2>6. revenue' = LeftInAll(class, committed, back2)
    BY <1>1, <1>3, <2>1, <2>5
  <2>. QED
    BY <1>1, <2>3, <2>5, <2>6 DEF ReceiptsFit, receiptVars
<1>7. (\A x \in Rounds : RoundFits(x))'
  <2>1. RoundFits(e)'
    <3>1. buy[e] = "finalized" /\ burn[e] = "finalized"
      BY <1>1, <1>2 DEF RoundFits, InFlight, TypeOK, Statuses
    <3>2. cost'[e] = 0 /\ ~InFlight(e)'
      BY <1>1, <1>2 DEF TypeOK, InFlight
    <3>3. 0 <= SumFunction(committed[e])
      <4>. DEFINE f == committed[e]
      <4>1. IsFiniteSet(Receipts) /\ DOMAIN f = Receipts /\ \A r \in Receipts : f[r] \in Nat
        BY <1>2, TreasuryConstants DEF TypeOK
      <4>. HIDE DEF f
      <4>2. SumFunctionOnSet(f, Receipts) \in Nat
        BY <4>1, SumNat
      <4>3. SumFunction(f) \in Nat
        BY <4>1, <4>2, Zenon DEF SumFunction
      <4>. QED
        BY <4>3 DEF f
    <3>. QED
      BY <1>1, <1>2, <3>1, <3>2, <3>3 DEF RoundFits
  <2>2. ASSUME NEW x \in Rounds \ {e} PROVE RoundFits(x)'
    <3>1. cost'[x] = cost[x] /\ refunded'[x] = refunded[x]
      BY <1>1, <1>2, <1>5 DEF TypeOK
    <3>2. RoundFits(x)
      BY DEF LedgerInv
    <3>. QED
      BY <1>1, <3>1, <3>2 DEF RoundFits, InFlight
  <2>. QED
    BY <2>1, <2>2
<1>. QED
  BY <1>1, <1>4, <1>6, <1>7, PartsFrozen DEF LedgerInv, receiptVars

(* What a set of claims is owed. *)
LEMMA DueIsNat ==
  ASSUME ClaimInv, NEW S \in SUBSET Claims
  PROVE  /\ SumFunctionOnSet(Due(entitled, paid), S) \in Nat
         /\ DueOn(S) = SumFunctionOnSet(Due(entitled, paid), S)
<1>. DEFINE due == Due(entitled, paid)
            f == [k \in S |-> entitled[k] - paid[k]]
<1>1. \A k \in Claims : due[k] \in Nat
  BY DEF Due, ClaimInv, PaidInFullOrNot
<1>2. IsFiniteSet(S)
  BY ClaimSets
<1>3. DOMAIN f = S /\ \A k \in S : f[k] = due[k]
  BY DEF Due
<1>4. DueOn(S) = SumFunction(f)
  BY DEF DueOn
<1>. HIDE DEF due, f
<1>5. SumFunctionOnSet(due, S) \in Nat
  <2>1. \A k \in S : due[k] \in Nat
    BY <1>1
  <2>. QED
    BY <1>2, <2>1, SumNat
<1>6. SumFunctionOnSet(f, S) = SumFunctionOnSet(due, S)
  BY <1>2, <1>3, SumSame
<1>7. SumFunction(f) = SumFunctionOnSet(f, S)
  BY <1>3, Zenon DEF SumFunction
<1>. QED
  BY <1>4, <1>5, <1>6, <1>7 DEF due

LEMMA SchedulePayoutKeeps ==
  ASSUME LedgerInv, NEW a \in Assets, NEW owners \in SUBSET Owners, SchedulePayout(a, owners)
  PROVE  TypeOK' /\ ReceiptsFit' /\ DepositsFit' /\ (\A x \in Rounds : RoundFits(x))' /\ BackingFits'
<1>. DEFINE batch == UNION {Unbatched(a, o) : o \in owners}
            due == Due(entitled, paid)
<1>1. /\ liabilities' = [liabilities EXCEPT ![a] = @ - DueOn(batch)]
      /\ reserved' = [b \in DOMAIN reserved \cup {batch} |->
                          IF b = batch THEN DueOn(batch) ELSE reserved[b]]
      /\ UNCHANGED <<paused, receiptVars, useVars, reserve, roundVars, burnUnits, delivered,
                     entitled, paid>>
  BY DEF SchedulePayout
<1>2. TypeOK /\ ClaimInv /\ Backed(liabilities, reserved, delivered, entitled, paid)
  BY DEF LedgerInv, BackingFits
<1>3. batch \in SUBSET FreeOf(DOMAIN reserved, a) /\ batch \in SUBSET Claims
  BY DEF Unbatched, FreeOf, Of, InBatch
<1>. HIDE DEF batch, due
<1>4. DueOn(batch) = SumFunctionOnSet(due, batch) /\ DueOn(batch) \in Nat
  BY <1>2, <1>3, DueIsNat DEF due
<1>5. /\ DOMAIN reserved' = DOMAIN reserved \cup {batch}
      /\ reserved'[batch] = SumFunctionOnSet(due, batch)
      /\ \A b \in DOMAIN reserved \ {batch} : reserved'[b] = reserved[b]
  BY <1>1, <1>4
<1>6. /\ liabilities'[a] = liabilities[a] - SumFunctionOnSet(due, batch)
      /\ \A x \in Assets \ {a} : liabilities'[x] = liabilities[x]
      /\ liabilities' = [x \in Assets |-> liabilities'[x]]
  BY <1>1, <1>2, <1>4 DEF TypeOK
<1>7. /\ Backed(liabilities', reserved', delivered, entitled, paid)
      /\ liabilities'[a] = SumFunctionOnSet(due, FreeOf(DOMAIN reserved', a))
  <2>1. entitled \in [Claims -> Nat] /\ paid \in [Claims -> Nat]
    BY <1>2 DEF TypeOK
  <2>2. PICK li2, res2 : li2 = liabilities' /\ res2 = reserved'
    OBVIOUS
  <2>3. /\ DOMAIN res2 = DOMAIN reserved \cup {batch}
        /\ res2[batch] = SumFunctionOnSet(Due(entitled, paid), batch)
        /\ \A b \in DOMAIN reserved \ {batch} : res2[b] = reserved[b]
        /\ li2[a] = liabilities[a] - SumFunctionOnSet(Due(entitled, paid), batch)
        /\ \A x \in Assets \ {a} : li2[x] = liabilities[x]
    BY <1>5, <1>6, <2>2 DEF due
  <2>4. /\ Backed(li2, res2, delivered, entitled, paid)
        /\ li2[a] = SumFunctionOnSet(Due(entitled, paid), FreeOf(DOMAIN res2, a))
    BY <1>2, <1>3, <2>1, <2>3, ReserveBacked
  <2>. QED
    BY <2>2, <2>4 DEF due
<1>8. liabilities'[a] \in Nat
  <2>1. FreeOf(DOMAIN reserved', a) \in SUBSET Claims
    BY DEF FreeOf, Of
  <2>2. SumFunctionOnSet(due, FreeOf(DOMAIN reserved', a)) \in Nat
    BY <1>2, <2>1, DueIsNat DEF due
  <2>. QED
    BY <1>7, <2>2, Zenon
<1>9. TypeOK'
  <2>1. liabilities' \in [Assets -> Nat]
    <3>1. \A x \in Assets : liabilities'[x] \in Nat
      BY <1>2, <1>6, <1>8 DEF TypeOK
    <3>. QED
      BY <1>6, <3>1
  <2>2. reserved' \in [DOMAIN reserved' -> Nat] /\ DOMAIN reserved' \subseteq SUBSET Claims
    BY <1>1, <1>2, <1>3, <1>4 DEF TypeOK
  <2>3. UNCHANGED <<paused, receiptVars, useVars, reserve, roundVars, burnUnits, delivered,
                    entitled, paid>>
    BY <1>1
  <2>. QED
    BY <1>2, <2>1, <2>2, <2>3 DEF TypeOK, receiptVars, useVars, roundVars
<1>10. BackingFits'
  BY <1>1, <1>7 DEF BackingFits
<1>. QED
  BY <1>1, <1>9, <1>10, PartsFrozen DEF LedgerInv, receiptVars, useVars, roundVars

LEMMA FinalizePayoutKeeps ==
  ASSUME LedgerInv, NEW b \in DOMAIN reserved, NEW charge \in Charges, FinalizePayout(b, charge)
  PROVE  TypeOK' /\ ReceiptsFit' /\ DepositsFit' /\ (\A x \in Rounds : RoundFits(x))' /\ BackingFits'
<1>1. /\ charge <= reserve - MinReserve /\ reserve' = reserve - charge
      /\ \E k \in b : delivered' = [delivered EXCEPT ![k[2]] = @ + reserved[b]]
      /\ paid' = [k \in Claims |-> IF k \in b THEN entitled[k] ELSE paid[k]]
      /\ reserved' = [x \in DOMAIN reserved \ {b} |-> reserved[x]]
      /\ UNCHANGED <<paused, receiptVars, useVars, roundVars, liabilities, burnUnits, entitled>>
  BY DEF FinalizePayout
<1>2. TypeOK /\ ClaimInv /\ Backed(liabilities, reserved, delivered, entitled, paid)
  BY DEF LedgerInv, BackingFits
<1>3. PICK a \in Assets : b \subseteq Of(a)
  BY <1>2 DEF Backed
<1>4. charge \in Nat /\ MinReserve \in Nat /\ reserved[b] \in Nat
  BY <1>2, TreasuryConstants DEF TypeOK
<1>5. delivered' = [delivered EXCEPT ![a] = @ + reserved[b]]
  <2>1. \A k \in b : k[2] = a
    BY <1>3 DEF Of
  <2>. QED
    BY <1>1, <2>1
<1>6. paid' \in [Claims -> Nat]
  BY <1>1, <1>2 DEF TypeOK
<1>7. TypeOK'
  <2>1. reserve' \in Nat
    BY <1>1, <1>2, <1>4 DEF TypeOK
  <2>2. delivered' \in [Assets -> Nat]
    BY <1>2, <1>4, <1>5 DEF TypeOK
  <2>3. reserved' \in [DOMAIN reserved' -> Nat] /\ DOMAIN reserved' \subseteq SUBSET Claims
    BY <1>1, <1>2 DEF TypeOK
  <2>4. UNCHANGED <<paused, receiptVars, useVars, roundVars, liabilities, burnUnits, entitled>>
    BY <1>1
  <2>. QED
    BY <1>2, <1>6, <2>1, <2>2, <2>3, <2>4 DEF TypeOK, receiptVars, useVars, roundVars
<1>8. BackingFits'
  <2>1. \A k \in b : paid[k] = 0
    BY <1>2 DEF ClaimInv, OneBatchPerClaim
  <2>2. \A c \in DOMAIN reserved : c # b => c \cap b = {}
    BY <1>2 DEF ClaimInv, OneBatchPerClaim
  <2>3. entitled \in [Claims -> Nat] /\ paid \in [Claims -> Nat]
    BY <1>2 DEF TypeOK
  <2>4. PICK res2, de2 : res2 = reserved' /\ de2 = delivered'
    OBVIOUS
  <2>5. PICK pa2 \in [Claims -> Nat] : pa2 = paid'
    BY <1>6
  <2>6. /\ DOMAIN res2 = DOMAIN reserved \ {b} /\ \A c \in DOMAIN res2 : res2[c] = reserved[c]
    BY <1>1, <2>4
  <2>7. de2[a] = delivered[a] + reserved[b] /\ \A x \in Assets \ {a} : de2[x] = delivered[x]
    BY <1>2, <1>5, <2>4 DEF TypeOK
  <2>8. \A k \in Claims : pa2[k] = IF k \in b THEN entitled[k] ELSE paid[k]
    BY <1>1, <2>5
  <2>9. Backed(liabilities, res2, de2, entitled, pa2)
    <3>1. Backed(liabilities, reserved, delivered, entitled, paid)
      BY <1>2
    <3>. QED
      BY <3>1, <1>3, <2>1, <2>2, <2>3, <2>6, <2>7, <2>8, DeliverBacked, SMTT(60)
  <2>. QED
    BY <1>1, <2>4, <2>5, <2>9 DEF BackingFits
<1>. QED
  BY <1>1, <1>7, <1>8, PartsFrozen DEF LedgerInv, receiptVars, useVars, roundVars

LEMMA LedgerStarts == Init => LedgerInv
<1>. SUFFICES ASSUME Init PROVE LedgerInv
  OBVIOUS
<1>1. ClaimInv
  BY ClaimsStart
<1>2. TypeOK
  BY TreasuryConstants DEF Init, TypeOK, Classes, Statuses, NoBalance
<1>. DEFINE zero == [r \in Receipts |-> 0]
<1>3. /\ class = [r \in Receipts |-> "none"] /\ reclassified = {}
      /\ committed = [e \in Rounds |-> zero] /\ refunded = [e \in Rounds |-> zero]
      /\ revenue = 0 /\ deposits = 0
  BY DEF Init
<1>4. ReceiptsFit
  <2>1. \A r \in Receipts : UsedIn(committed, refunded, r) = 0
    <3>1. ASSUME NEW r \in Receipts PROVE UsedIn(committed, refunded, r) = 0
      <4>. DEFINE net == [e \in Rounds |-> committed[e][r] - refunded[e][r]]
      <4>1. IsFiniteSet(Rounds) /\ \A e \in Rounds : net[e] = 0
        BY <1>3, TreasuryConstants
      <4>. HIDE DEF net
      <4>2. SumFunctionOnSet(net, Rounds) = 0
        BY <4>1, SumZero
      <4>. QED
        BY <4>2 DEF net, UsedIn
    <3>. QED
      BY <3>1
  <2>2. Conserved(class, committed, refunded)
    BY <1>3, <2>1 DEF Conserved
  <2>3. LeftInAll(class, committed, refunded) = 0
    <3>. DEFINE f == [r \in Receipts |-> LeftIn(class, committed, refunded, r)]
    <3>1. IsFiniteSet(Receipts) /\ \A r \in Receipts : f[r] = 0
      BY <1>3, TreasuryConstants DEF LeftIn
    <3>. HIDE DEF f
    <3>2. SumFunctionOnSet(f, Receipts) = 0
      BY <3>1, SumZero
    <3>. QED
      BY <3>2 DEF f, LeftInAll
  <2>. QED
    BY <1>3, <2>2, <2>3 DEF ReceiptsFit
<1>5. DepositsFit
  <2>1. PendingIn(class, reclassified) = {}
    BY <1>3 DEF PendingIn
  <2>2. SumFunctionOnSet(Amount, PendingIn(class, reclassified)) = 0
    BY <2>1, SumEmpty, Zenon
  <2>. QED
    BY <1>3, <2>2 DEF DepositsFit
<1>6. \A e \in Rounds : RoundFits(e)
  <2>1. SumFunction(zero) = 0
    <3>1. IsFiniteSet(Receipts) /\ DOMAIN zero = Receipts /\ \A r \in Receipts : zero[r] = 0
      BY TreasuryConstants
    <3>. HIDE DEF zero
    <3>2. SumFunctionOnSet(zero, Receipts) = 0
      BY <3>1, SumZero
    <3>. QED
      BY <3>1, <3>2, Zenon DEF SumFunction
  <2>2. ASSUME NEW e \in Rounds
        PROVE  /\ epoch[e] = "none" /\ cost[e] = 0 /\ buy[e] = "none" /\ burn[e] = "none"
               /\ committed[e] = zero /\ \A r \in Receipts : committed[e][r] = 0 /\ refunded[e][r] = 0
    BY DEF Init
  <2>3. \A e \in Rounds : SumFunction(committed[e]) = 0
    BY <2>1, <2>2, Zenon
  <2>. QED
    BY <2>2, <2>3 DEF RoundFits
<1>7. BackingFits
  <2>1. /\ DOMAIN reserved = {} /\ \A a \in Assets : liabilities[a] = 0 /\ delivered[a] = 0
        /\ \A k \in Claims : entitled[k] = 0 /\ paid[k] = 0
    BY DEF Init
  <2>. DEFINE due == Due(entitled, paid)
  <2>2. \A k \in Claims : due[k] = 0
    BY <2>1 DEF Due
  <2>. HIDE DEF due
  <2>3. ASSUME NEW a \in Assets
        PROVE  /\ SumFunctionOnSet(due, FreeOf(DOMAIN reserved, a)) = 0
               /\ SumFunctionOnSet(paid, Of(a)) = 0
    <3>. DEFINE F == FreeOf(DOMAIN reserved, a)
                O == Of(a)
    <3>1. IsFiniteSet(F) /\ F \in SUBSET Claims /\ IsFiniteSet(O) /\ O \in SUBSET Claims
      BY ClaimSets DEF FreeOf, Of
    <3>. HIDE DEF F, O
    <3>2. \A k \in F : due[k] = 0
      BY <2>2, <3>1
    <3>3. \A k \in O : paid[k] = 0
      BY <2>1, <3>1
    <3>4. SumFunctionOnSet(due, F) = 0 /\ SumFunctionOnSet(paid, O) = 0
      BY <3>1, <3>2, <3>3, SumZero
    <3>. QED
      BY <3>4 DEF F, O
  <2>4. \A a \in Assets : /\ liabilities[a] = SumFunctionOnSet(due, FreeOf(DOMAIN reserved, a))
                          /\ delivered[a] = SumFunctionOnSet(paid, Of(a))
    BY <2>1, <2>3
  <2>. QED
    BY <2>1, <2>4 DEF BackingFits, Backed, due
<1>. QED
  BY <1>1, <1>2, <1>4, <1>5, <1>6, <1>7 DEF LedgerInv

LEMMA LedgerStep ==
  ASSUME LedgerInv, [Next]_vars
  PROVE  LedgerInv'
<1>1. ClaimInv'
  BY ClaimStep DEF LedgerInv
<1>2. TypeOK' /\ ReceiptsFit' /\ DepositsFit' /\ (\A x \in Rounds : RoundFits(x))' /\ BackingFits'
  <2>1. CASE \E r \in Receipts, c \in Classes : Ingest(r, c)
    BY <2>1, IngestKeeps
  <2>2. CASE \E r \in Receipts : IngestCapital(r)
    BY <2>2, IngestCapitalKeeps
  <2>3. CASE \E r \in Receipts : Reclassify(r)
    BY <2>3, ReclassifyKeeps
  <2>4. CASE \E e \in Rounds, f \in Fundings, b \in Snapshots : Plan(e, f, b)
    BY <2>4, PlanKeeps
  <2>5. CASE \E e \in Rounds, a \in Assets, out \in Outputs, c \in Charges :
                FinalizeSwap(e, a, out, c)
    BY <2>5, FinalizeSwapKeeps
  <2>6. CASE \E e \in Rounds, out \in Outputs, c \in Charges : FinalizeBuyback(e, out, c)
    BY <2>6, FinalizeBuybackKeeps
  <2>7. CASE \E e \in Rounds, c \in Charges : FinalizeBurn(e, c)
    BY <2>7, FinalizeBurnKeeps
  <2>8. CASE \E e \in Rounds, c \in Charges : FailRoundAttempt(e, c)
    BY <2>8, FailRoundAttemptKeeps
  <2>9. CASE \E e \in Rounds : ReturnUnusedCosts(e)
    BY <2>9, ReturnUnusedCostsKeeps
  <2>10. CASE \E a \in Assets, owners \in SUBSET Owners : SchedulePayout(a, owners)
    BY <2>10, SchedulePayoutKeeps
  <2>11. CASE \E b \in DOMAIN reserved, c \in Charges : FinalizePayout(b, c)
    BY <2>11, FinalizePayoutKeeps
  <2>12. CASE (\E c \in Charges : FailPayoutAttempt(c)) \/ NewDay \/ TogglePause \/ UNCHANGED vars
    BY <2>12, SmallStepsKeep
  <2>. QED
    BY <2>1, <2>2, <2>3, <2>4, <2>5, <2>6, <2>7, <2>8, <2>9, <2>10, <2>11, <2>12 DEF Next
<1>. QED
  BY <1>1, <1>2 DEF LedgerInv

(* What is taken of a receipt leaves nothing in the older ones. *)
LEMMA OldestTaken ==
  ASSUME LedgerInv, NEW funding \in Nat, NEW q \in Receipts, NEW r \in Receipts,
         Older(q, r), Take(r, funding) > 0
  PROVE  Take(q, funding) = AvailableOf(q)
<1>. DEFINE avail == [x \in Receipts |-> AvailableOf(x)]
            Oq == {x \in Receipts : Older(x, q)}
            Or == {x \in Receipts : Older(x, r)}
            T == Oq \cup {q}
<1>1. \A x \in Receipts : AvailableOf(x) \in Nat
  <2>1. /\ committed \in Ledger /\ refunded \in Ledger /\ Conserved(class, committed, refunded)
    BY DEF LedgerInv, TypeOK, Ledger, ReceiptsFit
  <2>. QED
    BY <2>1, Views, LeftIsNat
<1>2. /\ AvailableBefore(r) \in Nat /\ AvailableBefore(q) \in Nat
      /\ Take(r, funding) > 0 => funding - AvailableBefore(r) > 0
      /\ funding - AvailableBefore(q) > 0 /\ AvailableOf(q) <= funding - AvailableBefore(q)
            => Take(q, funding) = AvailableOf(q)
      /\ AvailableOf(q) \in Nat
  <2>1. /\ AvailableBefore(r) \in Nat
        /\ Take(r, funding) = IF funding - AvailableBefore(r) <= 0 THEN 0
                               ELSE IF AvailableOf(r) <= funding - AvailableBefore(r)
                                    THEN AvailableOf(r) ELSE funding - AvailableBefore(r)
    BY <1>1, TakeOf
  <2>2. /\ AvailableBefore(q) \in Nat
        /\ Take(q, funding) = IF funding - AvailableBefore(q) <= 0 THEN 0
                               ELSE IF AvailableOf(q) <= funding - AvailableBefore(q)
                                    THEN AvailableOf(q) ELSE funding - AvailableBefore(q)
    BY <1>1, TakeOf
  <2>3. AvailableOf(q) \in Nat /\ funding \in Nat
    BY <1>1
  <2>. QED
    BY <2>1, <2>2, <2>3
<1>3. AvailableBefore(q) + AvailableOf(q) <= AvailableBefore(r)
  <2>1. /\ \A x, y, z \in Receipts : Older(x, y) /\ Older(y, z) => Older(x, z)
        /\ \A x \in Receipts : ~Older(x, x)
    BY AgeIsOrder DEF StrictOrder, Age
  <2>2. T \in SUBSET Or /\ q \in T /\ T \ {q} = Oq
    BY <2>1
  <2>3. IsFiniteSet(Or) /\ IsFiniteSet(T) /\ IsFiniteSet(Or \ T) /\ IsFiniteSet(Oq)
    <3>1. IsFiniteSet(Receipts) /\ Or \in SUBSET Receipts /\ T \in SUBSET Receipts
          /\ Or \ T \in SUBSET Receipts /\ Oq \in SUBSET Receipts
      BY TreasuryConstants
    <3>. HIDE DEF Or, T, Oq
    <3>. QED
      BY <3>1, FS_Subset
  <2>4. /\ \A x \in Or : avail[x] \in Nat
        /\ avail[q] = AvailableOf(q) /\ Or \in SUBSET Receipts
    BY <1>1
  <2>5. AvailableBefore(q) = SumFunctionOnSet(avail, Oq)
        /\ AvailableBefore(r) = SumFunctionOnSet(avail, Or)
    BY DEF AvailableBefore
  <2>. HIDE DEF avail, Oq, Or, T
  <2>6. SumFunctionOnSet(avail, Or) = SumFunctionOnSet(avail, T) + SumFunctionOnSet(avail, Or \ T)
    <3>1. \A x \in Or : avail[x] \in Int
      BY <2>4
    <3>. QED
      BY <2>2, <2>3, <3>1, SumSplit
  <2>7. SumFunctionOnSet(avail, T) = avail[q] + SumFunctionOnSet(avail, T \ {q})
    <3>1. \A x \in T : avail[x] \in Int
      BY <2>2, <2>4
    <3>. QED
      BY <2>2, <2>3, <3>1, SumRemove
  <2>8. SumFunctionOnSet(avail, T \ {q}) = SumFunctionOnSet(avail, Oq)
    BY <2>2, Zenon
  <2>9. SumFunctionOnSet(avail, Or \ T) \in Nat /\ SumFunctionOnSet(avail, Oq) \in Nat
    <3>1. \A x \in Or \ T : avail[x] \in Nat
      BY <2>4
    <3>2. SumFunctionOnSet(avail, Or \ T) \in Nat
      BY <2>3, <3>1, SumNat
    <3>. QED
      BY <1>2, <2>5, <3>2
  <2>. QED
    BY <1>2, <2>4, <2>5, <2>6, <2>7, <2>8, <2>9
<1>4. funding - AvailableBefore(q) > 0 /\ AvailableOf(q) <= funding - AvailableBefore(q)
  <2>1. funding - AvailableBefore(r) > 0
    BY <1>2
  <2>. HIDE DEF avail, Oq, Or, T
  <2>. QED
    BY <1>2, <1>3, <2>1
<1>. QED
  BY <1>2, <1>4

(* Only a commitment makes a round that did not exist. *)
LEMMA OnlyPlanCreates ==
  ASSUME LedgerInv, [Next]_vars, NEW e \in Rounds, epoch[e] = "none", epoch'[e] # "none"
  PROVE  \E f \in Fundings, b \in Snapshots : Plan(e, f, b)
<1>1. TypeOK /\ ClaimInv /\ \A x \in Rounds : RoundFits(x)
  BY DEF LedgerInv
<1>2. ASSUME NEW x \in Rounds, NEW s, epoch' = [epoch EXCEPT ![x] = s] PROVE x = e
  BY <1>1, <1>2 DEF TypeOK
<1>3. CASE \E x \in Rounds, f \in Fundings, b \in Snapshots : Plan(x, f, b)
  <2>1. PICK x \in Rounds, f \in Fundings, b \in Snapshots : Plan(x, f, b)
    BY <1>3
  <2>2. x = e
    BY <1>2, <2>1 DEF Plan
  <2>. QED
    BY <2>1, <2>2
<1>4. ASSUME NEW x \in Rounds, NEW a \in Assets, NEW out \in Outputs, NEW c \in Charges,
             FinalizeSwap(x, a, out, c)
      PROVE  FALSE
  <2>1. swap[<<x, a>>] = "planned" /\ epoch' = [epoch EXCEPT ![x] = Refreshed(x, swap')]
    BY <1>4 DEF FinalizeSwap
  <2>2. x = e /\ <<x, a>> \in Legs
    BY <1>2, <2>1 DEF Legs
  <2>. QED
    BY <1>1, <2>1, <2>2 DEF ClaimInv, NewRoundsAreUnbought
<1>5. ASSUME NEW x \in Rounds, NEW out \in Outputs, NEW c \in Charges, FinalizeBuyback(x, out, c)
      PROVE  FALSE
  <2>1. buy[x] = "planned" /\ epoch' = [epoch EXCEPT ![x] = Refreshed(x, swap)]
    BY <1>5 DEF FinalizeBuyback
  <2>2. x = e
    BY <1>2, <2>1
  <2>. QED
    BY <1>1, <2>1, <2>2 DEF RoundFits
<1>6. ASSUME NEW x \in Rounds, NEW c \in Charges, FinalizeBurn(x, c)
      PROVE  FALSE
  <2>1. burn[x] = "planned" /\ epoch' = [epoch EXCEPT ![x] = Refreshed(x, swap)]
    BY <1>6 DEF FinalizeBurn
  <2>2. x = e
    BY <1>2, <2>1
  <2>. QED
    BY <1>1, <2>1, <2>2 DEF RoundFits
<1>7. epoch' # epoch
  OBVIOUS
<1>8. CASE (\E r \in Receipts, c \in Classes : Ingest(r, c))
           \/ \E r \in Receipts : IngestCapital(r) \/ Reclassify(r)
  BY <1>7, <1>8 DEF Ingest, IngestCapital, Reclassify, roundVars
<1>9. CASE (\E x \in Rounds, c \in Charges : FailRoundAttempt(x, c))
           \/ \E x \in Rounds : ReturnUnusedCosts(x)
  BY <1>7, <1>9 DEF FailRoundAttempt, ReturnUnusedCosts
<1>10. CASE (\E a \in Assets, owners \in SUBSET Owners : SchedulePayout(a, owners))
            \/ \E b \in DOMAIN reserved, c \in Charges : FinalizePayout(b, c)
  BY <1>7, <1>10 DEF SchedulePayout, FinalizePayout, roundVars
<1>11. CASE (\E c \in Charges : FailPayoutAttempt(c)) \/ NewDay \/ TogglePause \/ UNCHANGED vars
  BY <1>7, <1>11 DEF FailPayoutAttempt, NewDay, TogglePause, vars, roundVars
<1>. QED
  BY <1>3, <1>4, <1>5, <1>6, <1>8, <1>9, <1>10, <1>11 DEF Next

LEMMA OldestStep ==
  ASSUME LedgerInv, [Next]_vars
  PROVE  \A e \in Rounds : epoch[e] = "none" /\ epoch'[e] # "none" =>
            \A q, r \in Receipts :
                Older(q, r) /\ committed'[e][r] > 0 => committed'[e][q] = AvailableOf(q)
<1>. SUFFICES ASSUME NEW e \in Rounds, epoch[e] = "none", epoch'[e] # "none",
                     NEW q \in Receipts, NEW r \in Receipts, Older(q, r), committed'[e][r] > 0
              PROVE  committed'[e][q] = AvailableOf(q)
  OBVIOUS
<1>1. PICK f \in Fundings, b \in Snapshots : Plan(e, f, b)
  BY OnlyPlanCreates
<1>2. f \in Nat
  BY TreasuryConstants
<1>3. committed'[e][q] = Take(q, f) /\ committed'[e][r] = Take(r, f)
  <2>1. committed' = [committed EXCEPT ![e] = [x \in Receipts |-> Take(x, f)]]
    BY <1>1 DEF Plan
  <2>2. DOMAIN committed = Rounds
    BY DEF LedgerInv, TypeOK
  <2>. QED
    BY <2>1, <2>2
<1>. QED
  BY <1>2, <1>3, OldestTaken

-----------------------------------------------------------------------------
(* Theorems *)

(* The ledger's parts fit together in every reachable state. *)
THEOREM LedgerFits == Spec => []LedgerInv
<1>1. LedgerInv /\ [Next]_vars => LedgerInv'
  BY LedgerStep
<1>. QED
  BY <1>1, LedgerStarts, PTL DEF Spec

(* Every account, receipt, round, claim and batch keeps its type; no balance is negative. *)
THEOREM TypeCorrect == Spec => []TypeOK
<1>1. LedgerInv => TypeOK
  BY DEF LedgerInv
<1>. QED
  BY <1>1, LedgerFits, PTL

(* Revenue is what the recorded creator receipts have unassigned. *)
THEOREM RevenueMatches == Spec => []RevenueIsUnassigned
<1>1. LedgerInv => RevenueIsUnassigned
  BY InvImpliesProperties
<1>. QED
  BY <1>1, LedgerFits, PTL

(* No receipt funds more than it brought, no round returns more than it took. *)
THEOREM ReceiptsHold == Spec => []ReceiptsConserved
<1>1. LedgerInv => ReceiptsConserved
  BY InvImpliesProperties
<1>. QED
  BY <1>1, LedgerFits, PTL

(* The cost allowance of a round outlives everything that may still spend it. *)
THEOREM AllowanceOutlives == Spec => []AllowanceOutlivesIntents
<1>1. LedgerInv => AllowanceOutlivesIntents
  BY InvImpliesProperties
<1>. QED
  BY <1>1, LedgerFits, PTL

(* The deposits balance is what arrived and nobody recognized as capital. *)
THEOREM DepositsMatch == Spec => []DepositsAreAccounted
<1>1. LedgerInv => DepositsAreAccounted
  BY InvImpliesProperties
<1>. QED
  BY <1>1, LedgerFits, PTL

(* What the accounts owe and have delivered is what the claims record, token by token. *)
THEOREM ClaimsBacked == Spec => []ClaimsAreBacked
<1>1. LedgerInv => ClaimsAreBacked
  BY InvImpliesProperties
<1>. QED
  BY <1>1, LedgerFits, PTL

(* A round spends a receipt only when every older one is used up. *)
THEOREM OldestFirst == Spec => OldestReceiptsFirst
<1>1. LedgerInv /\ [Next]_vars =>
        [\A e \in Rounds : epoch[e] = "none" /\ epoch'[e] # "none" =>
            \A q, r \in Receipts :
                Older(q, r) /\ committed'[e][r] > 0 => committed'[e][q] = AvailableOf(q)]_vars
  BY OldestStep
<1>. QED
  BY <1>1, LedgerFits, PTL DEF Spec, OldestReceiptsFirst

(* Entitlements, payments and batches fit together in every reachable state. *)
THEOREM ClaimsFit == Spec => []ClaimInv
<1>1. Init => ClaimInv
  BY ClaimsStart
<1>2. ClaimInv /\ [Next]_vars => ClaimInv'
  BY ClaimStep
<1>. QED
  BY <1>1, <1>2, PTL DEF Spec

(* A payout batch holds claims that are owed in full and in no other batch. *)
THEOREM BatchesAreDisjoint == Spec => []OneBatchPerClaim
<1>1. ClaimInv => OneBatchPerClaim
  BY DEF ClaimInv
<1>. QED
  BY <1>1, ClaimsFit, PTL

(* Every behaviour of the ledger keeps the promise to the holders: each claim is         *)
(* credited once and delivered once, and nothing takes it back.                          *)
THEOREM PromiseKept == Spec => KeepsPromise
<1>1. Init => Promise!Init
  BY ClaimsStart
<1>2. ClaimInv /\ [Next]_vars => [Promise!Next]_Stage
  BY ClaimStep
<1>. QED
  BY <1>1, <1>2, ClaimsFit, PTL DEF Spec, Promise!Spec, KeepsPromise
=============================================================================
