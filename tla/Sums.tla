-------------------------------- MODULE Sums --------------------------------
(***************************************************************************)
(* Lemmas about sums over finite sets, for the ledgers whose invariants    *)
(* are equations between a balance and a sum of its postings.  The sums    *)
(* are SumFunction and SumFunctionOnSet of the Functions module.           *)
(*                                                                         *)
(* Induction over the finite subsets of a set is used in the form of a     *)
(* minimal counterexample: among the subsets for which a claim fails one   *)
(* contains no smaller one.                                                *)
(***************************************************************************)
EXTENDS Integers, Functions, FiniteSetTheorems, TLAPS

(* A set of finite sets that is not empty has a member that contains no other. *)
LEMMA SmallestSet ==
  ASSUME NEW S, IsFiniteSet(S), NEW B \in SUBSET SUBSET S, B # {}
  PROVE  \E x \in B : \A y \in B : y \subseteq x => y = x
<1>1. B \subseteq FiniteSubsetsOf(S)
  BY FS_Subset DEF FiniteSubsetsOf
<1>2. PICK x \in B : \A y \in B : ~(<<y, x>> \in StrictSubsetOrdering(S))
  BY <1>1, FS_StrictSubsetOrderingWellFounded, WFMin
<1>. QED
  BY <1>2 DEF StrictSubsetOrdering

(* Induction: a family that holds the empty set, and a set whenever it holds all the *)
(* sets of one element less, holds the whole set.                                    *)
LEMMA SetInduction ==
  ASSUME NEW S, IsFiniteSet(S), NEW G, {} \in G,
         \A t \in SUBSET S : t # {} /\ (\A x \in t : t \ {x} \in G) => t \in G
  PROVE  S \in G
<1>. SUFFICES ASSUME S \notin G PROVE FALSE
  OBVIOUS
<1>. DEFINE B == {t \in SUBSET S : t \notin G}
<1>1. B \in SUBSET SUBSET S /\ B # {}
  OBVIOUS
<1>. HIDE DEF B
<1>2. PICK t \in B : \A y \in B : y \subseteq t => y = t
  BY <1>1, SmallestSet
<1>3. t # {} /\ t \in SUBSET S /\ t \notin G
  BY DEF B
<1>4. \A x \in t : t \ {x} \in G
  BY <1>2, <1>3 DEF B
<1>. QED
  BY <1>3, <1>4

-----------------------------------------------------------------------------
(* The defining equation *)

(* The equation of the recursive function inside SumFunctionOnSet. *)
Partial(f, S, it) ==
    it = [s \in SUBSET S |-> IF s = {} THEN 0
                             ELSE f[CHOOSE x \in s : TRUE] + it[s \ {CHOOSE x \in s : TRUE}]]

LEMMA SumIsPartial ==
  ASSUME NEW f, NEW S
  PROVE  SumFunctionOnSet(f, S) = (CHOOSE it : Partial(f, S, it))[S]
BY DEF SumFunctionOnSet, FoldFunctionOnSet, MapThenFoldSet, Partial

LEMMA PartialUnique ==
  ASSUME NEW f, NEW S, IsFiniteSet(S), NEW a, NEW b, Partial(f, S, a), Partial(f, S, b)
  PROVE  a = b
<1>. DEFINE B == {t \in SUBSET S : a[t] # b[t]}
<1>1. B \in SUBSET SUBSET S
  OBVIOUS
<1>2. a = [t \in SUBSET S |-> a[t]] /\ b = [t \in SUBSET S |-> b[t]]
  BY DEF Partial
<1>3. CASE B = {}
  BY <1>2, <1>3
<1>4. CASE B # {}
  <2>1. PICK t \in B : \A y \in B : y \subseteq t => y = t
    <3>. HIDE DEF B
    <3>. QED
      BY <1>1, <1>4, SmallestSet
  <2>. DEFINE c == CHOOSE x \in t : TRUE
  <2>2. t # {}
    BY <2>1 DEF Partial
  <2>3. c \in t
    BY <2>2
  <2>4. a[t] = f[c] + a[t \ {c}] /\ b[t] = f[c] + b[t \ {c}]
    BY <2>1, <2>2 DEF Partial
  <2>. HIDE DEF c
  <2>5. a[t \ {c}] = b[t \ {c}]
    BY <2>1, <2>3
  <2>. QED
    BY <2>1, <2>4, <2>5
<1>. QED
  BY <1>3, <1>4

(* A solution on a set is one on each of its subsets. *)
LEMMA PartialRestricts ==
  ASSUME NEW f, NEW S, NEW a, Partial(f, S, a), NEW T \in SUBSET S
  PROVE  Partial(f, T, [s \in SUBSET T |-> a[s]])
<1>. DEFINE g == [s \in SUBSET T |-> a[s]]
<1>1. \A s \in SUBSET T : a[s] = IF s = {} THEN 0
          ELSE f[CHOOSE x \in s : TRUE] + a[s \ {CHOOSE x \in s : TRUE}]
  BY DEF Partial
<1>2. \A s \in SUBSET T : g[s \ {CHOOSE x \in s : TRUE}] = a[s \ {CHOOSE x \in s : TRUE}]
  OBVIOUS
<1>3. \A s \in SUBSET T : a[s] = IF s = {} THEN 0
          ELSE f[CHOOSE x \in s : TRUE] + g[s \ {CHOOSE x \in s : TRUE}]
  BY <1>1, <1>2, Zenon
<1>4. g = [s \in SUBSET T |-> IF s = {} THEN 0
          ELSE f[CHOOSE x \in s : TRUE] + g[s \ {CHOOSE x \in s : TRUE}]]
  BY <1>3, Zenon
<1>. QED
  BY <1>4, Zenon DEF Partial

Solvable(f, S) == \E it : Partial(f, S, it)

LEMMA PartialExists ==
  ASSUME NEW f, NEW S, IsFiniteSet(S)
  PROVE  Solvable(f, S)
<1>. SUFFICES ASSUME ~Solvable(f, S) PROVE FALSE
  OBVIOUS
<1>. DEFINE B == {t \in SUBSET S : ~Solvable(f, t)}
<1>0. B \in SUBSET SUBSET S /\ B # {}
  OBVIOUS
<1>1. PICK s \in B : \A y \in B : y \subseteq s => y = s
  <2>. HIDE DEF B
  <2>. QED
    BY <1>0, SmallestSet
<1>. DEFINE V(t) == (CHOOSE it : Partial(f, t, it))[t]
<1>2. \A t \in SUBSET s : t # s => Partial(f, t, CHOOSE it : Partial(f, t, it))
  BY <1>1 DEF Solvable
<1>3. ASSUME NEW t \in SUBSET s, t # s
      PROVE  V(t) = IF t = {} THEN 0
                    ELSE f[CHOOSE x \in t : TRUE] + V(t \ {CHOOSE x \in t : TRUE})
  <2>. DEFINE it == CHOOSE i : Partial(f, t, i)
              c == CHOOSE x \in t : TRUE
              r == CHOOSE i : Partial(f, t \ {c}, i)
  <2>1. Partial(f, t, it)
    BY <1>2, <1>3
  <2>2. CASE t = {}
    BY <2>1, <2>2 DEF Partial
  <2>3. CASE t # {}
    <3>1. c \in t
      BY <2>3
    <3>2. it[t] = f[c] + it[t \ {c}]
      BY <2>1, <2>3 DEF Partial
    <3>3. Partial(f, t \ {c}, r)
      BY <1>2, <1>3, <3>1
    <3>. HIDE DEF it, c, r
    <3>4. Partial(f, t \ {c}, [u \in SUBSET (t \ {c}) |-> it[u]])
      BY <2>1, PartialRestricts
    <3>5. IsFiniteSet(t \ {c})
      <4>1. t \ {c} \in SUBSET S
        BY <1>1
      <4>. QED
        BY <4>1, FS_Subset
    <3>6. r = [u \in SUBSET (t \ {c}) |-> it[u]]
      BY <3>3, <3>4, <3>5, PartialUnique
    <3>7. r[t \ {c}] = it[t \ {c}]
      BY <3>6
    <3>8. it[t] = f[c] + r[t \ {c}]
      BY <3>2, <3>7
    <3>. QED
      BY <2>3, <3>8 DEF it, c, r
  <2>. QED
    BY <2>2, <2>3
<1>. DEFINE g == [t \in SUBSET s |-> IF t = s THEN IF s = {} THEN 0
                     ELSE f[CHOOSE x \in s : TRUE] + V(s \ {CHOOSE x \in s : TRUE})
                   ELSE V(t)]
<1>. HIDE DEF V
<1>4. \A t \in SUBSET s : g[t] = IF t = {} THEN 0
                    ELSE f[CHOOSE x \in t : TRUE] + V(t \ {CHOOSE x \in t : TRUE})
  <2>1. g[s] = IF s = {} THEN 0
               ELSE f[CHOOSE x \in s : TRUE] + V(s \ {CHOOSE x \in s : TRUE})
    BY Zenon
  <2>2. \A t \in SUBSET s : t # s => g[t] = V(t)
    BY Zenon
  <2>. HIDE DEF g
  <2>. QED
    BY <1>3, <2>1, <2>2, Zenon
<1>5. ASSUME NEW t \in SUBSET s, t # {}
      PROVE  g[t \ {CHOOSE x \in t : TRUE}] = V(t \ {CHOOSE x \in t : TRUE})
  <2>. DEFINE c == CHOOSE x \in t : TRUE
  <2>1. c \in t
    BY <1>5
  <2>. HIDE DEF c
  <2>2. t \ {c} \in SUBSET s /\ t \ {c} # s
    BY <2>1
  <2>3. g[t \ {c}] = V(t \ {c})
    BY <2>2
  <2>. QED
    BY <2>3 DEF c
<1>. DEFINE h == [t \in SUBSET s |-> IF t = {} THEN 0
                    ELSE f[CHOOSE x \in t : TRUE] + g[t \ {CHOOSE x \in t : TRUE}]]
<1>6. \A t \in SUBSET s : g[t] = h[t]
  <2>. HIDE DEF g
  <2>. QED
    BY <1>4, <1>5
<1>7. g = h
  <2>1. g = [t \in SUBSET s |-> g[t]] /\ h = [t \in SUBSET s |-> h[t]]
    OBVIOUS
  <2>. HIDE DEF g, h
  <2>. QED
    BY <1>6, <2>1
<1>8. Partial(f, s, g)
  <2>. HIDE DEF g
  <2>. QED
    BY <1>7 DEF Partial
<1>. QED
  BY <1>1, <1>8 DEF Solvable

(* What the recursion computes: the sum of the empty set, and one summand and the rest. *)
LEMMA SumStep ==
  ASSUME NEW f, NEW S, IsFiniteSet(S)
  PROVE  SumFunctionOnSet(f, S) =
            IF S = {} THEN 0
            ELSE f[CHOOSE x \in S : TRUE] + SumFunctionOnSet(f, S \ {CHOOSE x \in S : TRUE})
<1>. DEFINE it == CHOOSE i : Partial(f, S, i)
            c == CHOOSE x \in S : TRUE
            r == CHOOSE i : Partial(f, S \ {c}, i)
<1>1. Partial(f, S, it) /\ SumFunctionOnSet(f, S) = it[S]
  BY PartialExists, SumIsPartial DEF Solvable
<1>2. CASE S = {}
  BY <1>1, <1>2 DEF Partial
<1>3. CASE S # {}
  <2>1. it[S] = f[c] + it[S \ {c}]
    BY <1>1, <1>3 DEF Partial
  <2>2. IsFiniteSet(S \ {c})
    BY FS_RemoveElement
  <2>3. Partial(f, S \ {c}, r) /\ SumFunctionOnSet(f, S \ {c}) = r[S \ {c}]
    BY <2>2, PartialExists, SumIsPartial DEF Solvable
  <2>. HIDE DEF it, c, r
  <2>4. Partial(f, S \ {c}, [u \in SUBSET (S \ {c}) |-> it[u]])
    BY <1>1, PartialRestricts
  <2>5. r[S \ {c}] = it[S \ {c}]
    BY <2>2, <2>3, <2>4, PartialUnique
  <2>. QED
    BY <1>1, <1>3, <2>1, <2>3, <2>5 DEF c
<1>. QED
  BY <1>2, <1>3

-----------------------------------------------------------------------------
(* Arithmetic of sums *)

LEMMA SumEmpty == ASSUME NEW f PROVE SumFunctionOnSet(f, {}) = 0
BY SumStep, FS_EmptySet

LEMMA SumInt ==
  ASSUME NEW f, NEW S, IsFiniteSet(S), \A x \in S : f[x] \in Int
  PROVE  SumFunctionOnSet(f, S) \in Int
<1>. DEFINE G == {t \in SUBSET S : SumFunctionOnSet(f, t) \in Int}
<1>1. {} \in G
  BY SumEmpty
<1>2. ASSUME NEW t \in SUBSET S, t # {}, \A x \in t : t \ {x} \in G
      PROVE  t \in G
  <2>. DEFINE c == CHOOSE x \in t : TRUE
  <2>1. c \in t
    BY <1>2
  <2>2. SumFunctionOnSet(f, t) = f[c] + SumFunctionOnSet(f, t \ {c})
    BY <1>2, SumStep, FS_Subset
  <2>. HIDE DEF c
  <2>3. SumFunctionOnSet(f, t \ {c}) \in Int /\ f[c] \in Int
    BY <1>2, <2>1
  <2>. QED
    BY <2>2, <2>3
<1>3. S \in G
  <2>. HIDE DEF G
  <2>. QED
    BY <1>1, <1>2, SetInduction
<1>. QED
  BY <1>3

(* Any element may be taken out first. *)
LEMMA SumRemove ==
  ASSUME NEW f, NEW S, IsFiniteSet(S), \A x \in S : f[x] \in Int, NEW a \in S
  PROVE  SumFunctionOnSet(f, S) = f[a] + SumFunctionOnSet(f, S \ {a})
<1>. DEFINE G == {t \in SUBSET S : \A y \in t :
                     SumFunctionOnSet(f, t) = f[y] + SumFunctionOnSet(f, t \ {y})}
<1>1. {} \in G
  OBVIOUS
<1>2. ASSUME NEW t \in SUBSET S, t # {}, \A x \in t : t \ {x} \in G
      PROVE  t \in G
  <2>. DEFINE c == CHOOSE x \in t : TRUE
  <2>1. c \in t
    BY <1>2
  <2>2. SumFunctionOnSet(f, t) = f[c] + SumFunctionOnSet(f, t \ {c})
    BY <1>2, SumStep, FS_Subset
  <2>. HIDE DEF c
  <2>3. ASSUME NEW y \in t, y # c
        PROVE  SumFunctionOnSet(f, t) = f[y] + SumFunctionOnSet(f, t \ {y})
    <3>1. SumFunctionOnSet(f, t \ {c}) = f[y] + SumFunctionOnSet(f, (t \ {c}) \ {y})
      BY <1>2, <2>1, <2>3
    <3>2. SumFunctionOnSet(f, t \ {y}) = f[c] + SumFunctionOnSet(f, (t \ {y}) \ {c})
      BY <1>2, <2>1, <2>3
    <3>3. SumFunctionOnSet(f, (t \ {y}) \ {c}) = SumFunctionOnSet(f, (t \ {c}) \ {y})
      <4>1. (t \ {y}) \ {c} = (t \ {c}) \ {y}
        OBVIOUS
      <4>. QED
        BY <4>1, Zenon
    <3>4. SumFunctionOnSet(f, (t \ {c}) \ {y}) \in Int
      <4>1. (t \ {c}) \ {y} \in SUBSET S
        OBVIOUS
      <4>. QED
        BY <4>1, SumInt, FS_Subset
    <3>5. f[c] \in Int /\ f[y] \in Int
      BY <2>1
    <3>6. \A p, q, r \in Int : p + (q + r) = q + (p + r)
      OBVIOUS
    <3>. QED
      BY <2>2, <3>1, <3>2, <3>3, <3>4, <3>5, <3>6
  <2>. QED
    BY <2>2, <2>3
<1>3. S \in G
  <2>. HIDE DEF G
  <2>. QED
    BY <1>1, <1>2, SetInduction
<1>. QED
  BY <1>3

(* A sum depends on the values on its set only. *)
LEMMA SumSame ==
  ASSUME NEW f, NEW g, NEW S, IsFiniteSet(S), \A x \in S : f[x] = g[x]
  PROVE  SumFunctionOnSet(f, S) = SumFunctionOnSet(g, S)
<1>. DEFINE G == {t \in SUBSET S : SumFunctionOnSet(f, t) = SumFunctionOnSet(g, t)}
<1>1. {} \in G
  BY SumEmpty
<1>2. ASSUME NEW t \in SUBSET S, t # {}, \A x \in t : t \ {x} \in G
      PROVE  t \in G
  <2>. DEFINE c == CHOOSE x \in t : TRUE
  <2>1. c \in t
    BY <1>2
  <2>2. /\ SumFunctionOnSet(f, t) = f[c] + SumFunctionOnSet(f, t \ {c})
        /\ SumFunctionOnSet(g, t) = g[c] + SumFunctionOnSet(g, t \ {c})
    BY <1>2, SumStep, FS_Subset
  <2>. HIDE DEF c
  <2>. QED
    BY <1>2, <2>1, <2>2
<1>3. S \in G
  <2>. HIDE DEF G
  <2>. QED
    BY <1>1, <1>2, SetInduction
<1>. QED
  BY <1>3

(* The sum of a combination k*f + g. *)
LEMMA SumLinear ==
  ASSUME NEW f, NEW g, NEW h, NEW k \in Int, NEW S, IsFiniteSet(S),
         \A x \in S : f[x] \in Int /\ g[x] \in Int /\ h[x] = k * f[x] + g[x]
  PROVE  SumFunctionOnSet(h, S) = k * SumFunctionOnSet(f, S) + SumFunctionOnSet(g, S)
<1>. DEFINE G == {t \in SUBSET S : SumFunctionOnSet(h, t) =
                     k * SumFunctionOnSet(f, t) + SumFunctionOnSet(g, t)}
<1>1. {} \in G
  BY SumEmpty
<1>2. ASSUME NEW t \in SUBSET S, t # {}, \A x \in t : t \ {x} \in G
      PROVE  t \in G
  <2>. DEFINE c == CHOOSE x \in t : TRUE
  <2>1. c \in t
    BY <1>2
  <2>2. /\ SumFunctionOnSet(f, t) = f[c] + SumFunctionOnSet(f, t \ {c})
        /\ SumFunctionOnSet(g, t) = g[c] + SumFunctionOnSet(g, t \ {c})
        /\ SumFunctionOnSet(h, t) = h[c] + SumFunctionOnSet(h, t \ {c})
    BY <1>2, SumStep, FS_Subset
  <2>. HIDE DEF c
  <2>3. SumFunctionOnSet(h, t \ {c}) =
            k * SumFunctionOnSet(f, t \ {c}) + SumFunctionOnSet(g, t \ {c})
    BY <1>2, <2>1
  <2>4. t \ {c} \in SUBSET S /\ IsFiniteSet(t \ {c})
    BY FS_Subset
  <2>5. SumFunctionOnSet(f, t \ {c}) \in Int /\ SumFunctionOnSet(g, t \ {c}) \in Int
    BY <2>4, SumInt
  <2>6. f[c] \in Int /\ g[c] \in Int /\ h[c] = k * f[c] + g[c]
    BY <2>1
  <2>7. \A p, q, r, s \in Int : (k * p + r) + (k * q + s) = k * (p + q) + (r + s)
    OBVIOUS
  <2>. QED
    BY <2>2, <2>3, <2>5, <2>6, <2>7
<1>3. S \in G
  <2>. HIDE DEF G
  <2>. QED
    BY <1>1, <1>2, SetInduction
<1>. QED
  BY <1>3

LEMMA SumNat ==
  ASSUME NEW f, NEW S, IsFiniteSet(S), \A x \in S : f[x] \in Nat
  PROVE  SumFunctionOnSet(f, S) \in Nat
<1>. DEFINE G == {t \in SUBSET S : SumFunctionOnSet(f, t) \in Nat}
<1>1. {} \in G
  BY SumEmpty
<1>2. ASSUME NEW t \in SUBSET S, t # {}, \A x \in t : t \ {x} \in G
      PROVE  t \in G
  <2>. DEFINE c == CHOOSE x \in t : TRUE
  <2>1. c \in t
    BY <1>2
  <2>2. SumFunctionOnSet(f, t) = f[c] + SumFunctionOnSet(f, t \ {c})
    BY <1>2, SumStep, FS_Subset
  <2>. HIDE DEF c
  <2>3. SumFunctionOnSet(f, t \ {c}) \in Nat /\ f[c] \in Nat
    BY <1>2, <2>1
  <2>. QED
    BY <2>2, <2>3
<1>3. S \in G
  <2>. HIDE DEF G
  <2>. QED
    BY <1>1, <1>2, SetInduction
<1>. QED
  BY <1>3

-----------------------------------------------------------------------------
(* What follows without induction *)

LEMMA SumPlus ==
  ASSUME NEW f, NEW g, NEW h, NEW S, IsFiniteSet(S),
         \A x \in S : f[x] \in Int /\ g[x] \in Int /\ h[x] = f[x] + g[x]
  PROVE  SumFunctionOnSet(h, S) = SumFunctionOnSet(f, S) + SumFunctionOnSet(g, S)
<1>1. SumFunctionOnSet(h, S) = 1 * SumFunctionOnSet(f, S) + SumFunctionOnSet(g, S)
  BY SumLinear
<1>. QED
  BY <1>1, SumInt

LEMMA SumMinus ==
  ASSUME NEW f, NEW g, NEW h, NEW S, IsFiniteSet(S),
         \A x \in S : f[x] \in Int /\ g[x] \in Int /\ h[x] = f[x] - g[x]
  PROVE  SumFunctionOnSet(h, S) = SumFunctionOnSet(f, S) - SumFunctionOnSet(g, S)
<1>1. SumFunctionOnSet(f, S) = SumFunctionOnSet(g, S) + SumFunctionOnSet(h, S)
  BY SumPlus
<1>. QED
  BY <1>1, SumInt

(* Summands that are all zero. *)
LEMMA SumZero ==
  ASSUME NEW f, NEW S, IsFiniteSet(S), \A x \in S : f[x] = 0
  PROVE  SumFunctionOnSet(f, S) = 0
<1>1. SumFunctionOnSet(f, S) = SumFunctionOnSet(f, S) + SumFunctionOnSet(f, S)
  BY SumPlus
<1>2. SumFunctionOnSet(f, S) \in Int
  BY SumInt
<1>3. \A p \in Int : p = p + p => p = 0
  OBVIOUS
<1>. QED
  BY <1>1, <1>2, <1>3

LEMMA SumMonotonic ==
  ASSUME NEW f, NEW g, NEW S, IsFiniteSet(S),
         \A x \in S : f[x] \in Int /\ g[x] \in Int /\ f[x] <= g[x]
  PROVE  SumFunctionOnSet(f, S) <= SumFunctionOnSet(g, S)
<1>. DEFINE h == [x \in S |-> g[x] - f[x]]
<1>1. \A x \in S : h[x] \in Nat
  OBVIOUS
<1>2. SumFunctionOnSet(h, S) = SumFunctionOnSet(g, S) - SumFunctionOnSet(f, S)
  BY SumMinus
<1>3. SumFunctionOnSet(h, S) \in Nat
  BY <1>1, SumNat
<1>. QED
  BY <1>2, <1>3, SumInt

(* A sum above zero has a summand above zero. *)
LEMMA SumPositive ==
  ASSUME NEW f, NEW S, IsFiniteSet(S), \A x \in S : f[x] \in Int, SumFunctionOnSet(f, S) > 0
  PROVE  \E x \in S : f[x] > 0
<1>. SUFFICES ASSUME \A x \in S : ~(f[x] > 0) PROVE FALSE
  OBVIOUS
<1>. DEFINE none == [x \in S |-> 0]
<1>1. \A x \in S : f[x] \in Int /\ none[x] = 0 /\ f[x] <= none[x]
  OBVIOUS
<1>. HIDE DEF none
<1>2. SumFunctionOnSet(none, S) = 0
  BY <1>1, SumZero
<1>3. SumFunctionOnSet(f, S) <= SumFunctionOnSet(none, S)
  BY <1>1, SumMonotonic
<1>. QED
  BY <1>2, <1>3, SumInt

(* A summand is at most the sum of natural numbers. *)
LEMMA SumBoundsMember ==
  ASSUME NEW f, NEW S, IsFiniteSet(S), \A x \in S : f[x] \in Nat, NEW a \in S
  PROVE  f[a] <= SumFunctionOnSet(f, S)
<1>1. SumFunctionOnSet(f, S) = f[a] + SumFunctionOnSet(f, S \ {a})
  BY SumRemove
<1>2. SumFunctionOnSet(f, S \ {a}) \in Nat
  BY SumNat, FS_RemoveElement
<1>. QED
  BY <1>1, <1>2

(* One summand changes. *)
LEMMA SumUpdate ==
  ASSUME NEW f, NEW g, NEW S, IsFiniteSet(S), NEW a \in S,
         \A x \in S : f[x] \in Int /\ g[x] \in Int,
         \A x \in S \ {a} : g[x] = f[x]
  PROVE  SumFunctionOnSet(g, S) = SumFunctionOnSet(f, S) + (g[a] - f[a])
<1>1. IsFiniteSet(S \ {a})
  BY FS_RemoveElement
<1>2. SumFunctionOnSet(f, S \ {a}) = SumFunctionOnSet(g, S \ {a})
  BY <1>1, SumSame
<1>3. SumFunctionOnSet(f, S \ {a}) \in Int
  BY <1>1, SumInt
<1>. QED
  BY <1>2, <1>3, SumRemove

(* A part and the rest. *)
LEMMA SumSplit ==
  ASSUME NEW f, NEW S, IsFiniteSet(S), \A x \in S : f[x] \in Int, NEW T \in SUBSET S
  PROVE  SumFunctionOnSet(f, S) = SumFunctionOnSet(f, T) + SumFunctionOnSet(f, S \ T)
<1>. DEFINE G == {t \in SUBSET T : SumFunctionOnSet(f, S) =
                     SumFunctionOnSet(f, t) + SumFunctionOnSet(f, S \ t)}
<1>0. \A t \in SUBSET S : IsFiniteSet(t) /\ SumFunctionOnSet(f, t) \in Int
  BY SumInt, FS_Subset
<1>1. {} \in G
  <2>1. S \ {} = S
    OBVIOUS
  <2>. QED
    BY <1>0, <2>1, SumEmpty
<1>2. ASSUME NEW t \in SUBSET T, t # {}, \A x \in t : t \ {x} \in G
      PROVE  t \in G
  <2>1. PICK c \in t : TRUE
    BY <1>2
  <2>2. SumFunctionOnSet(f, t) = f[c] + SumFunctionOnSet(f, t \ {c})
    BY <1>0, SumRemove
  <2>3. /\ S \ (t \ {c}) = (S \ t) \cup {c}
        /\ ((S \ t) \cup {c}) \ {c} = S \ t
        /\ c \in (S \ t) \cup {c}
        /\ (S \ t) \cup {c} \in SUBSET S
    OBVIOUS
  <2>4. SumFunctionOnSet(f, (S \ t) \cup {c}) = f[c] + SumFunctionOnSet(f, S \ t)
    <3>1. SumFunctionOnSet(f, (S \ t) \cup {c}) =
             f[c] + SumFunctionOnSet(f, ((S \ t) \cup {c}) \ {c})
      BY <1>0, <2>3, SumRemove
    <3>. QED
      BY <2>3, <3>1
  <2>5. SumFunctionOnSet(f, S) =
           SumFunctionOnSet(f, t \ {c}) + SumFunctionOnSet(f, (S \ t) \cup {c})
    BY <1>2, <2>3
  <2>6. SumFunctionOnSet(f, t \ {c}) \in Int /\ SumFunctionOnSet(f, S \ t) \in Int
    BY <1>0
  <2>. QED
    BY <2>2, <2>4, <2>5, <2>6
<1>3. T \in G
  <2>1. IsFiniteSet(T)
    BY <1>0
  <2>. HIDE DEF G
  <2>. QED
    BY <1>1, <1>2, <2>1, SetInduction
<1>. QED
  BY <1>3

(* Summands outside a part are zero. *)
LEMMA SumOfPart ==
  ASSUME NEW f, NEW S, IsFiniteSet(S), \A x \in S : f[x] \in Int, NEW T \in SUBSET S,
         \A x \in S \ T : f[x] = 0
  PROVE  SumFunctionOnSet(f, S) = SumFunctionOnSet(f, T)
<1>1. SumFunctionOnSet(f, S) = SumFunctionOnSet(f, T) + SumFunctionOnSet(f, S \ T)
  BY SumSplit
<1>2. SumFunctionOnSet(f, S \ T) = 0
  BY SumZero, FS_Difference
<1>3. SumFunctionOnSet(f, T) \in Int
  BY SumInt, FS_Subset
<1>. QED
  BY <1>1, <1>2, <1>3

(* U is what the groups of the members of S hold, the group of x being m[x], and g sums f by group. *)
Grouped(f, T, m, S, group, g, U) ==
  /\ IsFiniteSet(T) /\ \A x \in T : f[x] \in Int
  /\ IsFiniteSet(S) /\ \A s \in S : g[s] = SumFunctionOnSet(f, group[s])
  /\ \A s \in S : group[s] \in SUBSET T /\ \A x \in T : x \in group[s] <=> m[x] = s
  /\ U \in SUBSET T /\ \A x \in T : x \in U <=> m[x] \in S

(* A sum taken group by group. *)
LEMMA SumOfGroups ==
  ASSUME NEW f, NEW T, NEW m, NEW S, NEW group, NEW g, NEW U, Grouped(f, T, m, S, group, g, U)
  PROVE  SumFunctionOnSet(g, S) = SumFunctionOnSet(f, U)
<1>. USE DEF Grouped
<1>. DEFINE In(u) == {x \in T : m[x] \in u}
            G == {u \in SUBSET S : SumFunctionOnSet(g, u) = SumFunctionOnSet(f, In(u))}
<1>1. {} \in G
  <2>1. In({}) = {}
    OBVIOUS
  <2>2. SumFunctionOnSet(g, {}) = SumFunctionOnSet(f, In({}))
    BY <2>1, SumEmpty
  <2>. QED BY <2>2
<1>2. \A s \in S : g[s] \in Int
  <2>. SUFFICES ASSUME NEW s \in S PROVE g[s] \in Int
    OBVIOUS
  <2>1. IsFiniteSet(group[s]) /\ \A x \in group[s] : f[x] \in Int
    BY FS_Subset
  <2>2. SumFunctionOnSet(f, group[s]) \in Int
    BY <2>1, SumInt
  <2>. QED BY <2>2
<1>3. ASSUME NEW u \in SUBSET S, u # {}, \A c \in u : u \ {c} \in G
      PROVE  u \in G
  <2>1. PICK c \in u : TRUE
    BY <1>3
  <2>2. IsFiniteSet(u) /\ \A s \in u : g[s] \in Int
    BY <1>2, FS_Subset
  <2>3. SumFunctionOnSet(g, u) = g[c] + SumFunctionOnSet(g, u \ {c})
    BY <2>2, SumRemove
  <2>4. SumFunctionOnSet(g, u \ {c}) = SumFunctionOnSet(f, In(u \ {c}))
    BY <1>3
  <2>5. IsFiniteSet(In(u)) /\ In(u \ {c}) \in SUBSET In(u) /\ \A x \in In(u) : f[x] \in Int
    BY FS_Subset
  <2>6. In(u) \ In(u \ {c}) = group[c]
    OBVIOUS
  <2>7. g[c] = SumFunctionOnSet(f, In(u) \ In(u \ {c}))
    BY <2>6
  <2>. HIDE DEF In
  <2>8. SumFunctionOnSet(f, In(u)) = SumFunctionOnSet(f, In(u \ {c})) + SumFunctionOnSet(f, In(u) \ In(u \ {c}))
    <3>. DEFINE whole == In(u)
                part == In(u \ {c})
    <3>1. IsFiniteSet(whole) /\ part \in SUBSET whole /\ \A x \in whole : f[x] \in Int
      BY <2>5
    <3>. HIDE DEF whole, part
    <3>2. SumFunctionOnSet(f, whole) = SumFunctionOnSet(f, part) + SumFunctionOnSet(f, whole \ part)
      BY <3>1, SumSplit
    <3>. USE DEF whole, part
    <3>. QED BY <3>2
  <2>9. SumFunctionOnSet(f, In(u \ {c})) \in Int /\ SumFunctionOnSet(f, In(u) \ In(u \ {c})) \in Int
    <3>. DEFINE whole == In(u)
                part == In(u \ {c})
                rest == whole \ part
    <3>1. /\ IsFiniteSet(whole) /\ part \in SUBSET whole /\ rest \in SUBSET whole
          /\ \A x \in whole : f[x] \in Int
      BY <2>5
    <3>. HIDE DEF whole, part, rest
    <3>2. IsFiniteSet(part) /\ IsFiniteSet(rest)
      BY <3>1, FS_Subset
    <3>3. SumFunctionOnSet(f, part) \in Int /\ SumFunctionOnSet(f, rest) \in Int
      BY <3>1, <3>2, SumInt
    <3>. QED BY <3>3 DEF whole, part, rest
  <2>10. SumFunctionOnSet(g, u) = SumFunctionOnSet(f, In(u))
    BY <2>3, <2>4, <2>7, <2>8, <2>9
  <2>. QED BY <2>10
<1>. HIDE DEF G
<1>4. S \in G
  BY <1>1, <1>3, SetInduction
<1>5. In(S) = U
  OBVIOUS
<1>. QED
  BY <1>4, <1>5 DEF G

(* The summands renamed one by one. *)
LEMMA SumRename ==
  ASSUME NEW S, IsFiniteSet(S), NEW m, \A x, y \in S : m[x] = m[y] => x = y,
         NEW f, NEW g, \A x \in S : g[m[x]] \in Int /\ f[x] = g[m[x]]
  PROVE  SumFunctionOnSet(f, S) = SumFunctionOnSet(g, {m[x] : x \in S})
<1>. DEFINE Im(t) == {m[x] : x \in t}
            G == {t \in SUBSET S : /\ IsFiniteSet(Im(t))
                                   /\ SumFunctionOnSet(f, t) = SumFunctionOnSet(g, Im(t))}
<1>1. {} \in G
  <2>1. Im({}) = {}
    OBVIOUS
  <2>2. IsFiniteSet(Im({})) /\ SumFunctionOnSet(g, Im({})) = SumFunctionOnSet(g, {})
    BY <2>1, FS_EmptySet, Zenon
  <2>. QED
    BY <2>2, SumEmpty
<1>2. ASSUME NEW t \in SUBSET S, t # {}, \A x \in t : t \ {x} \in G
      PROVE  t \in G
  <2>1. PICK c \in t : TRUE
    BY <1>2
  <2>2. IsFiniteSet(Im(t \ {c})) /\
        SumFunctionOnSet(f, t \ {c}) = SumFunctionOnSet(g, Im(t \ {c}))
    BY <1>2
  <2>3. Im(t) = Im(t \ {c}) \cup {m[c]}
    OBVIOUS
  <2>4. IsFiniteSet(Im(t))
    <3>1. IsFiniteSet(Im(t \ {c}) \cup {m[c]})
      BY <2>2, FS_AddElement
    <3>. QED
      BY <2>3, <3>1, Zenon
  <2>5. Im(t) \ {m[c]} = Im(t \ {c})
    OBVIOUS
  <2>6. SumFunctionOnSet(f, t) = f[c] + SumFunctionOnSet(f, t \ {c})
    BY SumRemove, FS_Subset
  <2>7. SumFunctionOnSet(g, Im(t)) = g[m[c]] + SumFunctionOnSet(g, Im(t) \ {m[c]})
    <3>1. m[c] \in Im(t) /\ \A y \in Im(t) : g[y] \in Int
      OBVIOUS
    <3>. HIDE DEF Im
    <3>. QED
      BY <2>4, <3>1, SumRemove
  <2>8. SumFunctionOnSet(g, Im(t) \ {m[c]}) = SumFunctionOnSet(g, Im(t \ {c}))
    <3>. HIDE DEF Im
    <3>. QED
      BY <2>5, Zenon
  <2>9. f[c] = g[m[c]]
    OBVIOUS
  <2>. HIDE DEF Im
  <2>10. SumFunctionOnSet(f, t) = SumFunctionOnSet(g, Im(t))
    BY <2>2, <2>6, <2>7, <2>8, <2>9
  <2>. QED
    BY <2>4, <2>10
<1>3. S \in G
  <2>. HIDE DEF G
  <2>. QED
    BY <1>1, <1>2, SetInduction
<1>. QED
  BY <1>3

(* One for each member of a subset. *)
LEMMA SumCounts ==
  ASSUME NEW S, IsFiniteSet(S), NEW T \in SUBSET S
  PROVE  SumFunctionOnSet([x \in S |-> IF x \in T THEN 1 ELSE 0], S) = Cardinality(T)
<1>. DEFINE one == [x \in S |-> IF x \in T THEN 1 ELSE 0]
            G == {t \in SUBSET T : SumFunctionOnSet(one, t) = Cardinality(t)}
<1>1. {} \in G
  BY SumEmpty, FS_EmptySet
<1>2. ASSUME NEW t \in SUBSET T, t # {}, \A x \in t : t \ {x} \in G
      PROVE  t \in G
  <2>1. PICK c \in t : TRUE
    BY <1>2
  <2>2. IsFiniteSet(t)
    BY FS_Subset
  <2>3. \A x \in t : one[x] = 1
    OBVIOUS
  <2>4. SumFunctionOnSet(one, t) = 1 + SumFunctionOnSet(one, t \ {c})
    <3>. HIDE DEF one
    <3>. QED
      BY <2>1, <2>2, <2>3, SumRemove
  <2>5. Cardinality(t \ {c}) = Cardinality(t) - 1 /\ Cardinality(t) \in Nat
    BY <2>1, <2>2, FS_RemoveElement, FS_CardinalityType
  <2>. HIDE DEF one
  <2>. QED
    BY <1>2, <2>1, <2>4, <2>5
<1>3. T \in G
  <2>1. IsFiniteSet(T)
    BY FS_Subset
  <2>. HIDE DEF G
  <2>. QED
    BY <1>1, <1>2, <2>1, SetInduction
<1>4. SumFunctionOnSet(one, S \ T) = 0
  <2>1. \A x \in S \ T : one[x] = 0
    OBVIOUS
  <2>. HIDE DEF one
  <2>. QED
    BY <2>1, SumZero, FS_Difference
<1>5. SumFunctionOnSet(one, S) = SumFunctionOnSet(one, T) + SumFunctionOnSet(one, S \ T)
  <2>1. \A x \in S : one[x] \in Int
    OBVIOUS
  <2>. HIDE DEF one
  <2>. QED
    BY <2>1, SumSplit
<1>6. Cardinality(T) \in Nat
  BY FS_Subset, FS_CardinalityType
<1>. QED
  BY <1>3, <1>4, <1>5, <1>6

-----------------------------------------------------------------------------
(* Orders on finite sets *)

(* R orders S strictly and totally. *)
StrictOrder(R, S) ==
    /\ \A x \in S : <<x, x>> \notin R
    /\ \A x, y, z \in S : <<x, y>> \in R /\ <<y, z>> \in R => <<x, z>> \in R
    /\ \A x, y \in S : x = y \/ <<x, y>> \in R \/ <<y, x>> \in R

Below(R, S, x) == {y \in S : <<y, x>> \in R}

(* A finite set that is not empty has a last element. *)
LEMMA LastElement ==
  ASSUME NEW S, IsFiniteSet(S), S # {}, NEW R, StrictOrder(R, S)
  PROVE  \E x \in S : \A y \in S \ {x} : <<y, x>> \in R
<1>. DEFINE Above(x) == {y \in S : <<x, y>> \in R}
            B == {Above(x) : x \in S}
<1>1. B \in SUBSET SUBSET S /\ B # {}
  OBVIOUS
<1>2. PICK b \in B : \A y \in B : y \subseteq b => y = b
  <2>. HIDE DEF B
  <2>. QED
    BY <1>1, SmallestSet
<1>3. PICK x \in S : b = Above(x)
  OBVIOUS
<1>4. ASSUME NEW y \in S, <<x, y>> \in R
      PROVE  FALSE
  <2>1. Above(y) \subseteq Above(x) /\ y \in Above(x) /\ y \notin Above(y)
    BY <1>4 DEF StrictOrder
  <2>. QED
    BY <1>2, <1>3, <2>1
<1>. QED
  BY <1>4 DEF StrictOrder

(* A finite set of numbers that is not empty has a least and a greatest. *)
LEMMA Extremes ==
  ASSUME NEW S \in SUBSET Int, IsFiniteSet(S), S # {}
  PROVE  /\ \E x \in S : \A y \in S : x <= y
         /\ \E x \in S : \A y \in S : y <= x
<1>. DEFINE Up == {e \in S \X S : e[1] < e[2]}
            Down == {e \in S \X S : e[2] < e[1]}
<1>1. \A x, y \in S : /\ x \in Int /\ y \in Int
                      /\ <<x, y>> \in Up <=> x < y
                      /\ <<x, y>> \in Down <=> y < x
  OBVIOUS
<1>. HIDE DEF Up, Down
<1>2. \A R : StrictOrder(R, S) => \E x \in S : \A y \in S \ {x} : <<y, x>> \in R
  BY LastElement
<1>3. StrictOrder(Up, S) /\ StrictOrder(Down, S)
  BY <1>1 DEF StrictOrder
<1>4. PICK last \in S : \A y \in S \ {last} : <<y, last>> \in Up
  BY <1>2, <1>3
<1>5. PICK first \in S : \A y \in S \ {first} : <<y, first>> \in Down
  BY <1>2, <1>3
<1>6. ASSUME NEW y \in S PROVE y <= last /\ first <= y
  <2>1. y \in Int /\ last \in Int /\ first \in Int
    BY <1>1
  <2>2. (y = last \/ y < last) /\ (y = first \/ first < y)
    BY <1>1, <1>4, <1>5
  <2>. QED
    BY <2>1, <2>2
<1>. QED
  BY <1>6

LEMMA ExtremesUpTo ==
  ASSUME NEW n \in Nat, NEW S \in SUBSET (1..n), S # {}
  PROVE  /\ \E x \in S : \A y \in S : x <= y
         /\ \E x \in S : \A y \in S : y <= x
<1>1. IsFiniteSet(S)
  <2>1. IsFiniteSet(1..n)
    BY FS_Interval
  <2>. QED
    BY <2>1, FS_Subset
<1>2. S \in SUBSET Int
  OBVIOUS
<1>. QED
  BY <1>1, <1>2, Extremes

(* Numbering the elements of a finite set by how many precede them follows the order and *)
(* leaves no gap.                                                                        *)
Rank(R, S, x) == Cardinality(Below(R, S, x))

LEMMA Ranks ==
  ASSUME NEW S, IsFiniteSet(S), NEW R, StrictOrder(R, S)
  PROVE  /\ Cardinality(S) \in Nat
         /\ \A x \in S : Rank(R, S, x) \in 0..(Cardinality(S) - 1)
         /\ \A x, y \in S : <<x, y>> \in R => Rank(R, S, x) < Rank(R, S, y)
         /\ \A x, y \in S : Rank(R, S, x) = Rank(R, S, y) => x = y
         /\ \A i \in 0..(Cardinality(S) - 1) : \E x \in S : Rank(R, S, x) = i
<1>. DEFINE n == Cardinality(S)
            rank == [x \in S |-> Rank(R, S, x)]
<1>0. n \in Nat
  BY FS_CardinalityType
<1>1. \A x \in S : /\ Below(R, S, x) \in SUBSET S /\ x \notin Below(R, S, x)
                   /\ IsFiniteSet(Below(R, S, x)) /\ Rank(R, S, x) \in Nat
  <2>1. \A x \in S : Below(R, S, x) \in SUBSET S /\ x \notin Below(R, S, x)
    BY DEF Below, StrictOrder
  <2>. QED
    BY <2>1, FS_Subset, FS_CardinalityType DEF Rank
<1>2. ASSUME NEW x \in S
      PROVE  rank[x] \in 0..(n-1)
  <2>1. Rank(R, S, x) <= n
    BY <1>1, FS_Subset DEF Rank
  <2>2. Rank(R, S, x) # n
    BY <1>1, FS_Subset DEF Rank
  <2>. QED
    BY <1>0, <1>1, <2>1, <2>2
<1>3. ASSUME NEW x \in S, NEW y \in S, <<x, y>> \in R
      PROVE  rank[x] < rank[y]
  <2>1. /\ Below(R, S, x) \in SUBSET Below(R, S, y)
        /\ x \in Below(R, S, y) /\ x \notin Below(R, S, x)
    BY <1>3 DEF Below, StrictOrder
  <2>2. Rank(R, S, x) <= Rank(R, S, y)
    BY <1>1, <2>1, FS_Subset DEF Rank
  <2>3. Rank(R, S, x) # Rank(R, S, y)
    BY <1>1, <2>1, FS_Subset DEF Rank
  <2>. QED
    BY <1>1, <2>2, <2>3
<1>. HIDE DEF rank, n
<1>4. \A x, y \in S : rank[x] = rank[y] => x = y
  <2>1. ASSUME NEW x \in S, NEW y \in S, <<x, y>> \in R
        PROVE  rank[x] # rank[y]
    <3>1. rank[x] < rank[y] /\ rank[x] \in Int /\ rank[y] \in Int
      BY <1>0, <1>2, <1>3, <2>1
    <3>. QED
      BY <3>1
  <2>2. \A x, y \in S : x = y \/ <<x, y>> \in R \/ <<y, x>> \in R
    BY DEF StrictOrder
  <2>. QED
    BY <2>1, <2>2, Zenon
<1>5. rank \in Injection(S, 0..(n-1))
  <2>1. rank = [x \in S |-> rank[x]]
    BY DEF rank
  <2>. QED
    BY <1>2, <1>4, <2>1 DEF Injection, IsInjective
<1>6. IsFiniteSet(0..(n-1)) /\ Cardinality(0..(n-1)) = n
  BY <1>0, FS_Interval
<1>7. rank \in Surjection(S, 0..(n-1))
  BY <1>5, <1>6, FS_Injection DEF n
<1>8. \A i \in 0..(n-1) : \E x \in S : rank[x] = i
  BY <1>7 DEF Surjection
<1>9. \A x \in S : rank[x] = Rank(R, S, x)
  BY DEF rank
<1>. QED
  BY <1>0, <1>2, <1>3, <1>4, <1>8, <1>9 DEF n

(* Exactly k elements have fewer than k predecessors. *)
LEMMA RanksFill ==
  ASSUME NEW S, IsFiniteSet(S), NEW R, StrictOrder(R, S), NEW k \in Nat, k <= Cardinality(S)
  PROVE  Cardinality({x \in S : Cardinality(Below(R, S, x)) < k}) = k
<1>. DEFINE n == Cardinality(S)
            rank == [x \in S |-> Cardinality(Below(R, S, x))]
            first == {x \in S : rank[x] < k}
<1>0. n \in Nat
  BY FS_CardinalityType
<1>2. /\ \A x \in S : rank[x] \in 0..(n-1)
      /\ \A x, y \in S : rank[x] = rank[y] => x = y
      /\ \A i \in 0..(n-1) : \E x \in S : rank[x] = i
  BY Ranks DEF Rank
<1>. HIDE DEF rank, n
<1>8. first \in SUBSET S /\ IsFiniteSet(first)
  BY FS_Subset
<1>. DEFINE part == [x \in first |-> rank[x]]
<1>9. part \in Bijection(first, 0..(k-1))
  <2>1. \A x \in first : part[x] \in 0..(k-1)
    BY <1>0, <1>2
  <2>2. \A i \in 0..(k-1) : \E x \in first : part[x] = i
    <3>1. ASSUME NEW i \in 0..(k-1)
          PROVE  \E x \in first : part[x] = i
      <4>1. i \in 0..(n-1) /\ i < k
        BY <1>0 DEF n
      <4>2. PICK x \in S : rank[x] = i
        BY <1>2, <4>1
      <4>. QED
        BY <4>1, <4>2
    <3>. QED
      BY <3>1
  <2>3. part \in [first -> 0..(k-1)]
    BY <2>1
  <2>4. \A x, y \in first : part[x] = part[y] => x = y
    BY <1>2
  <2>. QED
    BY <2>2, <2>3, <2>4 DEF Bijection, Injection, Surjection, IsInjective
<1>10. Cardinality(0..(k-1)) = Cardinality(first)
  <2>1. ExistsBijection(first, 0..(k-1))
    BY <1>9 DEF ExistsBijection
  <2>. QED
    BY <1>8, <2>1, FS_Bijection
<1>11. Cardinality(0..(k-1)) = k
  BY FS_Interval
<1>12. Cardinality(first) = k
  BY <1>10, <1>11
<1>13. first = {x \in S : Cardinality(Below(R, S, x)) < k}
  BY DEF rank
<1>. QED
  BY <1>12, <1>13, Zenon
=============================================================================
