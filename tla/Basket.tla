-------------------------------- MODULE Basket --------------------------------
(***************************************************************************)
(* The rules by which a basket is chosen: collapsing the rows of the       *)
(* catalogue to one market for each mint (normalizeCatalogue), making a    *)
(* candidate of it (createUniverseProvider), and selecting from candidates *)
(* under a policy of version 2 (selectBasket).                             *)
(*                                                                         *)
(* Mints and pools are numbered by the alphabetical order of their         *)
(* addresses.  A row, and a candidate, has a pool, a value by which it     *)
(* ranks (0: none) and is sound or not: every check that looks at this row *)
(* or candidate alone.  The reasons of a raw candidate are empty.          *)
(***************************************************************************)
EXTENDS Integers, Sequences, FiniteSets, SequencesExt

CONSTANT Members   \* of a basket: policyMembers

ASSUME BasketIsSized == Members \in Nat \ {0}

-----------------------------------------------------------------------------
(* selectBasket() *)

Before(a, b) == a.mint < b.mint \/ (a.mint = b.mint /\ a.pool < b.pool)

(* The elements of s at the positions P, in the order of Comes; equals, whose order the *)
(* comparators of the code leave open, keep theirs.                                     *)
Sorted(s, P, Comes(_, _)) ==
    LET earlier(n) == {k \in P : Comes(s[k], s[n]) \/ (~Comes(s[n], s[k]) /\ k < n)}
    IN  [i \in 1..Cardinality(P) |-> s[CHOOSE n \in P : Cardinality(earlier(n)) = i - 1]]

Ordered(candidates) == Sorted(candidates, DOMAIN candidates, Before)

Copies(candidates, m) == {n \in DOMAIN candidates : candidates[n].mint = m}

(* The last copy before the n-th: the fingerprint the map holds when n is looked up. *)
Prior(candidates, n) ==
    {k \in 1..(n - 1) :
        /\ candidates[k].mint = candidates[n].mint
        /\ \A j \in (k + 1)..(n - 1) : candidates[j].mint # candidates[n].mint}

(* Mints with copies that differ in anything. *)
ConflictsInVersion1(candidates) == {}

Conflicts(candidates) ==
    {candidates[n].mint : n \in
        {n \in DOMAIN candidates : \E k \in Prior(candidates, n) : candidates[k] # candidates[n]}}

Universe(candidates) ==
    LET ordered == Ordered(candidates)
        reasons(n) ==
            (IF ordered[n].mint \in Conflicts(candidates) THEN {"conflict"} ELSE {})
            \cup (IF Prior(ordered, n) # {} THEN {"duplicate"} ELSE {})
            \cup (IF ordered[n].sound /\ ordered[n].value > 0 THEN {} ELSE {"unsound"})
    IN  [n \in DOMAIN ordered |-> [ordered[n] EXCEPT !.reasons = reasons(n)]]

Outranks(a, b) == a.value > b.value \/ (a.value = b.value /\ a.mint < b.mint)

SelectBasket(candidates) ==
    LET universe == Universe(candidates)
        eligible == {n \in DOMAIN universe : universe[n].reasons = {}}
        ranked == Sorted(universe, eligible, Outranks)
    IN  SubSeq(ranked, 1, IF Len(ranked) < Members THEN Len(ranked) ELSE Members)

Mints(basket) == [n \in DOMAIN basket |-> basket[n].mint]

-----------------------------------------------------------------------------
(* normalizeCatalogue(): one market for each mint, the row of the lowest pool; rows that *)
(* disagree on pool or value, or one that is not sound, exclude it.                      *)
Market(rows, m) ==
    LET copies == {rows[n] : n \in Copies(rows, m)}
        lowest == CHOOSE r \in copies : \A s \in copies : r.pool <= s.pool
        conflict == Cardinality({r.pool : r \in copies}) # 1
                    \/ Cardinality({r.value : r \in copies}) # 1
    IN  [mint |-> m, pool |-> lowest.pool, value |-> IF conflict THEN 0 ELSE lowest.value,
         sound |-> ~conflict /\ \A r \in copies : r.sound]

(* The provider's candidates, in the order of the normalized markets: by value, those     *)
(* without last.  Only a sound market is verified, and by metrics that agree with it.     *)
Candidates(rows) ==
    LET markets == [m \in {rows[n].mint : n \in DOMAIN rows} |-> Market(rows, m)]
        ranking == Sorted(markets, DOMAIN markets, Outranks)
    IN  [n \in DOMAIN ranking |->
            [mint |-> ranking[n].mint, pool |-> ranking[n].pool, value |-> ranking[n].value,
             sound |-> ranking[n].sound, reasons |-> {}]]

-----------------------------------------------------------------------------
(* The reference: of the mints all of whose copies agree and qualify, the first by rank. *)
Unanimous(rows) ==
    {m \in {rows[n].mint : n \in DOMAIN rows} :
        \A n, k \in Copies(rows, m) :
            rows[n] = rows[k] /\ rows[n].sound /\ rows[n].value > 0}

IsTop(rows, mints) ==
    LET chosen == ToSet(mints)
        row(m) == rows[CHOOSE n \in DOMAIN rows : rows[n].mint = m]
    IN  /\ chosen \subseteq Unanimous(rows)
        /\ Len(mints) = Members \/ chosen = Unanimous(rows)
        /\ Len(mints) <= Members
        /\ \A i, j \in DOMAIN mints : i < j => Outranks(row(mints[i]), row(mints[j]))
        /\ \A m \in Unanimous(rows) \ chosen :
              \A i \in DOMAIN mints : Outranks(row(mints[i]), row(m))
=============================================================================
