----------------------------- MODULE IntakeProofs -----------------------------
(***************************************************************************)
(* Proofs about Intake, for any number of overlapping workers, however     *)
(* often they are interrupted: nothing is skipped by a history cursor and  *)
(* no output of the treasury's own transactions is booked as a deposit     *)
(* (IndInv); the books are the sum of what they have a row for (LedgerInv);*)
(* and what a reconciliation accuses of is there.                          *)
(***************************************************************************)
EXTENDS Intake, Sums

(* What the proofs need of the types. *)
Types ==
    /\ chain \in Seq(Signatures)
    /\ attempted \subseteq Own /\ booked \subseteq Transfers
    /\ cursor \in [Accounts -> 0..Len(chain)]
    /\ stage \in [Workers -> Stages]
    /\ todo \in [Workers -> SUBSET (DOMAIN chain)]
    /\ handled \in [Workers -> SUBSET Transfers]

(* A transaction of the treasury is on chain only after its attempt is stored. *)
AttemptedFirst == \A s \in Own : Landed(s) => s \in attempted

(* Everything a history lists at p has been booked. *)
Passed(h, p) == ToBook(h, chain[p]) \subseteq booked

(* What a worker has left behind in the history it works on has been passed. *)
LeavesNothing ==
    \A w \in Workers :
        /\ handled[w] \subseteq booked
        /\ stage[w] \in Accounts =>
              \A p \in todo[w], q \in History(stage[w]) :
                  q < p /\ q \notin todo[w] => Passed(stage[w], q)

(* Deposits come from others. *)
NoOutputBooked == \A t \in booked : In[t] \in Arrivals

IndInv == Types /\ AttemptedFirst /\ NothingSkipped /\ LeavesNothing /\ NoOutputBooked

-----------------------------------------------------------------------------
(* Without a new transaction, a smaller ToBook and a larger booked keep what was passed. *)
LEMMA PassedStays ==
    ASSUME Types, AttemptedFirst, UNCHANGED <<chain, failed>>,
           attempted \subseteq attempted', booked \subseteq booked'
    PROVE  /\ \A h : History(h)' = History(h)
           /\ \A h, p : Passed(h, p) => Passed(h, p)'
  BY DEF History, Passed, ToBook

(* A transaction that lands comes after everything listed or passed. *)
LEMMA LandingKeeps ==
    ASSUME Types, AttemptedFirst, NEW s \in Signatures, Land(s)
    PROVE  /\ Len(chain') = Len(chain) + 1 /\ chain' \in Seq(Signatures)
           /\ \A p \in DOMAIN chain : p \in DOMAIN chain' /\ chain'[p] = chain[p] /\ p <= Len(chain)
           /\ \A h : \A p \in History(h)' : p \in History(h) \/ p = Len(chain) + 1
           /\ \A h : \A p \in DOMAIN chain : Passed(h, p) => Passed(h, p)'
  <1>1. chain' = Append(chain, s) /\ UNCHANGED <<attempted, booked>> /\ ~Landed(s)
    BY DEF Land, bookVars
  <1>2. /\ chain \in Seq(Signatures) /\ Len(chain') = Len(chain) + 1
        /\ chain' \in Seq(Signatures)
        /\ DOMAIN chain = 1..Len(chain) /\ DOMAIN chain' = 1..(Len(chain) + 1)
        /\ \A p \in DOMAIN chain : chain'[p] = chain[p]
    BY <1>1 DEF Types
  <1>3. Len(chain) \in Nat
    BY <1>2
  <1>4. \A p \in DOMAIN chain : p \in DOMAIN chain' /\ p <= Len(chain)
    BY <1>2, <1>3
  <1>5. ASSUME NEW h, NEW p \in History(h)'
        PROVE  p \in History(h) \/ p = Len(chain) + 1
    <2>1. p \in 1..(Len(chain) + 1) /\ Listed(h, chain'[p])
      BY <1>2 DEF History, Listed
    <2>2. CASE p \in 1..Len(chain)
      BY <2>1, <2>2, <1>2 DEF History, Listed
    <2> QED  BY <2>1, <2>2, <1>3
  <1>6. ASSUME NEW h, NEW p \in DOMAIN chain, Passed(h, p)
        PROVE  Passed(h, p)'
    <2>1. chain[p] # s
      BY <1>1 DEF Landed
    <2>2. chain[p] \in failed' <=> chain[p] \in failed
      BY <2>1 DEF Land
    <2> QED  BY <2>2, <1>1, <1>2, <1>6 DEF Passed, ToBook
  <1> QED  BY <1>2, <1>4, <1>5, <1>6

-----------------------------------------------------------------------------
LEMMA InitHolds == ASSUME Init PROVE IndInv
  <1>1. Types
    BY DEF Init, Types, Stages, Turns
  <1>2. ~\E p : p \in DOMAIN chain
    BY DEF Init
  <1> QED
    BY <1>1, <1>2 DEF Init, IndInv, AttemptedFirst, Landed, NothingSkipped, History, LeavesNothing,
       NoOutputBooked

(* Steps that leave the chain, the cursors and the workers alone. *)
LEMMA BookStep ==
    ASSUME IndInv,
           UNCHANGED <<chain, failed, cursor, stage, todo, handled>>,
           attempted \subseteq attempted', attempted' \subseteq Own,
           booked \subseteq booked', booked' \subseteq Transfers,
           \A t \in booked' \ booked : In[t] \in Arrivals
    PROVE  IndInv'
  <1>1. Types /\ AttemptedFirst
    BY DEF IndInv
  <1>2. Types'
    BY <1>1 DEF Types
  <1>3. AttemptedFirst'
    BY <1>1 DEF AttemptedFirst, Landed
  <1>4. /\ \A h : History(h)' = History(h)
        /\ \A h, p : Passed(h, p) => Passed(h, p)'
    BY <1>1, PassedStays
  <1>5. NothingSkipped'
    BY <1>4 DEF IndInv, NothingSkipped, Passed
  <1>6. LeavesNothing'
    BY <1>4 DEF IndInv, LeavesNothing
  <1>7. NoOutputBooked'
    BY DEF IndInv, NoOutputBooked
  <1> QED  BY <1>2, <1>3, <1>5, <1>6, <1>7 DEF IndInv

LEMMA LandHolds ==
    ASSUME IndInv, NEW s \in Signatures, Land(s)
    PROVE  IndInv'
  <1>1. Types /\ AttemptedFirst
    BY DEF IndInv
  <1>2. UNCHANGED <<attempted, booked, cursor, stage, todo, handled>>
    BY DEF Land, bookVars, workerVars
  <1>3. /\ Len(chain') = Len(chain) + 1 /\ chain' \in Seq(Signatures)
        /\ \A p \in DOMAIN chain : p \in DOMAIN chain' /\ chain'[p] = chain[p] /\ p <= Len(chain)
        /\ \A h : \A p \in History(h)' : p \in History(h) \/ p = Len(chain) + 1
        /\ \A h : \A p \in DOMAIN chain : Passed(h, p) => Passed(h, p)'
    BY <1>1, LandingKeeps
  <1>4. Len(chain) \in Nat /\ DOMAIN chain = 1..Len(chain)
    BY <1>1 DEF Types
  <1>5. Types'
    <2>1. cursor' \in [Accounts -> 0..Len(chain')]
      BY <1>1, <1>2, <1>3, <1>4 DEF Types
    <2>2. todo' \in [Workers -> SUBSET (DOMAIN chain')]
      BY <1>1, <1>2, <1>3 DEF Types
    <2> QED  BY <1>1, <1>2, <1>3, <2>1, <2>2 DEF Types
  <1>6. AttemptedFirst'
    <2>1. chain' = Append(chain, s) /\ (s \in Own => s \in attempted)
      BY DEF Land
    <2>2. ASSUME NEW r \in Own, NEW p \in DOMAIN chain', chain'[p] = r
          PROVE  r \in attempted'
      <3>1. CASE p \in DOMAIN chain
        BY <3>1, <2>2, <1>1, <1>2, <1>3 DEF AttemptedFirst, Landed
      <3>2. CASE p = Len(chain) + 1
        <4>1. chain'[p] = s
          BY <3>2, <2>1, <1>1 DEF Types
        <4> QED  BY <4>1, <2>1, <2>2, <1>2
      <3>3. DOMAIN chain' = 1..(Len(chain) + 1)
        BY <1>3
      <3> QED  BY <3>1, <3>2, <3>3, <1>4
    <2> QED  BY <2>2 DEF AttemptedFirst, Landed
  <1>7. NothingSkipped'
    <2> SUFFICES ASSUME NEW h \in Accounts, NEW p \in History(h)', p <= cursor'[h]
                 PROVE  Passed(h, p)'
      BY DEF NothingSkipped, Passed
    <2>1. cursor[h] \in 0..Len(chain) /\ cursor' = cursor
      BY <1>1, <1>2 DEF Types
    <2>2. p \in History(h)
      BY <2>1, <1>3, <1>4
    <2>3. Passed(h, p) /\ p \in DOMAIN chain
      BY <2>1, <2>2 DEF IndInv, NothingSkipped, Passed, History
    <2> QED  BY <2>3, <1>3
  <1>8. LeavesNothing'
    <2> SUFFICES ASSUME NEW w \in Workers
                 PROVE  /\ (handled[w] \subseteq booked)'
                        /\ (stage[w] \in Accounts)' =>
                              \A p \in todo[w]', q \in History(stage[w])' :
                                  q < p /\ q \notin todo[w]' => Passed(stage[w], q)'
      BY DEF LeavesNothing
    <2>1. (handled[w] \subseteq booked)'
      BY <1>2 DEF IndInv, LeavesNothing
    <2>2. ASSUME (stage[w] \in Accounts)', NEW p \in todo[w]', NEW q \in History(stage[w])',
                 q < p, q \notin todo[w]'
          PROVE  Passed(stage[w], q)'
      <3>1. stage'[w] = stage[w] /\ todo'[w] = todo[w] /\ stage[w] \in Accounts
        BY <2>2, <1>2
      <3>2. p \in 1..Len(chain) /\ p \in todo[w] /\ q \notin todo[w]
        BY <3>1, <2>2, <1>1, <1>4 DEF Types
      <3>3. \A h : h = stage[w] => \A r \in History(h)' : r \in History(h) \/ r = Len(chain) + 1
        BY <1>3
      <3>4. q \in History(stage[w])
        <4> DEFINE h == stage[w]
        <4>1. q \in History(h)'
          BY <2>2, <3>1
        <4> QED  BY <4>1, <3>1, <3>2, <1>3, <1>4, <2>2
      <3>5. Passed(stage[w], q) /\ q \in DOMAIN chain
        BY <3>1, <3>2, <3>4, <2>2 DEF IndInv, LeavesNothing, History
      <3> QED  BY <3>1, <3>5, <1>3
    <2> QED  BY <2>1, <2>2
  <1>9. NoOutputBooked'
    BY <1>2 DEF IndInv, NoOutputBooked
  <1> QED  BY <1>5, <1>6, <1>7, <1>8, <1>9 DEF IndInv

(* A worker turns to something else than a history. *)
LEMMA TurnStep ==
    ASSUME IndInv, NEW w \in Workers, NEW next \in Stages \ Accounts,
           UNCHANGED <<chain, failed, attempted, booked, cursor>>,
           stage' = [stage EXCEPT ![w] = next],
           todo' = todo \/ todo' = [todo EXCEPT ![w] = {}],
           handled' = handled \/ handled' = [handled EXCEPT ![w] = {}]
    PROVE  IndInv'
  <1>1. Types /\ AttemptedFirst
    BY DEF IndInv
  <1>2. Types'
    BY <1>1 DEF Types
  <1>3. AttemptedFirst' /\ NoOutputBooked'
    BY DEF IndInv, AttemptedFirst, Landed, NoOutputBooked
  <1>4. /\ \A h : History(h)' = History(h)
        /\ \A h, p : Passed(h, p) => Passed(h, p)'
    BY <1>1, PassedStays
  <1>5. NothingSkipped'
    BY <1>4 DEF IndInv, NothingSkipped, Passed
  <1>6. LeavesNothing'
    <2> SUFFICES ASSUME NEW v \in Workers
                 PROVE  /\ (handled[v] \subseteq booked)'
                        /\ (stage[v] \in Accounts)' =>
                              \A p \in todo[v]', q \in History(stage[v])' :
                                  q < p /\ q \notin todo[v]' => Passed(stage[v], q)'
      BY DEF LeavesNothing
    <2>1. (handled[v] \subseteq booked)'
      BY <1>1 DEF IndInv, LeavesNothing, Types
    <2>2. CASE v = w
      BY <2>1, <2>2, <1>1 DEF Types
    <2>3. CASE v # w
      <3>1. stage'[v] = stage[v] /\ todo'[v] = todo[v]
        BY <2>3, <1>1 DEF Types
      <3> QED  BY <2>1, <3>1, <1>4 DEF IndInv, LeavesNothing
    <2> QED  BY <2>2, <2>3
  <1> QED  BY <1>2, <1>3, <1>5, <1>6 DEF IndInv

(* What is listed starts behind the cursor, and before the cursor nothing is left. *)
LEMMA ListHolds ==
    ASSUME IndInv, NEW w \in Workers, NEW h \in Accounts, List(w, h)
    PROVE  IndInv'
  <1>1. Types /\ AttemptedFirst
    BY DEF IndInv
  <1>2. /\ UNCHANGED <<chain, failed, attempted, booked, cursor, handled>>
        /\ stage' = [stage EXCEPT ![w] = h]
        /\ todo' = [todo EXCEPT ![w] = Pending(h)]
    BY DEF List, chainVars, bookVars
  <1>3. Types'
    <2>1. Pending(h) \subseteq DOMAIN chain /\ h \in Stages
      BY DEF Pending, History, Stages
    <2> QED  BY <1>1, <1>2, <2>1 DEF Types
  <1>4. AttemptedFirst' /\ NoOutputBooked'
    BY <1>2 DEF IndInv, AttemptedFirst, Landed, NoOutputBooked
  <1>5. /\ \A a : History(a)' = History(a)
        /\ \A a, p : Passed(a, p) => Passed(a, p)'
    BY <1>1, <1>2, PassedStays
  <1>6. NothingSkipped'
    BY <1>2, <1>5 DEF IndInv, NothingSkipped, Passed
  <1>7. LeavesNothing'
    <2> SUFFICES ASSUME NEW v \in Workers
                 PROVE  /\ (handled[v] \subseteq booked)'
                        /\ (stage[v] \in Accounts)' =>
                              \A p \in todo[v]', q \in History(stage[v])' :
                                  q < p /\ q \notin todo[v]' => Passed(stage[v], q)'
      BY DEF LeavesNothing
    <2>1. (handled[v] \subseteq booked)'
      BY <1>2 DEF IndInv, LeavesNothing
    <2>2. CASE v = w
      <3>1. stage'[v] = h /\ todo'[v] = Pending(h)
        BY <2>2, <1>1, <1>2 DEF Types
      <3>2. ASSUME NEW p \in Pending(h), NEW q \in History(h), q < p, q \notin Pending(h)
            PROVE  Passed(h, q)
        <4>1. cursor[h] \in Int /\ p \in Int /\ q \in Int /\ q <= cursor[h]
          BY <3>2, <1>1 DEF Types, Pending, History
        <4> QED  BY <4>1, <3>2 DEF IndInv, NothingSkipped, Passed
      <3> QED  BY <2>1, <3>1, <3>2, <1>5
    <2>3. CASE v # w
      <3>1. stage'[v] = stage[v] /\ todo'[v] = todo[v]
        BY <2>3, <1>1, <1>2 DEF Types
      <3> QED  BY <2>1, <3>1, <1>5 DEF IndInv, LeavesNothing
    <2> QED  BY <2>2, <2>3
  <1> QED  BY <1>3, <1>4, <1>6, <1>7 DEF IndInv

(* A transfer is booked, and what the worker handled stays within what is booked. *)
LEMMA IngestHolds ==
    ASSUME IndInv,
           NEW w \in Workers, NEW p \in todo[w], NEW t \in Transfers, IngestListed(w, p, t)
    PROVE  IndInv'
  <1>1. Types /\ AttemptedFirst
    BY DEF IndInv
  <1>2. /\ UNCHANGED <<chain, failed, attempted, cursor, stage, todo>>
        /\ stage[w] \in Accounts /\ t \in ToBook(stage[w], chain[p])
        /\ booked' = booked \cup {t}
        /\ handled' = [handled EXCEPT ![w] = @ \cup {t}]
    BY DEF IngestListed, Ingest, chainVars
  <1>3. Types'
    BY <1>1, <1>2 DEF Types
  <1>4. AttemptedFirst'
    BY <1>2 DEF IndInv, AttemptedFirst, Landed
  <1>5. /\ \A h : History(h)' = History(h)
        /\ \A h, r : Passed(h, r) => Passed(h, r)'
    BY <1>1, <1>2, PassedStays
  <1>6. NothingSkipped'
    BY <1>2, <1>5 DEF IndInv, NothingSkipped, Passed
  <1>7. LeavesNothing'
    BY <1>1, <1>2, <1>5 DEF IndInv, LeavesNothing, Types
  <1>8. NoOutputBooked'
    <2>1. In[t] = chain[p] /\ To[t] = stage[w] /\ p \in DOMAIN chain
      BY <1>1, <1>2 DEF ToBook, Types
    <2>2. In[t] \in Own => In[t] \in attempted /\ To[t] # "native"
      BY <2>1, <1>1, IntakeConstants DEF AttemptedFirst, Landed
    <2>3. In[t] \notin Own
      BY <1>2, <2>1, <2>2 DEF ToBook
    <2>4. In[t] \in Arrivals
      BY <2>3, IntakeConstants
    <2> QED  BY <1>2, <2>4 DEF IndInv, NoOutputBooked
  <1> QED  BY <1>3, <1>4, <1>6, <1>7, <1>8 DEF IndInv

(* The cursor moves, forwards or backwards, to a position before which all is passed. *)
LEMMA AdvanceHolds ==
    ASSUME IndInv, NEW w \in Workers, NEW p \in todo[w], Advance(w, p)
    PROVE  IndInv'
  <1>1. Types /\ AttemptedFirst
    BY DEF IndInv
  <1>2. /\ UNCHANGED <<chain, failed, attempted, booked, stage>>
        /\ stage[w] \in Accounts
        /\ \A q \in todo[w] : p <= q
        /\ ToBook(stage[w], chain[p]) \subseteq handled[w]
        /\ cursor' = [cursor EXCEPT ![stage[w]] = p]
        /\ todo' = [todo EXCEPT ![w] = @ \ {p}]
        /\ handled' = [handled EXCEPT ![w] = {}]
    BY DEF Advance, OldestFirst, chainVars, bookVars
  <1>3. p \in 1..Len(chain) /\ Len(chain) \in Nat /\ DOMAIN chain = 1..Len(chain)
    BY <1>1 DEF Types
  <1>4. Types'
    BY <1>1, <1>2, <1>3 DEF Types
  <1>5. AttemptedFirst' /\ NoOutputBooked'
    BY <1>2 DEF IndInv, AttemptedFirst, Landed, NoOutputBooked
  <1>6. /\ \A h : History(h)' = History(h)
        /\ \A h, r : Passed(h, r) => Passed(h, r)'
    BY <1>1, <1>2, PassedStays
  <1>7. Passed(stage[w], p)
    BY <1>2 DEF IndInv, LeavesNothing, Passed
  <1>8. ASSUME NEW q \in History(stage[w]), q <= p
        PROVE  Passed(stage[w], q)
    <2>1. CASE q = p
      BY <2>1, <1>7
    <2>2. CASE q # p
      <3>1. q \in Int /\ q < p
        BY <2>2, <1>3, <1>8 DEF History
      <3>2. q \notin todo[w]
        BY <3>1, <1>2, <1>3
      <3> QED  BY <3>1, <3>2, <1>2 DEF IndInv, LeavesNothing
    <2> QED  BY <2>1, <2>2
  <1>9. NothingSkipped'
    <2> SUFFICES ASSUME NEW h \in Accounts, NEW q \in History(h), q <= cursor'[h]
                 PROVE  Passed(h, q)
      BY <1>6 DEF NothingSkipped, Passed
    <2>1. CASE h = stage[w]
      BY <2>1, <1>1, <1>2, <1>8 DEF Types
    <2>2. CASE h # stage[w]
      <3>1. cursor'[h] = cursor[h]
        BY <2>2, <1>1, <1>2 DEF Types
      <3> QED  BY <3>1 DEF IndInv, NothingSkipped, Passed
    <2> QED  BY <2>1, <2>2
  <1>10. LeavesNothing'
    <2> SUFFICES ASSUME NEW v \in Workers
                 PROVE  /\ (handled[v] \subseteq booked)'
                        /\ (stage[v] \in Accounts)' =>
                              \A r \in todo[v]', q \in History(stage[v])' :
                                  q < r /\ q \notin todo[v]' => Passed(stage[v], q)'
      BY DEF LeavesNothing
    <2>1. (handled[v] \subseteq booked)'
      BY <1>1, <1>2 DEF IndInv, LeavesNothing, Types
    <2>2. CASE v = w
      <3>1. todo'[v] = todo[w] \ {p} /\ stage'[v] = stage[w]
        BY <2>2, <1>1, <1>2 DEF Types
      <3>2. ASSUME NEW r \in todo[w] \ {p}, NEW q \in History(stage[w]), q < r,
                   q \notin todo[w] \ {p}
            PROVE  Passed(stage[w], q)
        <4>1. CASE q = p
          BY <4>1, <1>7
        <4>2. CASE q # p
          BY <4>2, <3>2, <1>2 DEF IndInv, LeavesNothing
        <4> QED  BY <4>1, <4>2
      <3> QED  BY <2>1, <3>1, <3>2, <1>6
    <2>3. CASE v # w
      <3>1. stage'[v] = stage[v] /\ todo'[v] = todo[v]
        BY <2>3, <1>1, <1>2 DEF Types
      <3> QED  BY <2>1, <3>1, <1>6 DEF IndInv, LeavesNothing
    <2> QED  BY <2>2, <2>3
  <1> QED  BY <1>4, <1>5, <1>9, <1>10 DEF IndInv

LEMMA NextHolds == ASSUME IndInv, [Next]_vars PROVE IndInv'
  <1>1. CASE UNCHANGED vars
    <2>1. UNCHANGED <<chain, failed, attempted, cursor, stage, todo, handled, booked>>
      BY <1>1 DEF vars, chainVars, bookVars, workerVars
    <2> QED  BY <2>1, BookStep DEF IndInv, Types
  <1>2. ASSUME NEW s \in Own, Attempt(s) PROVE IndInv'
    <2>1. /\ UNCHANGED <<chain, failed, cursor, stage, todo, handled, booked>>
          /\ attempted' = attempted \cup {s}
      BY <1>2 DEF Attempt, bookVars, workerVars
    <2> QED  BY <2>1, BookStep DEF IndInv, Types
  <1>3. ASSUME NEW s \in Own, Settle(s) PROVE IndInv'
    <2>1. UNCHANGED <<chain, failed, attempted, cursor, stage, todo, handled, booked>>
      BY <1>3 DEF Settle, chainVars, workerVars
    <2> QED  BY <2>1, BookStep DEF IndInv, Types
  <1>4. ASSUME NEW s \in Signatures, Land(s) PROVE IndInv'
    BY <1>4, LandHolds
  <1>5. ASSUME NEW s \in Expenses, RecordExpense(s) PROVE IndInv'
    <2>1. UNCHANGED <<chain, failed, attempted, cursor, stage, todo, handled, booked>>
      BY <1>5 DEF RecordExpense, chainVars, workerVars
    <2> QED  BY <2>1, BookStep DEF IndInv, Types
  <1>6. ASSUME NEW t \in Transfers, RecognizeCapital(t) PROVE IndInv'
    <2>1. /\ UNCHANGED <<chain, failed, attempted, cursor, stage, todo, handled>>
          /\ booked' = booked \cup {t} /\ Asset[t] = "native"
      BY <1>6 DEF RecognizeCapital, Ingest, chainVars, workerVars
    <2>2. In[t] \in Arrivals
      BY <2>1, IntakeConstants DEF Asset
    <2> QED  BY <2>1, <2>2, BookStep DEF IndInv, Types
  <1>7. CASE RequestReconciliation
    <2>1. UNCHANGED <<chain, failed, attempted, cursor, stage, todo, handled, booked>>
      BY <1>7 DEF RequestReconciliation, chainVars, bookVars, workerVars
    <2> QED  BY <2>1, BookStep DEF IndInv, Types
  <1>8. ASSUME NEW w \in Workers, NEW h \in Accounts, List(w, h) PROVE IndInv'
    BY <1>8, ListHolds
  <1>9. ASSUME NEW w \in Workers, NEW p \in todo[w], Advance(w, p) PROVE IndInv'
    BY <1>9, AdvanceHolds
  <1>10. ASSUME NEW w \in Workers, NEW p \in todo[w], NEW t \in Transfers, IngestListed(w, p, t)
         PROVE  IndInv'
    BY <1>10, IngestHolds
  <1>11. ASSUME NEW w \in Workers,
                \/ EndHistory(w) \/ LeaveTokens(w) \/ NothingRequested(w)
                \/ \E k \in 0..Len(chain) : ReadBalances(w, k)
                \/ ReconcileStale(w) \/ Reconcile(w) \/ Answer(w) \/ Abandon(w)
         PROVE  IndInv'
    <2>1. /\ UNCHANGED <<chain, failed, attempted, booked, cursor>>
          /\ todo' = todo \/ todo' = [todo EXCEPT ![w] = {}]
          /\ handled' = handled \/ handled' = [handled EXCEPT ![w] = {}]
      BY <1>11 DEF EndHistory, LeaveTokens, NothingRequested, ReadBalances, ReconcileStale,
         Reconcile, Answer, Abandon, chainVars, bookVars
    <2>2. \E next \in Stages \ Accounts : stage' = [stage EXCEPT ![w] = next]
      <3>1. Turns \subseteq Stages \ Accounts
        BY IntakeConstants DEF Stages, Turns, Accounts
      <3>2. CASE EndHistory(w)
        BY <3>1, <3>2 DEF EndHistory, Turns
      <3>3. CASE LeaveTokens(w)
        BY <3>1, <3>3 DEF LeaveTokens, Turns
      <3>4. CASE \E k \in 0..Len(chain) : ReadBalances(w, k)
        BY <3>1, <3>4 DEF ReadBalances, Turns
      <3>5. CASE Reconcile(w)
        BY <3>1, <3>5 DEF Reconcile, Turns
      <3>6. CASE NothingRequested(w) \/ ReconcileStale(w) \/ Answer(w) \/ Abandon(w)
        BY <3>1, <3>6 DEF NothingRequested, ReconcileStale, Answer, Abandon, Turns
      <3> QED  BY <1>11, <3>2, <3>3, <3>4, <3>5, <3>6
    <2> QED  BY <2>1, <2>2, TurnStep
  <1> QED
    BY <1>1, <1>2, <1>3, <1>4, <1>5, <1>6, <1>7, <1>8, <1>9, <1>10, <1>11
       DEF Next, Environment, Proceed, Accounts

-----------------------------------------------------------------------------
(* The books *)

(* What IndInv says nothing of: outcomes, expenses, balances and samples. *)
BookTypes ==
    /\ failed \subseteq Own /\ settled \subseteq Own /\ recorded \subseteq Expenses
    /\ IsFiniteSet(attempted) /\ IsFiniteSet(settled) /\ IsFiniteSet(recorded)
    /\ balance \in [Assets -> Int]
    /\ sample \in [Workers -> Nat] /\ \A w \in Workers : sample[w] <= Len(chain)

(* What has a row in the books is on chain, and is there once. *)
BookedOnChain ==
    /\ \A s \in settled \cup recorded : Landed(s)
    /\ \A t \in booked : Landed(In[t])
    /\ \A p, q \in DOMAIN chain : chain[p] = chain[q] => p = q

LedgerInv == IndInv /\ BookTypes /\ BookedOnChain /\ BooksAddUp

(* The deposits among some transfers, and the effect of a transaction of the treasury or *)
(* its owner, given which of them failed.                                                *)
Deposits(some, a) == {t \in Transfers : In[t] \in Arrivals /\ t \in some /\ Asset[t] = a}

OwnEffect(F, s, a) ==
    IF s \in F THEN (IF a = "native" THEN -FailFee[s] ELSE 0) ELSE Received(s, a) - Debit[s][a]

Postings(F, some, a) == [s \in some |-> OwnEffect(F, s, a)]

(* The value of the books. *)
BookValue(some, mine, F, a) ==
    Opening[a] + SumFunctionOnSet(Amount, Deposits(some, a))
               + SumFunctionOnSet(Postings(F, mine, a), mine)

LEMMA AmountsAddUp ==
    ASSUME NEW S \in SUBSET Transfers
    PROVE  /\ IsFiniteSet(S) /\ \A t \in S : Amount[t] \in Nat /\ Amount[t] > 0
           /\ SumFunction([t \in S |-> Amount[t]]) = SumFunctionOnSet(Amount, S)
           /\ SumFunctionOnSet(Amount, S) \in Nat
  <1>1. IsFiniteSet(S)
    BY IntakeConstants, FS_Subset
  <1>2. \A t \in S : Amount[t] \in Nat /\ Amount[t] > 0
    BY IntakeConstants
  <1> DEFINE f == [t \in S |-> Amount[t]]
  <1>3. DOMAIN f = S /\ \A t \in S : f[t] = Amount[t]
    OBVIOUS
  <1> HIDE DEF f
  <1>4. SumFunction(f) = SumFunctionOnSet(f, S)
    BY <1>3, Zenon DEF SumFunction
  <1>5. SumFunctionOnSet(f, S) = SumFunctionOnSet(Amount, S)
    BY <1>1, <1>3, SumSame
  <1>6. SumFunctionOnSet(Amount, S) \in Nat
    BY <1>1, <1>2, SumNat
  <1>7. SumFunction(f) = SumFunctionOnSet(Amount, S)
    BY <1>4, <1>5
  <1> USE DEF f
  <1> QED  BY <1>1, <1>2, <1>6, <1>7

LEMMA ReceivedIs ==
    ASSUME NEW s, NEW a
    PROVE  /\ Received(s, a) =
                 SumFunctionOnSet(Amount, {t \in Transfers : In[t] = s /\ To[t] \in Sampled /\ Asset[t] = a})
           /\ Received(s, a) \in Nat
           /\ Received(s, a) > 0 => \E t \in Transfers : In[t] = s /\ Asset[t] = a
  <1> DEFINE S == {t \in Transfers : In[t] = s /\ To[t] \in Sampled /\ Asset[t] = a}
  <1>1. S \in SUBSET Transfers
    OBVIOUS
  <1>2. Received(s, a) = SumFunction([t \in S |-> Amount[t]])
    BY DEF Received
  <1>3. S = {} => SumFunctionOnSet(Amount, S) = 0
    BY SumEmpty
  <1> HIDE DEF S
  <1>4. /\ Received(s, a) = SumFunctionOnSet(Amount, S) /\ Received(s, a) \in Nat
        /\ Received(s, a) > 0 => S # {}
    BY <1>1, <1>2, <1>3, AmountsAddUp
  <1> USE DEF S
  <1> QED  BY <1>4

LEMMA OwnEffectIs ==
    ASSUME NEW F \in SUBSET Own, NEW s \in Own \cup Expenses, NEW a \in Assets
    PROVE  OwnEffect(F, s, a) \in Int
  <1>1. Received(s, a) \in Nat /\ Debit[s][a] \in Nat
    <2>1. Debit[s] \in [Assets -> Nat]
      BY IntakeConstants
    <2> QED  BY <2>1, ReceivedIs
  <1>2. s \in F => FailFee[s] \in Nat
    BY IntakeConstants
  <1> QED  BY <1>1, <1>2 DEF OwnEffect

LEMMA EffectIs ==
    ASSUME NEW s \in Own \cup Expenses, NEW a
    PROVE  Effect(s, a) = OwnEffect(failed, s, a)
  BY IntakeConstants DEF Effect, OwnEffect

LEMMA PostingsAddUp ==
    ASSUME NEW F \in SUBSET Own, NEW mine \in SUBSET (Own \cup Expenses), IsFiniteSet(mine),
           NEW a \in Assets
    PROVE  /\ SumFunction(Postings(F, mine, a)) = SumFunctionOnSet(Postings(F, mine, a), mine)
           /\ SumFunctionOnSet(Postings(F, mine, a), mine) \in Int
           /\ \A s \in mine : Postings(F, mine, a)[s] = OwnEffect(F, s, a) /\ OwnEffect(F, s, a) \in Int
  <1> DEFINE f == Postings(F, mine, a)
  <1>1. DOMAIN f = mine /\ \A s \in mine : f[s] = OwnEffect(F, s, a) /\ OwnEffect(F, s, a) \in Int
    BY OwnEffectIs DEF Postings
  <1> HIDE DEF f
  <1>2. SumFunction(f) = SumFunctionOnSet(f, mine)
    BY <1>1, Zenon DEF SumFunction
  <1>3. SumFunctionOnSet(f, mine) \in Int
    BY <1>1, SumInt
  <1> USE DEF f
  <1> QED  BY <1>1, <1>2, <1>3

LEMMA DepositsAddUp ==
    ASSUME NEW some, NEW a
    PROVE  /\ Deposits(some, a) \in SUBSET Transfers /\ IsFiniteSet(Deposits(some, a))
           /\ SumFunctionOnSet(Amount, Deposits(some, a)) \in Nat
  <1>1. Deposits(some, a) \in SUBSET Transfers
    BY DEF Deposits
  <1> QED  BY <1>1, AmountsAddUp

(* BooksAddUp, for the books before and after a step. *)
LEMMA BooksAre ==
    ASSUME NEW some \in SUBSET Transfers, NEW F \in SUBSET Own,
           NEW mine \in SUBSET (Own \cup Expenses), IsFiniteSet(mine), NEW a \in Assets
    PROVE  Opening[a] + SumFunction([t \in Deposits(some, a) |-> Amount[t]])
                      + SumFunction(Postings(F, mine, a)) = BookValue(some, mine, F, a)
  <1>1. Deposits(some, a) \in SUBSET Transfers
    BY DEF Deposits
  <1>2. SumFunction([t \in Deposits(some, a) |-> Amount[t]]) = SumFunctionOnSet(Amount, Deposits(some, a))
    BY <1>1, AmountsAddUp
  <1>3. SumFunction(Postings(F, mine, a)) = SumFunctionOnSet(Postings(F, mine, a), mine)
    BY PostingsAddUp
  <1> QED  BY <1>2, <1>3 DEF BookValue

LEMMA BooksNow ==
    ASSUME booked \subseteq Transfers, BookTypes
    PROVE  BooksAddUp <=> \A a \in Assets : balance[a] = BookValue(booked, settled \cup recorded, failed, a)
  <1>1. ASSUME NEW a \in Assets
        PROVE  Opening[a] + SumFunction([t \in {x \in Transfers : In[x] \in Arrivals /\ x \in booked /\ Asset[x] = a} |-> Amount[t]])
                 + SumFunction([s \in settled \cup recorded |-> Effect(s, a)])
               = BookValue(booked, settled \cup recorded, failed, a)
    <2>1. settled \cup recorded \in SUBSET (Own \cup Expenses) /\ IsFiniteSet(settled \cup recorded)
      BY FS_Union DEF BookTypes
    <2>2. \A s \in settled \cup recorded : Effect(s, a) = OwnEffect(failed, s, a)
      BY <2>1, EffectIs
    <2>3. [s \in settled \cup recorded |-> Effect(s, a)] = Postings(failed, settled \cup recorded, a)
      BY <2>2 DEF Postings
    <2>4. failed \in SUBSET Own /\ booked \in SUBSET Transfers
      BY DEF BookTypes
    <2>5. Opening[a] + SumFunction([t \in Deposits(booked, a) |-> Amount[t]])
            + SumFunction(Postings(failed, settled \cup recorded, a))
            = BookValue(booked, settled \cup recorded, failed, a)
      BY <2>1, <2>4, BooksAre
    <2> QED  BY <2>3, <2>5, Zenon DEF Deposits
  <1> QED  BY <1>1, Zenon DEF BooksAddUp

(* The same of the next state. *)
LEMMA BooksNext ==
    ASSUME booked' \subseteq Transfers, BookTypes',
           \A a \in Assets : balance'[a] = BookValue(booked', settled' \cup recorded', failed', a)
    PROVE  BooksAddUp'
  <1>1. ASSUME NEW a \in Assets
        PROVE  Opening[a] + SumFunction([t \in {x \in Transfers : In[x] \in Arrivals /\ x \in booked' /\ Asset[x] = a} |-> Amount[t]])
                 + SumFunction([s \in settled' \cup recorded' |-> Effect(s, a)'])
               = BookValue(booked', settled' \cup recorded', failed', a)
    <2>1. settled' \cup recorded' \in SUBSET (Own \cup Expenses) /\ IsFiniteSet(settled' \cup recorded')
      BY FS_Union DEF BookTypes
    <2>2. \A s \in settled' \cup recorded' : Effect(s, a)' = OwnEffect(failed', s, a)
      BY <2>1, IntakeConstants DEF Effect, OwnEffect
    <2>3. [s \in settled' \cup recorded' |-> Effect(s, a)'] = Postings(failed', settled' \cup recorded', a)
      BY <2>2 DEF Postings
    <2>4. failed' \in SUBSET Own /\ booked' \in SUBSET Transfers
      BY DEF BookTypes
    <2>5. Opening[a] + SumFunction([t \in Deposits(booked', a) |-> Amount[t]])
            + SumFunction(Postings(failed', settled' \cup recorded', a))
            = BookValue(booked', settled' \cup recorded', failed', a)
      BY <2>1, <2>4, BooksAre
    <2> QED  BY <2>3, <2>5, Zenon DEF Deposits
  <1> QED  BY <1>1, Zenon DEF BooksAddUp

(* What a step does to the value of the books: a deposit or an outcome is added once, and a *)
(* failure counts as one from the start.                                                    *)
AmountIn(t, a) == IF Asset[t] = a THEN Amount[t] ELSE 0

LEMMA DepositAdds ==
    ASSUME NEW some \in SUBSET Transfers, NEW F \in SUBSET Own,
           NEW mine \in SUBSET (Own \cup Expenses), IsFiniteSet(mine), NEW a \in Assets,
           NEW t \in Transfers, t \notin some, In[t] \in Arrivals
    PROVE  BookValue(some \cup {t}, mine, F, a) =
             BookValue(some, mine, F, a) + AmountIn(t, a)
  <1>1. some \cup {t} \in SUBSET Transfers
    OBVIOUS
  <1>2. SumFunctionOnSet(Amount, Deposits(some \cup {t}, a)) =
          SumFunctionOnSet(Amount, Deposits(some, a)) + AmountIn(t, a)
    <2>1. CASE Asset[t] = a
      <3> DEFINE S == Deposits(some \cup {t}, a)
                 R == Deposits(some, a)
      <3>1. t \in S /\ S \ {t} = R
        BY <2>1 DEF Deposits
      <3>2. S \in SUBSET Transfers /\ IsFiniteSet(S) /\ SumFunctionOnSet(Amount, R) \in Nat
        BY DepositsAddUp
      <3> HIDE DEF S, R
      <3>3. \A x \in S : Amount[x] \in Int
        BY <3>2, IntakeConstants
      <3>4. SumFunctionOnSet(Amount, S) = Amount[t] + SumFunctionOnSet(Amount, S \ {t})
        BY <3>1, <3>2, <3>3, SumRemove
      <3>5. SumFunctionOnSet(Amount, S) = Amount[t] + SumFunctionOnSet(Amount, R)
        BY <3>1, <3>4
      <3>6. SumFunctionOnSet(Amount, S) = SumFunctionOnSet(Amount, R) + Amount[t]
        BY <3>1, <3>2, <3>3, <3>5
      <3> QED  BY <2>1, <3>6 DEF S, R, AmountIn
    <2>2. CASE Asset[t] # a
      <3>1. Deposits(some \cup {t}, a) = Deposits(some, a)
        BY <2>2 DEF Deposits
      <3>2. SumFunctionOnSet(Amount, Deposits(some, a)) \in Int
        BY DepositsAddUp
      <3> QED  BY <2>2, <3>1, <3>2 DEF AmountIn
    <2> QED  BY <2>1, <2>2
  <1> DEFINE before == SumFunctionOnSet(Amount, Deposits(some, a))
             after == SumFunctionOnSet(Amount, Deposits(some \cup {t}, a))
             posted == SumFunctionOnSet(Postings(F, mine, a), mine)
             more == AmountIn(t, a)
  <1>3. before \in Int /\ posted \in Int /\ more \in Int /\ Opening[a] \in Int
    <2>1. before \in Int
      BY DepositsAddUp
    <2>2. posted \in Int
      BY PostingsAddUp
    <2>3. more \in Int /\ Opening[a] \in Int
      BY IntakeConstants DEF AmountIn
    <2> QED  BY <2>1, <2>2, <2>3
  <1>4. /\ BookValue(some, mine, F, a) = Opening[a] + before + posted
        /\ BookValue(some \cup {t}, mine, F, a) = Opening[a] + after + posted
        /\ after = before + more
    BY <1>2 DEF BookValue
  <1> HIDE DEF before, after, posted
  <1> QED  BY <1>3, <1>4

LEMMA OutcomeAdds ==
    ASSUME NEW some \in SUBSET Transfers, NEW F \in SUBSET Own,
           NEW mine \in SUBSET (Own \cup Expenses), IsFiniteSet(mine), NEW a \in Assets,
           NEW s \in (Own \cup Expenses) \ mine
    PROVE  BookValue(some, mine \cup {s}, F, a) = BookValue(some, mine, F, a) + OwnEffect(F, s, a)
  <1> DEFINE more == mine \cup {s}
             f == Postings(F, more, a)
             g == Postings(F, mine, a)
  <1>1. IsFiniteSet(more) /\ more \in SUBSET (Own \cup Expenses) /\ s \in more /\ more \ {s} = mine
    BY FS_AddElement
  <1>2. \A x \in more : f[x] \in Int
    <2> HIDE DEF more
    <2> QED  BY <1>1, PostingsAddUp
  <1>3. f[s] = OwnEffect(F, s, a) /\ \A x \in mine : g[x] = f[x]
    BY DEF Postings
  <1> HIDE DEF more, f, g
  <1>4. SumFunctionOnSet(f, more) = f[s] + SumFunctionOnSet(f, mine)
    BY <1>1, <1>2, SumRemove
  <1>5. SumFunctionOnSet(g, mine) = SumFunctionOnSet(f, mine)
    BY <1>3, SumSame
  <1>6. /\ BookValue(some, mine, F, a) =
             Opening[a] + SumFunctionOnSet(Amount, Deposits(some, a)) + SumFunctionOnSet(g, mine)
        /\ BookValue(some, mine \cup {s}, F, a) =
             Opening[a] + SumFunctionOnSet(Amount, Deposits(some, a)) + SumFunctionOnSet(f, more)
    BY DEF BookValue, more, f, g
  <1>7. /\ Opening[a] \in Int /\ SumFunctionOnSet(Amount, Deposits(some, a)) \in Int
        /\ SumFunctionOnSet(g, mine) \in Int /\ f[s] \in Int
    <2>1. Opening[a] \in Int
      BY IntakeConstants
    <2>2. SumFunctionOnSet(Amount, Deposits(some, a)) \in Int
      BY DepositsAddUp
    <2>3. SumFunctionOnSet(g, mine) \in Int
      BY PostingsAddUp DEF g
    <2> QED  BY <1>1, <1>2, <2>1, <2>2, <2>3
  <1> QED  BY <1>3, <1>4, <1>5, <1>6, <1>7

LEMMA LaterFailureKeeps ==
    ASSUME NEW some, NEW F, NEW mine, NEW a, NEW s, s \notin mine
    PROVE  BookValue(some, mine, F \cup {s}, a) = BookValue(some, mine, F, a)
  <1>1. \A x \in mine : OwnEffect(F \cup {s}, x, a) = OwnEffect(F, x, a)
    BY DEF OwnEffect
  <1>2. Postings(F \cup {s}, mine, a) = Postings(F, mine, a)
    BY <1>1 DEF Postings
  <1> QED  BY <1>2, Zenon DEF BookValue

(* One lemma for each way the books change. *)
LEMMA NothingPosted ==
    ASSUME LedgerInv, Types', BookTypes', UNCHANGED <<settled, recorded, booked, balance>>,
           failed' = failed \/ \E s \in Own : ~Landed(s) /\ failed' = failed \cup {s}
    PROVE  BooksAddUp'
  <1>1. \A a \in Assets : balance[a] = BookValue(booked, settled \cup recorded, failed, a)
    BY BooksNow DEF LedgerInv, IndInv, Types
  <1>2. ASSUME NEW a \in Assets
        PROVE  BookValue(booked, settled \cup recorded, failed', a) =
                 BookValue(booked, settled \cup recorded, failed, a)
    <2>1. CASE failed' = failed
      BY <2>1
    <2>2. ASSUME NEW s \in Own, ~Landed(s), failed' = failed \cup {s}
          PROVE  BookValue(booked, settled \cup recorded, failed', a) =
                   BookValue(booked, settled \cup recorded, failed, a)
      <3>1. s \notin settled \cup recorded
        BY <2>2 DEF LedgerInv, BookedOnChain
      <3> QED  BY <2>2, <3>1, LaterFailureKeeps
    <2> QED  BY <2>1, <2>2
  <1>3. \A a \in Assets : balance'[a] = BookValue(booked', settled' \cup recorded', failed', a)
    BY <1>1, <1>2
  <1>4. booked' \subseteq Transfers
    BY DEF Types
  <1> QED  BY <1>3, <1>4, BooksNext

LEMMA OutcomePosted ==
    ASSUME LedgerInv, Types', BookTypes', UNCHANGED <<failed, booked>>,
           NEW s \in Own \cup Expenses, s \notin settled \cup recorded,
           settled' \cup recorded' = (settled \cup recorded) \cup {s},
           balance' = [a \in Assets |-> balance[a] + Effect(s, a)]
    PROVE  BooksAddUp'
  <1>1. \A a \in Assets : balance[a] = BookValue(booked, settled \cup recorded, failed, a)
    BY BooksNow DEF LedgerInv, IndInv, Types
  <1>2. /\ booked \in SUBSET Transfers /\ failed \in SUBSET Own
        /\ settled \cup recorded \in SUBSET (Own \cup Expenses) /\ IsFiniteSet(settled \cup recorded)
    BY FS_Union DEF LedgerInv, IndInv, Types, BookTypes
  <1>3. \A a \in Assets : BookValue(booked, (settled \cup recorded) \cup {s}, failed, a) =
          BookValue(booked, settled \cup recorded, failed, a) + OwnEffect(failed, s, a)
    BY <1>2, OutcomeAdds
  <1>4. \A a \in Assets : balance'[a] = balance[a] + OwnEffect(failed, s, a)
    BY EffectIs
  <1>5. \A a \in Assets : balance'[a] = BookValue(booked', settled' \cup recorded', failed', a)
    BY <1>1, <1>3, <1>4
  <1>6. booked' \subseteq Transfers
    BY DEF Types
  <1> QED  BY <1>5, <1>6, BooksNext

LEMMA DepositPosted ==
    ASSUME LedgerInv, Types', BookTypes', UNCHANGED <<failed, settled, recorded>>,
           NEW t \in Transfers, In[t] \in Arrivals, Ingest(t)
    PROVE  BooksAddUp'
  <1>1. \A a \in Assets : balance[a] = BookValue(booked, settled \cup recorded, failed, a)
    BY BooksNow DEF LedgerInv, IndInv, Types
  <1>2. /\ booked \in SUBSET Transfers /\ failed \in SUBSET Own
        /\ settled \cup recorded \in SUBSET (Own \cup Expenses) /\ IsFiniteSet(settled \cup recorded)
        /\ balance \in [Assets -> Int]
    BY FS_Union DEF LedgerInv, IndInv, Types, BookTypes
  <1>3. \A a \in Assets : balance'[a] = BookValue(booked', settled' \cup recorded', failed', a)
    <2>1. CASE t \in booked
      <3>1. booked' = booked /\ balance' = balance
        BY <2>1 DEF Ingest
      <3> QED  BY <1>1, <3>1
    <2>2. CASE t \notin booked
      <3>1. ASSUME NEW a \in Assets
            PROVE  BookValue(booked \cup {t}, settled \cup recorded, failed, a) =
              BookValue(booked, settled \cup recorded, failed, a) + AmountIn(t, a)
        <4> DEFINE mine == settled \cup recorded
        <4>1. /\ mine \in SUBSET (Own \cup Expenses) /\ IsFiniteSet(mine)
              /\ booked \in SUBSET Transfers /\ failed \in SUBSET Own
          BY <1>2
        <4> HIDE DEF mine
        <4>2. BookValue(booked \cup {t}, mine, failed, a) =
                BookValue(booked, mine, failed, a) + AmountIn(t, a)
          BY <2>2, <4>1, DepositAdds
        <4> QED  BY <4>2 DEF mine
      <3>2. booked' = booked \cup {t} /\ balance' = [balance EXCEPT ![Asset[t]] = @ + Amount[t]]
        BY <2>2 DEF Ingest
      <3>3. \A a \in Assets : balance'[a] = balance[a] + AmountIn(t, a)
        BY <1>2, <3>2, IntakeConstants DEF AmountIn
      <3>4. \A a \in Assets : balance'[a] = BookValue(booked \cup {t}, settled \cup recorded, failed, a)
        BY <1>1, <3>1, <3>3
      <3>5. booked' = booked \cup {t} /\ settled' \cup recorded' = settled \cup recorded /\ failed' = failed
        BY <3>2
      <3> QED  BY <3>4, <3>5, Zenon
    <2> QED  BY <2>1, <2>2
  <1>4. booked' \subseteq Transfers
    BY DEF Types
  <1> QED  BY <1>3, <1>4, BooksNext

(* Steps that post nothing. *)
LEMMA QuietStep ==
    ASSUME LedgerInv, IndInv', UNCHANGED <<chain, failed, settled, recorded, booked, balance>>,
           attempted' = attempted \/ \E s \in Own : attempted' = attempted \cup {s},
           \/ sample' = sample
           \/ \E w \in Workers, k \in 0..Len(chain) : sample' = [sample EXCEPT ![w] = k]
    PROVE  LedgerInv'
  <1>1. IsFiniteSet(attempted')
    BY FS_AddElement DEF LedgerInv, BookTypes
  <1>2. sample' \in [Workers -> Nat] /\ \A w \in Workers : sample'[w] <= Len(chain')
    <2>1. Len(chain) \in Nat /\ sample \in [Workers -> Nat] /\ \A w \in Workers : sample[w] <= Len(chain)
      BY DEF LedgerInv, BookTypes, IndInv, Types
    <2>2. CASE sample' = sample
      BY <2>1, <2>2
    <2>3. ASSUME NEW w \in Workers, NEW k \in 0..Len(chain), sample' = [sample EXCEPT ![w] = k]
          PROVE  sample' \in [Workers -> Nat] /\ \A v \in Workers : sample'[v] <= Len(chain)
      <3>1. k \in Nat /\ k <= Len(chain)
        BY <2>1
      <3> QED  BY <2>1, <2>3, <3>1
    <2> QED  BY <2>2, <2>3
  <1>3. BookTypes'
    BY <1>1, <1>2 DEF LedgerInv, BookTypes
  <1>4. BookedOnChain'
    BY DEF LedgerInv, BookedOnChain, Landed
  <1>5. Types'
    BY DEF IndInv
  <1>6. BooksAddUp'
    BY <1>3, <1>5, NothingPosted
  <1> QED  BY <1>3, <1>4, <1>6 DEF LedgerInv

LEMMA LandKeepsBooks ==
    ASSUME LedgerInv, IndInv', NEW s \in Signatures, Land(s)
    PROVE  LedgerInv'
  <1>1. Types /\ AttemptedFirst /\ Types'
    BY DEF LedgerInv, IndInv
  <1>2. /\ Len(chain) \in Nat /\ Len(chain') = Len(chain) + 1
        /\ DOMAIN chain = 1..Len(chain) /\ DOMAIN chain' = 1..(Len(chain) + 1)
        /\ \A p \in DOMAIN chain : p \in DOMAIN chain' /\ chain'[p] = chain[p]
        /\ chain'[Len(chain) + 1] = s
    <2>1. chain \in Seq(Signatures) /\ chain' = Append(chain, s)
      BY <1>1 DEF Land, Types
    <2> QED  BY <2>1, <1>1, LandingKeeps
  <1>3. /\ UNCHANGED <<attempted, settled, recorded, booked, balance, sample>>
        /\ ~Landed(s)
        /\ failed' = failed \/ (s \in Own /\ failed' = failed \cup {s})
    BY DEF Land, bookVars, workerVars
  <1>4. BookTypes'
    BY <1>2, <1>3 DEF LedgerInv, BookTypes
  <1>5. BookedOnChain'
    <2>1. \A x : Landed(x) => Landed(x)'
      BY <1>2 DEF Landed
    <2>2. (\A p, q \in DOMAIN chain : chain[p] = chain[q] => p = q)'
      <3>1. \A p \in DOMAIN chain' : p \in DOMAIN chain \/ p = Len(chain) + 1
        BY <1>2
      <3>2. \A p \in DOMAIN chain : chain[p] # s
        BY <1>3 DEF Landed
      <3>3. \A p, q \in DOMAIN chain : chain[p] = chain[q] => p = q
        BY DEF LedgerInv, BookedOnChain
      <3> QED  BY <1>2, <3>1, <3>2, <3>3
    <2> QED  BY <1>3, <2>1, <2>2 DEF LedgerInv, BookedOnChain
  <1>6. BooksAddUp'
    BY <1>1, <1>3, <1>4, NothingPosted
  <1> QED  BY <1>4, <1>5, <1>6 DEF LedgerInv

LEMMA OutcomeKeepsBooks ==
    ASSUME LedgerInv, IndInv',
           \/ \E s \in Own : Settle(s)
           \/ \E s \in Expenses : RecordExpense(s)
    PROVE  LedgerInv'
  <1>1. ASSUME NEW s \in Own \cup Expenses, s \notin settled \cup recorded, Landed(s),
               \/ settled' = settled \cup {s} /\ s \in Own /\ recorded' = recorded
               \/ recorded' = recorded \cup {s} /\ s \in Expenses /\ settled' = settled,
               balance' = [a \in Assets |-> balance[a] + Effect(s, a)],
               UNCHANGED <<chain, failed, attempted, booked, sample>>
        PROVE  LedgerInv'
    <2>1. settled' \cup recorded' = (settled \cup recorded) \cup {s}
      BY <1>1
    <2>2. IsFiniteSet(settled') /\ IsFiniteSet(recorded')
      BY <1>1, FS_AddElement DEF LedgerInv, BookTypes
    <2>3. balance' \in [Assets -> Int]
      <3>1. \A a \in Assets : Effect(s, a) \in Int
        BY EffectIs, OwnEffectIs DEF LedgerInv, BookTypes
      <3> QED  BY <1>1, <3>1 DEF LedgerInv, BookTypes
    <2>4. BookTypes'
      BY <1>1, <2>2, <2>3 DEF LedgerInv, BookTypes
    <2>5. BookedOnChain'
      BY <1>1, <2>1 DEF LedgerInv, BookedOnChain, Landed
    <2>6. BooksAddUp'
      BY <1>1, <2>1, <2>4, OutcomePosted DEF IndInv
    <2> QED  BY <2>4, <2>5, <2>6 DEF LedgerInv
  <1>2. ASSUME NEW s \in Own, Settle(s) PROVE LedgerInv'
    <2>1. s \notin settled \cup recorded
      BY <1>2, IntakeConstants DEF Settle, LedgerInv, BookTypes
    <2> QED  BY <1>1, <1>2, <2>1 DEF Settle, chainVars, workerVars
  <1>3. ASSUME NEW s \in Expenses, RecordExpense(s) PROVE LedgerInv'
    <2>1. s \notin settled \cup recorded
      BY <1>3, IntakeConstants DEF RecordExpense, LedgerInv, BookTypes
    <2> QED  BY <1>1, <1>3, <2>1 DEF RecordExpense, chainVars, workerVars
  <1> QED  BY <1>2, <1>3

LEMMA DepositKeepsBooks ==
    ASSUME LedgerInv, IndInv', NEW t \in Transfers, Ingest(t), Landed(In[t]),
           UNCHANGED <<chain, failed, attempted, settled, recorded, sample>>
    PROVE  LedgerInv'
  <1>1. In[t] \in Arrivals /\ booked' = booked \cup {t}
    BY DEF Ingest, IndInv, NoOutputBooked
  <1>2. BookTypes'
    <2>1. balance' \in [Assets -> Int]
      BY IntakeConstants DEF Ingest, LedgerInv, BookTypes, Asset, Assets
    <2> QED  BY <2>1 DEF LedgerInv, BookTypes
  <1>3. BookedOnChain'
    BY <1>1 DEF LedgerInv, BookedOnChain, Landed
  <1>4. BooksAddUp'
    BY <1>1, <1>2, DepositPosted DEF IndInv
  <1> QED  BY <1>2, <1>3, <1>4 DEF LedgerInv

LEMMA LedgerStarts == ASSUME Init PROVE LedgerInv
  <1>1. IndInv
    BY InitHolds
  <1>2. BookTypes
    BY FS_EmptySet, IntakeConstants DEF Init, BookTypes
  <1>3. BookedOnChain
    BY DEF Init, BookedOnChain
  <1>4. BooksAddUp
    <2>1. ASSUME NEW a \in Assets PROVE balance[a] = BookValue(booked, settled \cup recorded, failed, a)
      <3>1. Deposits({}, a) = {} /\ settled \cup recorded = {} /\ booked = {} /\ balance[a] = Opening[a]
        BY DEF Init, Deposits
      <3>2. /\ SumFunctionOnSet(Amount, Deposits({}, a)) = 0
            /\ SumFunctionOnSet(Postings(failed, {}, a), {}) = 0
        BY <3>1, SumEmpty
      <3>3. Opening[a] \in Nat
        BY IntakeConstants
      <3>4. BookValue({}, {}, failed, a) = Opening[a]
        BY <3>2, <3>3 DEF BookValue
      <3> QED  BY <3>1, <3>4
    <2> QED  BY <1>1, <1>2, <2>1, BooksNow DEF IndInv, Types
  <1> QED  BY <1>1, <1>2, <1>3, <1>4 DEF LedgerInv

LEMMA LedgerHolds == ASSUME LedgerInv, [Next]_vars PROVE LedgerInv'
  <1>1. IndInv'
    BY NextHolds DEF LedgerInv
  <1>2. CASE UNCHANGED vars
    BY <1>1, <1>2, QuietStep DEF vars, chainVars, bookVars, workerVars
  <1>3. ASSUME NEW s \in Own, Attempt(s) PROVE LedgerInv'
    BY <1>1, <1>3, QuietStep DEF Attempt, bookVars, workerVars
  <1>4. ASSUME NEW s \in Own, Settle(s) PROVE LedgerInv'
    BY <1>1, <1>4, OutcomeKeepsBooks
  <1>5. ASSUME NEW s \in Signatures, Land(s) PROVE LedgerInv'
    BY <1>1, <1>5, LandKeepsBooks
  <1>6. ASSUME NEW s \in Expenses, RecordExpense(s) PROVE LedgerInv'
    BY <1>1, <1>6, OutcomeKeepsBooks
  <1>7. ASSUME NEW t \in Transfers, RecognizeCapital(t) PROVE LedgerInv'
    BY <1>1, <1>7, DepositKeepsBooks DEF RecognizeCapital, chainVars, workerVars
  <1>8. CASE RequestReconciliation
    BY <1>1, <1>8, QuietStep DEF RequestReconciliation, chainVars, bookVars, workerVars
  <1>9. ASSUME NEW w \in Workers, NEW p \in todo[w], NEW t \in Transfers, IngestListed(w, p, t)
        PROVE  LedgerInv'
    <2>1. Landed(In[t])
      BY <1>9 DEF IngestListed, ToBook, Landed, LedgerInv, IndInv, Types
    <2> QED  BY <1>1, <1>9, <2>1, DepositKeepsBooks DEF IngestListed, chainVars
  <1>10. ASSUME NEW w \in Workers,
                \/ \E h \in Accounts : List(w, h)
                \/ \E p \in todo[w] : Advance(w, p)
                \/ EndHistory(w) \/ LeaveTokens(w) \/ NothingRequested(w)
         PROVE  LedgerInv'
    <2>1. UNCHANGED <<chain, failed, attempted, settled, recorded, booked, balance, sample>>
      BY <1>10 DEF List, Advance, EndHistory, LeaveTokens, NothingRequested, chainVars, bookVars
    <2> QED  BY <1>1, <2>1, QuietStep
  <1>11. ASSUME NEW w \in Workers,
                \/ \E k \in 0..Len(chain) : ReadBalances(w, k)
                \/ ReconcileStale(w) \/ Reconcile(w) \/ Answer(w) \/ Abandon(w)
         PROVE  LedgerInv'
    <2>1. UNCHANGED <<chain, failed, attempted, settled, recorded, booked, balance>>
      BY <1>11 DEF ReadBalances, ReconcileStale, Reconcile, Answer, Abandon, chainVars, bookVars
    <2>2. \/ sample' = sample
          \/ \E k \in 0..Len(chain) : sample' = [sample EXCEPT ![w] = k]
      <3>1. Len(chain) \in Nat
        BY DEF LedgerInv, IndInv, Types
      <3>2. 0 \in 0..Len(chain)
        BY <3>1
      <3> QED  BY <1>11, <3>2 DEF ReadBalances, ReconcileStale, Reconcile, Answer, Abandon
    <2> QED  BY <1>1, <2>1, <2>2, QuietStep
  <1> QED
    BY <1>2, <1>3, <1>4, <1>5, <1>6, <1>7, <1>8, <1>9, <1>10, <1>11
       DEF Next, Environment, Proceed, Accounts

-----------------------------------------------------------------------------
(* Reconciliation *)

(* The transactions a sample at slot k has seen, and what each movement of an asset adds. *)
Seen(k) == {chain[p] : p \in 1..k}
EffectOn(a) == [s \in Signatures |-> Effect(s, a)]

(* Incidents come from a reconciliation only. *)
IncidentTypes == incidents \in [Workers -> SUBSET ({"deficit", "surplus"} \X Assets)]

LEMMA ReportedOnly ==
    ASSUME IncidentTypes, [Next]_vars
    PROVE  /\ IncidentTypes'
           /\ \A w \in Workers : incidents'[w] \subseteq incidents[w] \/ Reconcile(w)
  <1>1. CASE incidents' = incidents
    BY <1>1 DEF IncidentTypes
  <1>2. ASSUME NEW v \in Workers, incidents' = [incidents EXCEPT ![v] = {}]
        PROVE  IncidentTypes' /\ \A w \in Workers : incidents'[w] \subseteq incidents[w]
    BY <1>2 DEF IncidentTypes
  <1>3. ASSUME NEW v \in Workers, Reconcile(v)
        PROVE  IncidentTypes' /\ \A w \in Workers : incidents'[w] \subseteq incidents[w] \/ w = v
    <2>1. incidents' = [incidents EXCEPT ![v] = Incidents(sample[v])]
      BY <1>3 DEF Reconcile
    <2>2. Incidents(sample[v]) \subseteq {"deficit", "surplus"} \X Assets
      BY DEF Incidents
    <2> QED  BY <2>1, <2>2 DEF IncidentTypes
  <1> QED
    BY <1>1, <1>2, <1>3 DEF Next, Environment, Proceed, Attempt, Land, Settle, RecordExpense,
       RecognizeCapital, RequestReconciliation, List, Advance, IngestListed, EndHistory,
       LeaveTokens, NothingRequested, ReadBalances, ReconcileStale, Answer, Abandon, vars, workerVars

(* Deposits the sample has seen and the books have not, and those of the books that lie in *)
(* token accounts the sample leaves out.                                                   *)
Sighted(k, a) == {t \in Transfers : In[t] \in Seen(k) \cap Arrivals /\ To[t] \in Sampled /\ Asset[t] = a}
NewDeposits(k, a) == Sighted(k, a) \ booked
UnseenDeposits(a) == {t \in Deposits(booked, a) : To[t] \notin Sampled}

LEMMA EffectInt ==
    ASSUME LedgerInv, NEW a \in Assets, NEW s \in Signatures
    PROVE  /\ Effect(s, a) \in Int
           /\ s \in Arrivals => Effect(s, a) = Received(s, a)
  <1>1. CASE s \in Arrivals
    <2>1. s \notin failed
      BY <1>1, IntakeConstants DEF LedgerInv, BookTypes
    <2>2. Effect(s, a) = Received(s, a)
      BY <1>1, <2>1 DEF Effect
    <2>3. Received(s, a) \in Nat
      BY ReceivedIs
    <2> QED  BY <2>2, <2>3
  <1>2. CASE s \notin Arrivals
    BY <1>2, EffectIs, OwnEffectIs DEF LedgerInv, BookTypes, Signatures
  <1> QED  BY <1>1, <1>2

(* What the chain reports is the sum of the effects of the transactions seen. *)
LEMMA ActualIs ==
    ASSUME LedgerInv, NEW k \in 0..Len(chain), NEW a \in Assets
    PROVE  /\ Seen(k) \subseteq Signatures /\ IsFiniteSet(Seen(k))
           /\ \A s \in Seen(k) : Landed(s)
           /\ \A s \in Signatures : EffectOn(a)[s] = Effect(s, a) /\ EffectOn(a)[s] \in Int
           /\ Actual(k, a) = Opening[a] + SumFunctionOnSet(EffectOn(a), Seen(k))
  <1> DEFINE S == 1..k
             f == [p \in S |-> Effect(chain[p], a)]
             g == EffectOn(a)
  <1>1. /\ Len(chain) \in Nat /\ k \in Nat /\ DOMAIN chain = 1..Len(chain) /\ S \subseteq DOMAIN chain
        /\ \A p \in S : chain[p] \in Signatures
    BY DEF LedgerInv, IndInv, Types
  <1>2. IsFiniteSet(S)
    BY <1>1, FS_Interval
  <1>3. Seen(k) \subseteq Signatures /\ \A s \in Seen(k) : Landed(s)
    BY <1>1 DEF Seen, Landed
  <1>4. IsFiniteSet(Seen(k))
    <2> DEFINE I == {chain[p] : p \in S}
               c == [p \in S |-> chain[p]]
    <2>1. c \in Surjection(S, I)
      BY DEF Surjection
    <2> HIDE DEF c, I, S
    <2>2. IsFiniteSet(I)
      BY <1>2, <2>1, FS_Surjection
    <2> QED  BY <2>2 DEF Seen, I, S
  <1>5. \A s \in Signatures : g[s] = Effect(s, a) /\ g[s] \in Int
    BY EffectInt DEF EffectOn
  <1>6. \A p, q \in S : chain[p] = chain[q] => p = q
    BY <1>1 DEF LedgerInv, BookedOnChain
  <1>7. \A p \in S : g[chain[p]] \in Int /\ f[p] = g[chain[p]]
    BY <1>1, <1>5
  <1>8. DOMAIN f = S
    OBVIOUS
  <1>9. Actual(k, a) = Opening[a] + SumFunction(f)
    BY DEF Actual
  <1> HIDE DEF f, g, S
  <1>10. SumFunction(f) = SumFunctionOnSet(f, S)
    BY <1>8, Zenon DEF SumFunction
  <1>11. SumFunctionOnSet(f, S) = SumFunctionOnSet(g, {chain[p] : p \in S})
    BY <1>2, <1>6, <1>7, SumRename
  <1>12. {chain[p] : p \in S} = Seen(k)
    BY DEF Seen, S
  <1>13. Actual(k, a) = Opening[a] + SumFunctionOnSet(g, Seen(k))
    BY <1>9, <1>10, <1>11, <1>12
  <1> USE DEF g
  <1> QED  BY <1>3, <1>4, <1>5, <1>13

(* A sample that is not stale has seen everything in the books. *)
LEMMA SeenAllBooked ==
    ASSUME LedgerInv, NEW k \in 0..Len(chain), ~Stale(k)
    PROVE  /\ settled \cup recorded \subseteq Seen(k)
           /\ \A t \in booked : In[t] \in Seen(k)
  <1>1. Len(chain) \in Nat /\ k \in Nat /\ DOMAIN chain = 1..Len(chain)
    BY DEF LedgerInv, IndInv, Types
  <1>2. ASSUME NEW p \in DOMAIN chain, p \in BookedSlots PROVE chain[p] \in Seen(k)
    <2>1. p \in 1..k
      BY <1>1, <1>2 DEF Stale
    <2> QED  BY <2>1 DEF Seen
  <1>3. ASSUME NEW s, Landed(s), s \in settled \cup recorded \/ \E t \in booked : In[t] = s
        PROVE  s \in Seen(k)
    <2>1. PICK p \in DOMAIN chain : chain[p] = s
      BY <1>3 DEF Landed
    <2>2. p \in BookedSlots
      BY <1>3, <2>1 DEF BookedSlots
    <2> QED  BY <1>2, <2>1, <2>2
  <1> QED  BY <1>3 DEF LedgerInv, BookedOnChain

(* What the effects of the arrivals seen add up to: the deposits of the books in sampled *)
(* accounts, and new ones.                                                               *)
LEMMA ArrivalsAddUp ==
    ASSUME LedgerInv, NEW k \in 0..Len(chain), ~Stale(k), NEW a \in Assets
    PROVE  /\ NewDeposits(k, a) \in SUBSET Transfers /\ UnseenDeposits(a) \in SUBSET Transfers
           /\ SumFunctionOnSet(Amount, NewDeposits(k, a)) \in Nat
           /\ SumFunctionOnSet(Amount, UnseenDeposits(a)) \in Nat
           /\ SumFunctionOnSet(EffectOn(a), Seen(k) \cap Arrivals)
                 + SumFunctionOnSet(Amount, UnseenDeposits(a)) =
                 SumFunctionOnSet(Amount, Deposits(booked, a)) + SumFunctionOnSet(Amount, NewDeposits(k, a))
  <1> DEFINE A == {t \in Transfers : To[t] \in Sampled /\ Asset[t] = a}
             S == Seen(k) \cap Arrivals
             T == {t \in A : In[t] \in S}
             D == Deposits(booked, a)
             U == UnseenDeposits(a)
             N == NewDeposits(k, a)
             g == EffectOn(a)
  <1>1. /\ A \in SUBSET Transfers /\ T \in SUBSET Transfers /\ N \in SUBSET Transfers
        /\ D \in SUBSET Transfers /\ U \in SUBSET Transfers
    BY DEF NewDeposits, Sighted, UnseenDeposits, Deposits
  <1>2. /\ IsFiniteSet(A) /\ \A t \in A : Amount[t] \in Int
        /\ IsFiniteSet(T) /\ \A t \in T : Amount[t] \in Int
        /\ IsFiniteSet(D) /\ \A t \in D : Amount[t] \in Int
    <2>1. IsFiniteSet(A) /\ IsFiniteSet(T) /\ IsFiniteSet(D)
      BY <1>1, IntakeConstants, FS_Subset
    <2>2. \A t \in Transfers : Amount[t] \in Int
      BY IntakeConstants
    <2> QED  BY <1>1, <2>1, <2>2
  <1>3. IsFiniteSet(S) /\ S \subseteq Signatures
    BY ActualIs, FS_Subset
  <1>4. ASSUME NEW s \in S PROVE g[s] = SumFunctionOnSet(Amount, {t \in A : In[t] = s})
    <2>1. g[s] = Received(s, a)
      BY <1>3, EffectInt DEF EffectOn
    <2>2. Received(s, a) =
            SumFunctionOnSet(Amount, {t \in Transfers : In[t] = s /\ To[t] \in Sampled /\ Asset[t] = a})
      BY ReceivedIs
    <2>3. {t \in Transfers : In[t] = s /\ To[t] \in Sampled /\ Asset[t] = a} = {t \in A : In[t] = s}
      OBVIOUS
    <2> QED  BY <2>1, <2>2, <2>3
  <1>5. D \ U \in SUBSET T /\ T \ (D \ U) = N /\ U \in SUBSET D
    <2>1. \A t \in booked : In[t] \in Seen(k)
      BY SeenAllBooked
    <2> QED  BY <2>1 DEF Deposits, NewDeposits, Sighted, UnseenDeposits
  <1>6. SumFunctionOnSet(Amount, N) \in Nat /\ SumFunctionOnSet(Amount, U) \in Nat
    BY <1>1, AmountsAddUp
  <1>7. SumFunctionOnSet(g, S) = SumFunctionOnSet(Amount, {t \in A : In[t] \in S})
    <2> DEFINE group == [s \in S |-> {t \in A : In[t] = s}]
    <2>1. /\ \A s \in S : g[s] = SumFunctionOnSet(Amount, group[s])
          /\ \A s \in S : group[s] \in SUBSET A /\ \A t \in A : t \in group[s] <=> In[t] = s
      BY <1>4
    <2>2. T = {t \in A : In[t] \in S} /\ T \in SUBSET A /\ \A t \in A : t \in T <=> In[t] \in S
      OBVIOUS
    <2> HIDE DEF A, S, T, g, group
    <2>3. SumFunctionOnSet(g, S) = SumFunctionOnSet(Amount, T)
      <3>1. IsFiniteSet(A) /\ IsFiniteSet(S) /\ \A t \in A : Amount[t] \in Int
        BY <1>2, <1>3
      <3>2. T \in SUBSET A /\ \A t \in A : t \in T <=> In[t] \in S
        BY <2>2
      <3>3. Grouped(Amount, A, In, S, group, g, T)
        BY <2>1, <3>1, <3>2 DEF Grouped
      <3> HIDE DEF D, N, U
      <3>4. Grouped(Amount, A, In, S, group, g, T) => SumFunctionOnSet(g, S) = SumFunctionOnSet(Amount, T)
        BY SumOfGroups
      <3> QED  BY <3>3, <3>4
    <2> QED  BY <2>2, <2>3
  <1>8. SumFunctionOnSet(Amount, T) = SumFunctionOnSet(Amount, D \ U) + SumFunctionOnSet(Amount, T \ (D \ U))
    <2> HIDE DEF T, D, U
    <2> QED  BY <1>2, <1>5, SumSplit
  <1>9. SumFunctionOnSet(Amount, D) = SumFunctionOnSet(Amount, U) + SumFunctionOnSet(Amount, D \ U)
    <2> HIDE DEF D, U
    <2> QED  BY <1>2, <1>5, SumSplit
  <1>10. SumFunctionOnSet(Amount, D \ U) \in Nat
    BY <1>1, AmountsAddUp
  <1>11. SumFunctionOnSet(g, S) + SumFunctionOnSet(Amount, U)
           = SumFunctionOnSet(Amount, D) + SumFunctionOnSet(Amount, N)
    <2> DEFINE seen == SumFunctionOnSet(g, S)
               old == SumFunctionOnSet(Amount, D)
               new == SumFunctionOnSet(Amount, N)
               unseen == SumFunctionOnSet(Amount, U)
               known == SumFunctionOnSet(Amount, D \ U)
    <2>1. /\ seen = known + new /\ old = unseen + known
          /\ known \in Nat /\ unseen \in Nat /\ new \in Nat
      BY <1>5, <1>6, <1>7, <1>8, <1>9, <1>10
    <2> HIDE DEF seen, old, new, unseen, known
    <2>2. seen + unseen = old + new
      BY <2>1
    <2> QED  BY <2>2 DEF seen, old, new, unseen
  <1> QED  BY <1>1, <1>6, <1>11

(* The difference a reconciliation finds: deposits, outcomes and expenses that are on chain *)
(* and not in the books, less the deposits of the books it does not look at.                *)
LEMMA DeltaIs ==
    ASSUME LedgerInv, NEW k \in 0..Len(chain), ~Stale(k), NEW a \in Assets
    PROVE  LET own == Seen(k) \cap (Own \ settled)
               hand == Seen(k) \cap (Expenses \ recorded)
           IN  /\ IsFiniteSet(own) /\ IsFiniteSet(hand)
               /\ SumFunctionOnSet(EffectOn(a), own) \in Int
               /\ SumFunctionOnSet(EffectOn(a), hand) \in Int
               /\ Delta(k, a) = SumFunctionOnSet(Amount, NewDeposits(k, a))
                                  - SumFunctionOnSet(Amount, UnseenDeposits(a))
                                  + SumFunctionOnSet(EffectOn(a), own)
                                  + SumFunctionOnSet(EffectOn(a), hand)
  <1> DEFINE L == Seen(k)
             B == settled \cup recorded
             R == L \ B
             S == L \cap Arrivals
             Q == R \ S
             own == L \cap (Own \ settled)
             hand == L \cap (Expenses \ recorded)
             g == EffectOn(a)
             Total(part) == SumFunctionOnSet(g, part)
  <1>1. /\ IsFiniteSet(L) /\ L \subseteq Signatures
        /\ \A s \in L : g[s] \in Int
        /\ Actual(k, a) = Opening[a] + Total(L)
    BY ActualIs
  <1>2. B \in SUBSET L
    BY SeenAllBooked
  <1>3. B \subseteq Own \cup Expenses /\ settled \subseteq Own /\ recorded \subseteq Expenses
    BY DEF LedgerInv, BookTypes
  <1>4. /\ S \in SUBSET R /\ own \in SUBSET Q /\ Q \ own = hand
        /\ R \in SUBSET L /\ Q \in SUBSET L /\ own \in SUBSET L /\ hand \in SUBSET L /\ S \in SUBSET L
    BY <1>1, <1>3, IntakeConstants DEF Signatures
  <1>5. ASSUME NEW part \in SUBSET L
        PROVE  IsFiniteSet(part) /\ (\A s \in part : g[s] \in Int) /\ Total(part) \in Int
    <2>1. IsFiniteSet(part) /\ (\A s \in part : g[s] \in Int)
      BY <1>1, <1>5, FS_Subset
    <2> HIDE DEF g
    <2> QED  BY <2>1, SumInt
  <1>6. ASSUME NEW whole \in SUBSET L, NEW part \in SUBSET whole
        PROVE  Total(whole) = Total(part) + Total(whole \ part)
    <2>1. IsFiniteSet(whole) /\ (\A s \in whole : g[s] \in Int)
      BY <1>5
    <2> HIDE DEF g
    <2> QED  BY <2>1, SumSplit
  <1>7. balance[a] = Opening[a] + SumFunctionOnSet(Amount, Deposits(booked, a)) + Total(B)
    <2>1. balance[a] = BookValue(booked, B, failed, a)
      BY BooksNow DEF LedgerInv, IndInv, Types
    <2>2. SumFunctionOnSet(Postings(failed, B, a), B) = Total(B)
      <3> DEFINE h == Postings(failed, B, a)
      <3>1. \A s \in B : h[s] = g[s]
        BY <1>3, EffectIs DEF Postings, EffectOn, Signatures
      <3>2. IsFiniteSet(B)
        BY <1>2, <1>5
      <3> HIDE DEF h, g, B
      <3>3. SumFunctionOnSet(h, B) = SumFunctionOnSet(g, B)
        BY <3>1, <3>2, SumSame
      <3> QED  BY <3>3 DEF h
    <2> HIDE DEF B, g
    <2> QED  BY <2>1, <2>2 DEF BookValue
  <1>8. /\ SumFunctionOnSet(Amount, NewDeposits(k, a)) \in Nat
        /\ SumFunctionOnSet(Amount, UnseenDeposits(a)) \in Nat
        /\ Total(S) + SumFunctionOnSet(Amount, UnseenDeposits(a))
             = SumFunctionOnSet(Amount, Deposits(booked, a)) + SumFunctionOnSet(Amount, NewDeposits(k, a))
    BY ArrivalsAddUp
  <1>9. SumFunctionOnSet(Amount, Deposits(booked, a)) \in Nat /\ Opening[a] \in Int
    BY DepositsAddUp, IntakeConstants
  <1>10. Delta(k, a) = Actual(k, a) - balance[a]
    BY DEF Delta
  <1> HIDE DEF L, B, R, S, Q, own, hand, Total, g
  <1>11. /\ Total(L) = Total(B) + Total(R) /\ Total(R) = Total(S) + Total(Q)
         /\ Total(Q) = Total(own) + Total(hand)
    <2>1. Total(L) = Total(B) + Total(L \ B)
      BY <1>2, <1>6
    <2>2. Total(R) = Total(S) + Total(R \ S)
      BY <1>4, <1>6
    <2>3. Total(Q) = Total(own) + Total(Q \ own)
      BY <1>4, <1>6
    <2> QED  BY <1>4, <2>1, <2>2, <2>3 DEF R, Q
  <1>12. /\ Total(B) \in Int /\ Total(R) \in Int /\ Total(S) \in Int /\ Total(Q) \in Int
         /\ Total(own) \in Int /\ Total(hand) \in Int /\ IsFiniteSet(own) /\ IsFiniteSet(hand)
    BY <1>2, <1>4, <1>5
  <1>13. Delta(k, a) = SumFunctionOnSet(Amount, NewDeposits(k, a))
                         - SumFunctionOnSet(Amount, UnseenDeposits(a)) + Total(own) + Total(hand)
    <2> DEFINE old == SumFunctionOnSet(Amount, Deposits(booked, a))
               new == SumFunctionOnSet(Amount, NewDeposits(k, a))
               unseen == SumFunctionOnSet(Amount, UnseenDeposits(a))
    <2>1. /\ Actual(k, a) = Opening[a] + Total(L) /\ balance[a] = Opening[a] + old + Total(B)
          /\ Total(S) + unseen = old + new
          /\ old \in Int /\ new \in Int /\ unseen \in Int /\ Opening[a] \in Int
      BY <1>1, <1>7, <1>8, <1>9
    <2> HIDE DEF old, new, unseen
    <2> DEFINE tL == Total(L)
               tB == Total(B)
               tR == Total(R)
               tS == Total(S)
               tQ == Total(Q)
               tOwn == Total(own)
               tHand == Total(hand)
    <2>2. /\ tL = tB + tR /\ tR = tS + tQ /\ tS + unseen = old + new /\ tQ = tOwn + tHand
          /\ tB \in Int /\ tS \in Int /\ tR \in Int /\ tQ \in Int /\ tOwn \in Int /\ tHand \in Int
      BY <1>11, <1>12, <2>1
    <2>3. Delta(k, a) = (Opening[a] + tL) - (Opening[a] + old + tB)
      BY <1>10, <2>1
    <2> HIDE DEF tL, tB, tR, tS, tQ, tOwn, tHand
    <2> DEFINE op == Opening[a]
               difference == Delta(k, a)
    <2>5. /\ op \in Int /\ old \in Int /\ new \in Int /\ unseen \in Int
          /\ tB \in Int /\ tOwn \in Int /\ tHand \in Int /\ tR \in Int /\ tS \in Int /\ tQ \in Int
          /\ tL = tB + tR /\ tR = tS + tQ /\ tS + unseen = old + new /\ tQ = tOwn + tHand
          /\ difference = (op + tL) - (op + old + tB)
      BY <2>1, <2>2, <2>3
    <2> HIDE DEF op, difference
    <2>6. difference = new - unseen + tOwn + tHand
      BY <2>5
    <2>4. Delta(k, a) = new - unseen + Total(own) + Total(hand)
      BY <2>6 DEF tOwn, tHand, difference
    <2> QED  BY <2>4 DEF new, unseen
  <1> USE DEF own, hand, Total, g, L
  <1> QED  BY <1>12, <1>13

(* What an unbooked transaction of the treasury takes stays within its bound. *)
LEMMA WithinBound ==
    ASSUME LedgerInv, NEW a \in Assets, NEW own \in SUBSET InFlight
    PROVE  /\ DebitBound(a) \in Nat
           /\ 0 <= SumFunctionOnSet(EffectOn(a), own) + DebitBound(a)
  <1> DEFINE most == [s \in InFlight |-> MaxDebit[s][a]]
             spare == [s \in InFlight |-> EffectOn(a)[s] + most[s]]
             g == EffectOn(a)
  <1>1. IsFiniteSet(InFlight) /\ InFlight \subseteq Own
    BY FS_Difference DEF LedgerInv, IndInv, Types, BookTypes, InFlight
  <1>2. ASSUME NEW s \in InFlight
        PROVE  g[s] \in Int /\ most[s] \in Nat /\ spare[s] \in Nat /\ spare[s] = g[s] + most[s]
    <2>1. s \in Own /\ g[s] = Effect(s, a) /\ most[s] = MaxDebit[s][a]
      BY <1>1 DEF EffectOn, Signatures
    <2>2. /\ MaxDebit[s] \in [Assets -> Nat] /\ Debit[s] \in [Assets -> Nat] /\ FailFee[s] \in Nat
          /\ FailFee[s] <= MaxDebit[s]["native"] /\ Debit[s][a] <= MaxDebit[s][a]
      BY <2>1, IntakeConstants
    <2>3. MaxDebit[s][a] \in Nat /\ Debit[s][a] \in Nat /\ Received(s, a) \in Nat
      BY <2>2, ReceivedIs
    <2>4. Effect(s, a) = OwnEffect(failed, s, a)
      BY <2>1, EffectIs
    <2>5. Effect(s, a) \in Int /\ Effect(s, a) + MaxDebit[s][a] \in Nat
      <3>1. CASE s \in failed
        BY <2>2, <2>3, <2>4, <3>1 DEF OwnEffect
      <3>2. CASE s \notin failed
        BY <2>2, <2>3, <2>4, <3>2 DEF OwnEffect
      <3> QED  BY <3>1, <3>2
    <2> QED  BY <2>1, <2>3, <2>5
  <1>3. DOMAIN most = InFlight /\ DebitBound(a) = SumFunction(most)
    BY DEF DebitBound
  <1>4. IsFiniteSet(own) /\ own \subseteq InFlight
    BY <1>1, FS_Subset
  <1> HIDE DEF most, spare, g
  <1>5. SumFunction(most) = SumFunctionOnSet(most, InFlight)
    BY <1>3, Zenon DEF SumFunction
  <1>6. SumFunctionOnSet(most, InFlight) =
            SumFunctionOnSet(most, own) + SumFunctionOnSet(most, InFlight \ own)
    <2>1. \A s \in InFlight : most[s] \in Int
      BY <1>2
    <2> QED  BY <1>1, <2>1, SumSplit
  <1>7. SumFunctionOnSet(most, InFlight \ own) \in Nat /\ SumFunctionOnSet(most, own) \in Nat
    <2>1. IsFiniteSet(InFlight \ own)
      BY <1>1, FS_Difference
    <2> QED  BY <1>2, <1>4, <2>1, SumNat
  <1>8. SumFunctionOnSet(spare, own) = SumFunctionOnSet(g, own) + SumFunctionOnSet(most, own)
    <2>1. \A s \in own : g[s] \in Int /\ most[s] \in Int /\ spare[s] = g[s] + most[s]
      BY <1>2, <1>4
    <2> QED  BY <1>4, <2>1, SumPlus
  <1>9. SumFunctionOnSet(spare, own) \in Nat /\ SumFunctionOnSet(g, own) \in Int
    <2>1. \A s \in own : g[s] \in Int /\ spare[s] \in Nat
      BY <1>2, <1>4
    <2> QED  BY <1>4, <2>1, SumNat, SumInt
  <1>10. /\ DebitBound(a) \in Nat
         /\ 0 <= SumFunctionOnSet(g, own) + DebitBound(a)
    <2> DEFINE all == SumFunctionOnSet(most, InFlight)
               mine == SumFunctionOnSet(most, own)
               rest == SumFunctionOnSet(most, InFlight \ own)
               took == SumFunctionOnSet(g, own)
               kept == SumFunctionOnSet(spare, own)
               bound == DebitBound(a)
    <2>1. /\ bound = all /\ all = mine + rest /\ rest \in Nat /\ mine \in Nat
          /\ kept = took + mine /\ kept \in Nat /\ took \in Int
      BY <1>3, <1>5, <1>6, <1>7, <1>8, <1>9
    <2> HIDE DEF all, mine, rest, took, kept, bound
    <2>2. bound \in Nat /\ 0 <= took + bound
      BY <2>1
    <2> QED  BY <2>2 DEF took, bound
  <1> QED  BY <1>10 DEF g

(* What was seen of the treasury's own and is not booked is in flight. *)
LEMMA SeenInFlight ==
    ASSUME LedgerInv, NEW k \in 0..Len(chain)
    PROVE  Seen(k) \cap (Own \ settled) \in SUBSET InFlight
  <1>1. \A s \in Seen(k) : Landed(s)
    <2>1. Len(chain) \in Nat /\ DOMAIN chain = 1..Len(chain) /\ 1..k \subseteq DOMAIN chain
      BY DEF LedgerInv, IndInv, Types
    <2> QED  BY <2>1 DEF Seen, Landed
  <1> QED  BY <1>1 DEF InFlight, LedgerInv, IndInv, AttemptedFirst

(* A deficit that no transaction in flight explains is a payment made by hand, or a deposit *)
(* in an account the sample leaves out.                                                     *)
LEMMA DeficitIsReal ==
    ASSUME LedgerInv, NEW k \in 0..Len(chain), ~Stale(k), NEW a \in Assets,
           Delta(k, a) < 0, ~Explained(k, a)
    PROVE  \/ \E s \in Expenses \ recorded : Landed(s) /\ Debit[s][a] > 0
           \/ \E t \in booked : Asset[t] = a /\ To[t] \notin Sampled
  <1> DEFINE own == Seen(k) \cap (Own \ settled)
             hand == Seen(k) \cap (Expenses \ recorded)
             new == SumFunctionOnSet(Amount, NewDeposits(k, a))
             unseen == SumFunctionOnSet(Amount, UnseenDeposits(a))
             took == SumFunctionOnSet(EffectOn(a), own)
             paid == SumFunctionOnSet(EffectOn(a), hand)
             bound == DebitBound(a)
             delta == Delta(k, a)
  <1>1. SUFFICES ASSUME \A s \in Expenses \ recorded : Landed(s) => ~(Debit[s][a] > 0),
                        \A t \in booked : Asset[t] = a => To[t] \in Sampled
                 PROVE  FALSE
    OBVIOUS
  <1>2. /\ IsFiniteSet(own) /\ IsFiniteSet(hand) /\ took \in Int /\ paid \in Int
        /\ delta = new - unseen + took + paid
    BY DeltaIs
  <1>3. new \in Nat /\ unseen = 0
    <2>1. UnseenDeposits(a) = {}
      BY <1>1 DEF UnseenDeposits, Deposits
    <2> QED  BY <2>1, ArrivalsAddUp, SumEmpty
  <1>4. paid \in Nat
    <2>1. ASSUME NEW s \in hand PROVE EffectOn(a)[s] \in Nat
      <3>1. s \in Expenses /\ Landed(s) /\ ~(Debit[s][a] > 0)
        BY <1>1, ActualIs
      <3>2. s \notin failed /\ Debit[s] \in [Assets -> Nat]
        BY <3>1, IntakeConstants DEF LedgerInv, BookTypes
      <3>3. Debit[s][a] = 0
        BY <3>1, <3>2
      <3>4. Effect(s, a) = Received(s, a) - Debit[s][a]
        BY <3>1, <3>2, IntakeConstants DEF Effect
      <3>5. Received(s, a) \in Nat /\ EffectOn(a)[s] = Effect(s, a)
        BY <3>1, ReceivedIs DEF EffectOn, Signatures
      <3> QED  BY <3>3, <3>4, <3>5
    <2> HIDE DEF hand
    <2> QED  BY <1>2, <2>1, SumNat
  <1>5. own \in SUBSET InFlight
    BY SeenInFlight
  <1>6. bound \in Nat /\ 0 <= took + bound
    <2> HIDE DEF own
    <2> QED  BY <1>5, WithinBound
  <1>7. own = {} => took = 0
    BY SumEmpty
  <1>8. delta < 0 /\ (InFlight # {} => ~(delta <= 0 /\ -delta <= bound))
    BY DEF Explained
  <1> HIDE DEF own, hand, new, unseen, took, paid, bound, delta
  <1>9. delta \in Int /\ -delta <= bound /\ took < 0
    BY <1>2, <1>3, <1>4, <1>6, <1>8
  <1>10. InFlight # {}
    BY <1>5, <1>7, <1>9
  <1> QED  BY <1>8, <1>9, <1>10

(* A surplus that no transaction in flight explains is a deposit in a sampled account. *)
LEMMA SurplusIsReal ==
    ASSUME LedgerInv, NEW k \in 0..Len(chain), ~Stale(k), NEW a \in Assets,
           Delta(k, a) > 0, ~Explained(k, a)
    PROVE  \E t \in Transfers \ booked : In[t] \in Arrivals /\ Landed(In[t]) /\ Asset[t] = a /\ To[t] \in Sampled
  <1> DEFINE own == Seen(k) \cap (Own \ settled)
             hand == Seen(k) \cap (Expenses \ recorded)
             new == SumFunctionOnSet(Amount, NewDeposits(k, a))
             unseen == SumFunctionOnSet(Amount, UnseenDeposits(a))
             took == SumFunctionOnSet(EffectOn(a), own)
             paid == SumFunctionOnSet(EffectOn(a), hand)
             delta == Delta(k, a)
  <1>1. SUFFICES ASSUME \A t \in Transfers \ booked : In[t] \in Arrivals /\ Landed(In[t]) =>
                            ~(Asset[t] = a /\ To[t] \in Sampled)
                 PROVE  FALSE
    OBVIOUS
  <1>2. /\ IsFiniteSet(own) /\ IsFiniteSet(hand) /\ took \in Int /\ paid \in Int
        /\ delta = new - unseen + took + paid
    BY DeltaIs
  <1>3. new = 0 /\ unseen \in Nat
    <2>1. NewDeposits(k, a) = {}
      BY <1>1, ActualIs DEF NewDeposits, Sighted
    <2> QED  BY <2>1, SumEmpty, ArrivalsAddUp
  <1>4. paid <= 0
    <2>1. ASSUME NEW s \in hand PROVE EffectOn(a)[s] \in Int /\ EffectOn(a)[s] <= 0
      <3>1. s \in Expenses /\ s \notin failed /\ Debit[s] \in [Assets -> Nat]
        BY IntakeConstants DEF LedgerInv, BookTypes
      <3>2. \A t \in Transfers : In[t] # s
        BY <3>1, IntakeConstants
      <3>3. Received(s, a) = 0
        <4>1. Received(s, a) \in Nat /\ ~(Received(s, a) > 0)
          BY <3>2, ReceivedIs, Zenon
        <4> QED  BY <4>1
      <3>4. Effect(s, a) = Received(s, a) - Debit[s][a] /\ Debit[s][a] \in Nat
        BY <3>1, IntakeConstants DEF Effect
      <3>5. EffectOn(a)[s] = Effect(s, a)
        BY <3>1 DEF EffectOn, Signatures
      <3> QED  BY <3>3, <3>4, <3>5
    <2> HIDE DEF hand
    <2> QED  BY <1>2, <2>1, SumPositive, SumInt
  <1>5. ASSUME took > 0 PROVE InFlight # {} /\ MayCredit(a)
    <2>1. \A s \in own : EffectOn(a)[s] \in Int /\ s \in Own
      BY EffectInt DEF EffectOn, Signatures
    <2>2. PICK s \in own : EffectOn(a)[s] > 0
      <3> HIDE DEF own
      <3> QED  BY <1>2, <1>5, <2>1, SumPositive
    <2>3. s \in InFlight /\ s \in Own /\ EffectOn(a)[s] = Effect(s, a)
      BY SeenInFlight, <2>1 DEF EffectOn, Signatures
    <2>4. Debit[s] \in [Assets -> Nat] /\ FailFee[s] \in Nat /\ Received(s, a) \in Nat
      BY <2>3, IntakeConstants, ReceivedIs
    <2>5. Effect(s, a) = OwnEffect(failed, s, a)
      BY <2>3, EffectIs
    <2>6. Received(s, a) > 0
      <3>1. CASE s \in failed
        BY <2>2, <2>3, <2>4, <2>5, <3>1 DEF OwnEffect
      <3>2. CASE s \notin failed
        <4>1. Debit[s][a] \in Nat /\ Received(s, a) - Debit[s][a] > 0
          BY <2>2, <2>3, <2>4, <2>5, <3>2 DEF OwnEffect
        <4> QED  BY <2>4, <4>1
      <3> QED  BY <3>1, <3>2
    <2>7. \E t \in Transfers : In[t] = s /\ Asset[t] = a
      BY <2>6, ReceivedIs
    <2> QED  BY <2>3, <2>7 DEF MayCredit
  <1>6. delta > 0 /\ (InFlight # {} => ~MayCredit(a))
    BY DEF Explained
  <1> HIDE DEF own, hand, new, unseen, took, paid, delta
  <1>7. took > 0
    BY <1>2, <1>3, <1>4, <1>6
  <1> QED  BY <1>5, <1>6, <1>7

-----------------------------------------------------------------------------
(* The theorems *)

(* The invariant holds in every reachable state. *)
THEOREM Inductive == Spec => []IndInv
  <1>1. Init => IndInv
    BY InitHolds
  <1>2. IndInv /\ [Next]_vars => IndInv'
    BY NextHolds
  <1> QED  BY <1>1, <1>2, PTL DEF Spec

(* Whatever the workers, their crashes and the order of their unfenced writes, no transfer *)
(* lies unbooked behind a cursor (ingestion.ts:8, 18-28, 40-45).                            *)
THEOREM NothingIsSkipped == Spec => []NothingSkipped
  <1>1. IndInv => NothingSkipped
    BY DEF IndInv
  <1> QED  BY Inductive, <1>1, PTL

(* The output of a purchase is never booked as a deposit: the attempt is durable before the *)
(* transaction can land, and token ingestion asks for it (ingestion.ts:41, runner.ts:46-60). *)
THEOREM OutputsAreNoDeposits == Spec => []NoOutputBooked
  <1>1. IndInv => NoOutputBooked
    BY DEF IndInv
  <1> QED  BY Inductive, <1>1, PTL

(* The books hold in every reachable state. *)
THEOREM LedgerFits == Spec => []LedgerInv
  <1>1. Init => LedgerInv
    BY LedgerStarts
  <1>2. LedgerInv /\ [Next]_vars => LedgerInv'
    BY LedgerHolds
  <1> QED  BY <1>1, <1>2, PTL DEF Spec

(* The books are the sum of the deposits, outcomes and expenses they have a row for, each *)
(* counted once (ingestion.ts:41, engine.ts:29, 93).                                      *)
THEOREM BooksBalance == Spec => []BooksAddUp
  <1>1. LedgerInv => BooksAddUp
    BY DEF LedgerInv
  <1> QED  BY LedgerFits, <1>1, PTL

(* What a reconciliation accuses of is there, whatever was booked, landed or failed between *)
(* the reading of the balances and the lock: behind a deficit is an unrecorded payment or a *)
(* deposit the sample does not look at, behind a surplus an unbooked transfer               *)
(* (engine.ts:169-198, main.ts:78-79).                                                      *)
THEOREM IncidentsAreTrue == Spec => IncidentsAreReal
  <1> DEFINE Owed(a) == \/ \E s \in Expenses \ recorded : Landed(s) /\ Debit[s][a] > 0
                        \/ \E t \in booked : Asset[t] = a /\ To[t] \notin Sampled
             Unbooked(a) == \E t \in Transfers \ booked :
                               In[t] \in Arrivals /\ Landed(In[t]) /\ Asset[t] = a /\ To[t] \in Sampled
  <1>1. ASSUME LedgerInv, IncidentTypes, [Next]_vars, NEW w \in Workers, NEW a \in Assets
        PROVE  /\ <<"deficit", a>> \in incidents'[w] \ incidents[w] => Owed(a)
               /\ <<"surplus", a>> \in incidents'[w] \ incidents[w] => Unbooked(a)
    <2>1. ASSUME NEW kind, <<kind, a>> \in incidents'[w] \ incidents[w]
          PROVE  \E k \in 0..Len(chain) : ~Stale(k) /\ <<kind, a>> \in Incidents(k)
      <3>1. Reconcile(w) /\ incidents'[w] = Incidents(sample[w])
        BY <1>1, <2>1, ReportedOnly DEF Reconcile, IncidentTypes
      <3>2. ~Stale(sample[w]) /\ <<kind, a>> \in Incidents(sample[w])
        BY <2>1, <3>1 DEF Reconcile
      <3>3. sample[w] \in 0..Len(chain)
        BY <1>1 DEF LedgerInv, IndInv, Types, BookTypes
      <3> QED  BY <3>2, <3>3
    <2>2. ASSUME NEW kind, NEW k \in 0..Len(chain), ~Stale(k), <<kind, a>> \in Incidents(k)
          PROVE  /\ ~Explained(k, a) /\ Delta(k, a) \in Int
                 /\ Delta(k, a) # 0
                 /\ kind = IF Delta(k, a) < 0 THEN "deficit" ELSE "surplus"
      <3>1. /\ ~Explained(k, a) /\ Delta(k, a) # 0
            /\ kind = IF Delta(k, a) < 0 THEN "deficit" ELSE "surplus"
        BY <2>2 DEF Incidents
      <3>2. Delta(k, a) \in Int
        <4> DEFINE own == SumFunctionOnSet(EffectOn(a), Seen(k) \cap (Own \ settled))
                   hand == SumFunctionOnSet(EffectOn(a), Seen(k) \cap (Expenses \ recorded))
                   new == SumFunctionOnSet(Amount, NewDeposits(k, a))
                   unseen == SumFunctionOnSet(Amount, UnseenDeposits(a))
        <4>1. own \in Int /\ hand \in Int /\ Delta(k, a) = new - unseen + own + hand
          BY <1>1, <2>2, DeltaIs
        <4>2. new \in Nat /\ unseen \in Nat
          BY <1>1, <2>2, ArrivalsAddUp
        <4> HIDE DEF own, hand, new, unseen
        <4> QED  BY <4>1, <4>2
      <3> QED  BY <3>1, <3>2
    <2>3. ASSUME <<"deficit", a>> \in incidents'[w] \ incidents[w]
          PROVE  Owed(a)
      <3>1. PICK k \in 0..Len(chain) : ~Stale(k) /\ <<"deficit", a>> \in Incidents(k)
        BY <2>1, <2>3
      <3>2. ~Explained(k, a) /\ Delta(k, a) < 0
        BY <2>2, <3>1
      <3> QED  BY <1>1, <3>1, <3>2, DeficitIsReal
    <2>4. ASSUME <<"surplus", a>> \in incidents'[w] \ incidents[w]
          PROVE  Unbooked(a)
      <3>1. PICK k \in 0..Len(chain) : ~Stale(k) /\ <<"surplus", a>> \in Incidents(k)
        BY <2>1, <2>4
      <3>2. ~Explained(k, a) /\ Delta(k, a) > 0
        BY <2>2, <3>1
      <3> QED  BY <1>1, <3>1, <3>2, SurplusIsReal
    <2> QED  BY <2>3, <2>4
  <1>2. LedgerInv /\ IncidentTypes /\ [Next]_vars =>
            [\A w \in Workers, a \in Assets :
                /\ <<"deficit", a>> \in incidents'[w] \ incidents[w] => Owed(a)
                /\ <<"surplus", a>> \in incidents'[w] \ incidents[w] => Unbooked(a)]_vars
    BY <1>1
  <1>3. Init => IncidentTypes
    BY DEF Init, IncidentTypes
  <1>4. IncidentTypes /\ [Next]_vars => IncidentTypes'
    BY ReportedOnly
  <1> HIDE DEF Owed, Unbooked
  <1>5. Spec => [][\A w \in Workers, a \in Assets :
                      /\ <<"deficit", a>> \in incidents'[w] \ incidents[w] => Owed(a)
                      /\ <<"surplus", a>> \in incidents'[w] \ incidents[w] => Unbooked(a)]_vars
    BY LedgerFits, <1>2, <1>3, <1>4, PTL DEF Spec
  <1> QED  BY <1>5 DEF IncidentsAreReal, Owed, Unbooked
=============================================================================
