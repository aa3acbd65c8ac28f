-------------------------------- MODULE Intake --------------------------------
(***************************************************************************)
(* What the treasury learns from the chain: packages/integrations/         *)
(* ingestion.ts books the transfers that arrive, and reconcile() of        *)
(* packages/core/engine.ts compares the books with the balances the chain  *)
(* reports.  A worker's loop (apps/worker/main.ts) does one after the      *)
(* other; settlements and the operator change the books in between, and    *)
(* workers may overlap: the history cursor is written without a fence.     *)
(*                                                                         *)
(* Each movement of cash is a transaction, named by its signature.  The    *)
(* finalized history is a sequence, and a position in it serves as slot.   *)
(* The treasury's own account and each token account it owns have their    *)
(* histories and cursors; the books know assets only.  The balances that   *)
(* are reconciled are those of its own account and of one token account    *)
(* of the mint, the canonical one: a deposit into another raises the books *)
(* and not the sample.                                                     *)
(***************************************************************************)
EXTENDS Integers, Sequences, FiniteSets, Functions

CONSTANTS
    Workers,
    Arrivals,       \* transactions of others that pay the treasury
    Own,            \* transactions the treasury signs
    Expenses,       \* payments its owner makes by hand out of sampled accounts
    TokenAccounts,  \* the token accounts of one mint that the treasury owns
    Canonical,      \* its associated token account among them
    Transfers,      \* transfers to the treasury, in any of these transactions
    In,             \* the transaction of a transfer
    To,             \* the account it is for
    Amount,         \* and its amount
    Debit,          \* what one of Own or Expenses takes, by asset
    MaxDebit,       \* what one of Own may take at most
    FailFee,        \* what one of Own takes when it fails
    Opening,        \* balances, on chain and in the books, to begin with
    HistoryBound    \* length of history at which pagination gives up (100,000)

Assets == {"native", "token"}
Accounts == {"native"} \cup TokenAccounts
Sampled == {"native", Canonical}
Signatures == Arrivals \cup Own \cup Expenses
Turns == {"idle", "tokens", "reconcile", "sampled", "reported"}

(* The books have one balance for all accounts of an asset. *)
Asset == [t \in Transfers |-> IF To[t] = "native" THEN "native" ELSE "token"]

(* The treasury takes part in all of these; its own transactions use the canonical token *)
(* account, and a token account's history lists what pays into it.                       *)
Listed(h, s) ==
    \/ h = "native"
    \/ h = Canonical /\ s \in Own
    \/ \E t \in Transfers : In[t] = s /\ To[t] = h

ASSUME IntakeConstants ==
    /\ Arrivals \cap Own = {} /\ Arrivals \cap Expenses = {} /\ Own \cap Expenses = {}
    /\ IsFiniteSet(Transfers)
    /\ In \in [Transfers -> Arrivals \cup Own]
    /\ Canonical \in TokenAccounts /\ TokenAccounts \cap (Turns \cup {"native"}) = {}
    /\ To \in [Transfers -> Accounts]
    /\ \A t \in Transfers : In[t] \in Own => To[t] = Canonical
    /\ Amount \in [Transfers -> Nat \ {0}]
    /\ Debit \in [Own \cup Expenses -> [Assets -> Nat]]
    /\ MaxDebit \in [Own -> [Assets -> Nat]]
    /\ FailFee \in [Own -> Nat]
    /\ \A s \in Own : FailFee[s] <= MaxDebit[s]["native"]
                      /\ \A a \in Assets : Debit[s][a] <= MaxDebit[s][a]
    /\ Opening \in [Assets -> Nat]
    /\ HistoryBound \in Nat \ {0}

VARIABLES
    chain,      \* finalized transactions, oldest first
    failed,     \* those of Own that failed
    attempted,  \* those of Own with an attempt row
    settled,    \* those of Own whose outcome is booked
    recorded,   \* those of Expenses the operator has recorded
    booked,     \* transfers with a row in incoming_transfers
    balance,    \* the books, by asset
    cursor,     \* cursors: the position reached in an account's history
    requested,  \* a reconciliation job is ready
    stage,      \* where a worker's loop is: a turn, or the account whose history it handles
    left,       \* token accounts it has still to walk
    todo,       \* positions listed and not yet passed
    handled,    \* transfers of the first of them already ingested
    sample,     \* the slot at which balances were read
    incidents   \* those its reconciliation opened, until it has answered the request

chainVars  == <<chain, failed, attempted>>
bookVars   == <<settled, recorded, booked, balance>>
workerVars == <<stage, left, todo, handled, sample, incidents>>
vars == <<chainVars, bookVars, cursor, requested, workerVars>>

Stages == Turns \cup Accounts

-----------------------------------------------------------------------------
(* The chain (external), and the books' other writers *)

(* An attempt is durable before its transaction is sent (runner.ts:46-60). *)
Attempt(s) ==
    /\ s \in Own \ attempted
    /\ attempted' = attempted \cup {s}
    /\ UNCHANGED <<chain, failed, bookVars, cursor, requested, workerVars>>

Landed(s) == \E p \in DOMAIN chain : chain[p] = s

Land(s) ==
    /\ ~Landed(s)
    /\ s \in Own => s \in attempted
    /\ chain' = Append(chain, s)
    /\ \/ UNCHANGED failed
       \/ s \in Own /\ failed' = failed \cup {s}
    /\ UNCHANGED <<attempted, bookVars, cursor, requested, workerVars>>

(* What a finalized transaction adds to the sampled account of an asset.  The treasury's *)
(* own transactions touch no other.                                                      *)
Received(s, a) ==
    SumFunction([t \in {x \in Transfers : In[x] = s /\ To[x] \in Sampled /\ Asset[x] = a} |-> Amount[t]])

Effect(s, a) ==
    IF s \in failed THEN (IF a = "native" THEN -FailFee[s] ELSE 0)
    ELSE IF s \in Arrivals THEN Received(s, a)
    ELSE Received(s, a) - Debit[s][a]

(* apply() and runIntent() book the outcome of an attempt, whenever they learn it. *)
Settle(s) ==
    /\ s \in Own \ settled /\ Landed(s)
    /\ settled' = settled \cup {s}
    /\ balance' = [a \in Assets |-> balance[a] + Effect(s, a)]
    /\ UNCHANGED <<chainVars, recorded, booked, cursor, requested, workerVars>>

(* recordExpensePayment(): the operator records a payment after it happened. *)
RecordExpense(s) ==
    /\ s \in Expenses \ recorded /\ Landed(s)
    /\ recorded' = recorded \cup {s}
    /\ balance' = [a \in Assets |-> balance[a] + Effect(s, a)]
    /\ UNCHANGED <<chainVars, settled, booked, cursor, requested, workerVars>>

(* ingest(): a transfer already recorded changes nothing. *)
Ingest(t) ==
    /\ booked' = booked \cup {t}
    /\ balance' = IF t \in booked THEN balance ELSE [balance EXCEPT ![Asset[t]] = @ + Amount[t]]

(* recognizeCapital(): the operator books a native transfer before the worker does. *)
RecognizeCapital(t) ==
    /\ t \notin booked /\ Asset[t] = "native" /\ Landed(In[t])
    /\ Ingest(t)
    /\ UNCHANGED <<chainVars, settled, recorded, cursor, requested, workerVars>>

RequestReconciliation ==
    /\ ~requested
    /\ requested' = TRUE
    /\ UNCHANGED <<chainVars, bookVars, cursor, workerVars>>

-----------------------------------------------------------------------------
(* Ingestion *)

History(h) == {p \in DOMAIN chain : Listed(h, chain[p])}

(* getSignaturesForAddress with until = cursor, page by page from the newest. *)
PendingNewestPages(h) ==
    {p \in History(h) : p > cursor[h] /\ Cardinality({q \in History(h) : q > p}) < HistoryBound - 1}

Pending(h) == {p \in History(h) : p > cursor[h]}

(* The worker reads the cursor and the signatures after it.  Before it handles those of *)
(* the treasury's own account it needs an approval in force, the funding route, the     *)
(* universe and the whole window of published payouts (main.ts:48-51, ingestion.ts:17). *)
(* Unless all are answered and valid the iteration ends here and has changed nothing:   *)
(* the step is not taken.                                                               *)
List(w, h) ==
    /\ stage[w] = IF h = "native" THEN "idle" ELSE "tokens"
    /\ h = "native" \/ h \in left[w]
    /\ Cardinality(Pending(h)) < HistoryBound
    /\ stage' = [stage EXCEPT ![w] = h]
    /\ left' = [left EXCEPT ![w] = @ \ {h}]
    /\ todo' = [todo EXCEPT ![w] = Pending(h)]
    /\ UNCHANGED <<chainVars, bookVars, cursor, requested, handled, sample, incidents>>

(* Transfers of s that this history has to book: those for its account, none of a failed *)
(* transaction, and in a token account's history none of one the treasury signed.        *)
ToBookOfAnyone(h, s) ==
    IF s \in failed THEN {} ELSE {t \in Transfers : In[t] = s /\ To[t] = h}

ToBookOfSampled(h, s) ==
    IF s \in failed \/ (h # "native" /\ s \in attempted) THEN {}
    ELSE {t \in Transfers : In[t] = s /\ To[t] = h /\ h \in Sampled}

ToBook(h, s) ==
    IF s \in failed \/ (h # "native" /\ s \in attempted) THEN {}
    ELSE {t \in Transfers : In[t] = s /\ To[t] = h}

(* The signatures are handled from the oldest to the newest. *)
OldestFirst(w, p) == p \in todo[w] /\ \A q \in todo[w] : p <= q

IngestListed(w, p, t) ==
    /\ stage[w] \in Accounts /\ OldestFirst(w, p)
    /\ t \in ToBook(stage[w], chain[p]) \ handled[w]
    /\ Ingest(t)
    /\ handled' = [handled EXCEPT ![w] = @ \cup {t}]
    /\ UNCHANGED <<chainVars, settled, recorded, cursor, requested, stage, left, todo, sample, incidents>>

(* advance(): the cursor is written whatever it holds by now. *)
Advance(w, p) ==
    /\ stage[w] \in Accounts /\ OldestFirst(w, p)
    /\ ToBook(stage[w], chain[p]) \subseteq handled[w]
    /\ cursor' = [cursor EXCEPT ![stage[w]] = p]
    /\ todo' = [todo EXCEPT ![w] = @ \ {p}]
    /\ handled' = [handled EXCEPT ![w] = {}]
    /\ UNCHANGED <<chainVars, bookVars, requested, stage, left, sample, incidents>>

(* After the treasury's history come its token accounts, one after the other. *)
EndHistory(w) ==
    /\ stage[w] \in Accounts /\ todo[w] = {}
    /\ stage' = [stage EXCEPT ![w] = "tokens"]
    /\ left' = IF stage[w] = "native" THEN [left EXCEPT ![w] = TokenAccounts] ELSE left
    /\ UNCHANGED <<chainVars, bookVars, cursor, requested, todo, handled, sample, incidents>>

(* All token accounts have been walked, or none: they are read once a minute only. *)
LeaveTokens(w) ==
    /\ stage[w] = "tokens" /\ left[w] \in {{}, TokenAccounts}
    /\ stage' = [stage EXCEPT ![w] = "reconcile"]
    /\ left' = [left EXCEPT ![w] = {}]
    /\ UNCHANGED <<chainVars, bookVars, cursor, requested, todo, handled, sample, incidents>>

(* The iteration ends by an exception (a provider fails, a transaction is not found, a *)
(* history is too long) or the process dies; the next one begins anew.                 *)
Abandon(w) ==
    /\ stage[w] # "idle"
    /\ stage' = [stage EXCEPT ![w] = "idle"]
    /\ left' = [left EXCEPT ![w] = {}]
    /\ todo' = [todo EXCEPT ![w] = {}]
    /\ handled' = [handled EXCEPT ![w] = {}]
    /\ sample' = [sample EXCEPT ![w] = 0]
    /\ incidents' = [incidents EXCEPT ![w] = {}]
    /\ UNCHANGED <<chainVars, bookVars, cursor, requested>>

-----------------------------------------------------------------------------
(* Reconciliation *)

NothingRequested(w) ==
    /\ stage[w] = "reconcile" /\ ~requested
    /\ stage' = [stage EXCEPT ![w] = "idle"]
    /\ UNCHANGED <<chainVars, bookVars, cursor, requested, left, todo, handled, sample, incidents>>

(* getMultipleAccountsInfoAndContext, of a provider that may lag behind. *)
ReadBalances(w, k) ==
    /\ stage[w] = "reconcile" /\ requested
    /\ stage' = [stage EXCEPT ![w] = "sampled"]
    /\ sample' = [sample EXCEPT ![w] = k]
    /\ UNCHANGED <<chainVars, bookVars, cursor, requested, left, todo, handled, incidents>>

(* What the sampled account of an asset holds at slot k: the treasury's own, and of its *)
(* token accounts the canonical one alone (main.ts:78-79).                              *)
Actual(k, a) == Opening[a] + SumFunction([p \in 1..k |-> Effect(chain[p], a)])

(* The slots of the movements in the books. *)
BookedSlotsOfAttempts == {p \in DOMAIN chain : chain[p] \in settled}

BookedSlots ==
    {p \in DOMAIN chain : chain[p] \in settled \cup recorded \/ \E t \in booked : In[t] = chain[p]}

Stale(k) == \E p \in BookedSlots : k < p

(* Intents signed and not yet booked, and what they may move. *)
InFlight == attempted \ settled
DebitBound(a) == SumFunction([s \in InFlight |-> MaxDebit[s][a]])
MayCredit(a) == \E s \in InFlight : \E t \in Transfers : In[t] = s /\ Asset[t] = a

Delta(k, a) == Actual(k, a) - balance[a]

Explained(k, a) ==
    /\ InFlight # {}
    /\ \/ Delta(k, a) <= 0 /\ -Delta(k, a) <= DebitBound(a)
       \/ Delta(k, a) > 0 /\ MayCredit(a)

Incidents(k) ==
    {<<IF Delta(k, a) < 0 THEN "deficit" ELSE "surplus", a>> :
        a \in {x \in Assets : Delta(k, x) # 0 /\ ~Explained(k, x)}}

(* reconcile(): the books are read, under the control lock, after the balances.  *)
(* An incident also pauses execution until the operator has resolved it: see     *)
(* OpenIncident in Execution.                                                    *)
ReconcileStale(w) ==
    /\ stage[w] = "sampled" /\ Stale(sample[w])
    /\ stage' = [stage EXCEPT ![w] = "idle"]
    /\ sample' = [sample EXCEPT ![w] = 0]
    /\ UNCHANGED <<chainVars, bookVars, cursor, requested, left, todo, handled, incidents>>

Reconcile(w) ==
    /\ stage[w] = "sampled" /\ ~Stale(sample[w])
    /\ incidents' = [incidents EXCEPT ![w] = Incidents(sample[w])]
    /\ stage' = [stage EXCEPT ![w] = "reported"]
    /\ sample' = [sample EXCEPT ![w] = 0]
    /\ UNCHANGED <<chainVars, bookVars, cursor, requested, left, todo, handled>>

(* UPDATE jobs: the request is done unless the sample was stale. *)
Answer(w) ==
    /\ stage[w] = "reported"
    /\ requested' = FALSE
    /\ stage' = [stage EXCEPT ![w] = "idle"]
    /\ incidents' = [incidents EXCEPT ![w] = {}]
    /\ UNCHANGED <<chainVars, bookVars, cursor, left, todo, handled, sample>>

-----------------------------------------------------------------------------
Init ==
    /\ chain = <<>> /\ failed = {} /\ attempted = {}
    /\ settled = {} /\ recorded = {} /\ booked = {} /\ balance = Opening
    /\ cursor = [h \in Accounts |-> 0]
    /\ requested = FALSE
    /\ stage = [w \in Workers |-> "idle"] /\ left = [w \in Workers |-> {}]
    /\ todo = [w \in Workers |-> {}] /\ handled = [w \in Workers |-> {}]
    /\ sample = [w \in Workers |-> 0] /\ incidents = [w \in Workers |-> {}]

Environment ==
    \/ \E s \in Own : Attempt(s) \/ Settle(s)
    \/ \E s \in Signatures : Land(s)
    \/ \E s \in Expenses : RecordExpense(s)
    \/ \E t \in Transfers : RecognizeCapital(t)
    \/ RequestReconciliation

(* What an iteration does once it has begun. *)
Proceed(w) ==
    \/ \E h \in TokenAccounts : List(w, h)
    \/ \E p \in todo[w] : Advance(w, p) \/ \E t \in Transfers : IngestListed(w, p, t)
    \/ EndHistory(w) \/ LeaveTokens(w) \/ NothingRequested(w)
    \/ \E k \in 0..Len(chain) : ReadBalances(w, k)
    \/ ReconcileStale(w) \/ Reconcile(w) \/ Answer(w)

Next == Environment \/ \E w \in Workers : List(w, "native") \/ Proceed(w) \/ Abandon(w)

Spec == Init /\ [][Next]_vars

(* Fairness: an iteration that has begun goes on, and what it does then depends on its      *)
(* provider alone: asked for transactions again and again, it finally returns one, and now *)
(* and then each token account is reached.  (A transaction that pays several times into    *)
(* one account would need this of each of its transfers; the instance has none.)  That an  *)
(* iteration begins is not assumed: it takes valid answers of Ember.                       *)
Fairness ==
    /\ \A w \in Workers :
          /\ WF_vars(Proceed(w)) /\ SF_vars(EndHistory(w))
          /\ \A h \in TokenAccounts : SF_vars(List(w, h))
    /\ SF_vars(\E w \in Workers : \E p \in todo[w], t \in Transfers : IngestListed(w, p, t))
    /\ SF_vars(\E w \in Workers : \E p \in todo[w] : Advance(w, p))

FairSpec == Spec /\ Fairness

-----------------------------------------------------------------------------
(* Properties *)

TypeOK ==
    /\ chain \in Seq(Signatures) /\ failed \in SUBSET Own /\ attempted \in SUBSET Own
    /\ settled \in SUBSET Own /\ recorded \in SUBSET Expenses /\ booked \in SUBSET Transfers
    /\ balance \in [Assets -> Nat]
    /\ cursor \in [Accounts -> 0..Len(chain)]
    /\ requested \in BOOLEAN
    /\ stage \in [Workers -> Stages] /\ left \in [Workers -> SUBSET TokenAccounts]
    /\ todo \in [Workers -> SUBSET (DOMAIN chain)] /\ handled \in [Workers -> SUBSET Transfers]
    /\ sample \in [Workers -> 0..Len(chain)]
    /\ incidents \in [Workers -> SUBSET ({"deficit", "surplus"} \X Assets)]

(* Nothing the treasury has to book from a history lies behind its cursor unbooked, *)
(* however often workers are interrupted and whichever of them wrote the cursor      *)
(* last (ingestion.ts:8, 18-28, 40-45).                                              *)
NothingSkipped ==
    \A h \in Accounts : \A p \in History(h) :
        p <= cursor[h] => ToBook(h, chain[p]) \subseteq booked

(* The books are the sum of the movements they have a row for, each counted once: the *)
(* output of a purchase is not booked as a deposit too, nor a transfer twice          *)
(* (ingestion.ts:41, engine.ts:29, 93).                                               *)
BooksAddUp ==
    \A a \in Assets :
        balance[a] = Opening[a]
            + SumFunction([t \in {x \in Transfers : In[x] \in Arrivals /\ x \in booked /\ Asset[x] = a} |-> Amount[t]])
            + SumFunction([s \in settled \cup recorded |-> Effect(s, a)])

(* What a reconciliation accuses of is real, whatever was booked or landed between the    *)
(* reading of the balances and the lock: a deficit means that a payment made by hand is   *)
(* not in the books or that the books hold a deposit in a token account the sample leaves *)
(* out, a surplus that a transfer to a sampled account is not booked (engine.ts:169-198,  *)
(* main.ts:78-79, ingestion.ts:34-43).                                                    *)
IncidentsAreReal ==
    [][\A w \in Workers, a \in Assets :
          /\ <<"deficit", a>> \in incidents'[w] \ incidents[w] =>
                \/ \E s \in Expenses \ recorded : Landed(s) /\ Debit[s][a] > 0
                \/ \E t \in booked : Asset[t] = a /\ To[t] \notin Sampled
          /\ <<"surplus", a>> \in incidents'[w] \ incidents[w] =>
                \E t \in Transfers \ booked :
                    In[t] \in Arrivals /\ Landed(In[t]) /\ Asset[t] = a /\ To[t] \in Sampled]_vars

(* More signatures wait in a history than its listing may hold. *)
TooLong == \E h \in Accounts : Cardinality(History(h) \ 1..cursor[h]) >= HistoryBound

(* Again and again an iteration gets beyond the published payouts. *)
WindowIsRead == []<>(\E w \in Workers : stage[w] = "native")

(* However often the loop is interrupted and wherever a crash falls between two bookings *)
(* and the cursor, every transfer that arrives is booked, with two exceptions: if for    *)
(* ever no iteration gets the approval, the route and Ember's published window, which    *)
(* one malformed row suffices for (ingestion.ts:17), nothing is booked any more; and a   *)
(* history in which more transactions wait than a listing may hold keeps its cursor      *)
(* where it is (ingestion.ts:15-16, 38-39).                                              *)
EveryArrivalIsBooked ==
    WindowIsRead =>
        \A s \in Arrivals : Landed(s) ~> ({t \in Transfers : In[t] = s} \subseteq booked \/ TooLong)
=============================================================================
