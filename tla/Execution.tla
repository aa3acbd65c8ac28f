------------------------------ MODULE Execution ------------------------------
(***************************************************************************)
(* The treasury's execution loop: apps/worker/runner.ts (tick, runIntent), *)
(* the manual recovery of apps/worker/recovery.ts, the settlement          *)
(* transaction of Engine.apply, the worker lease and fence of Store, and   *)
(* the control row (pause, incidents, resume) that operators change.       *)
(*                                                                         *)
(* Every process runs the loop one database transaction or one external    *)
(* call at a time; between two of them another process, an operator, the   *)
(* clock or the chain may act.  A process may crash at any point.          *)
(*                                                                         *)
(* Abstractions.  An amount of principal is one unit, reserved for its     *)
(* intent when it is planned.  The intents share one cost account, as the  *)
(* intents of one epoch share cost:<epoch> (Floor = 0) and payouts share   *)
(* "reserve" (Floor = the engine's minimumReserve).  A fence number is     *)
(* represented by the process that was granted the newest one: the code    *)
(* only ever compares a fence with the newest.  Time is the events it      *)
(* causes: a lease expires, a retry falls due, the blockhash of an         *)
(* unresolved attempt expires.                                             *)
(***************************************************************************)
EXTENDS Integers, FiniteSets

CONSTANTS
    Workers,       \* processes that call tick() or recoverIntent()
    Intents,       \* the planned treasury operations
    Sigs,          \* transaction signatures
    Rents,         \* rent bounds an adapter may bind to a transaction
    Charges,       \* fees and rents the network may charge
    FeeCap,        \* expected.maxFee of every intent
    Allowance,     \* initial balance of the shared cost account
    Floor,         \* the part of it that may not be spent
    Rank0,         \* creation order of the intents
    MaxExpenses,   \* bound: operating expense payments recorded
    Manual,        \* the lease owner name of recovery requests
    NoWorker, NoIntent, NoSig

ASSUME ConstantsDiffer ==
    /\ Manual \notin Workers
    /\ NoWorker \notin Workers \cup {Manual}
    /\ NoIntent \notin Intents
    /\ NoSig \notin Sigs

ASSUME AmountsAreNatural ==
    /\ Rents \subseteq Nat
    /\ Charges \subseteq Nat
    /\ FeeCap \in Nat
    /\ Floor \in Nat
    /\ Allowance \in Nat
    /\ Floor <= Allowance
    /\ MaxExpenses \in Nat

ASSUME RanksAreNatural ==
    /\ IsFiniteSet(Intents)
    /\ Rank0 \in [Intents -> 1..Cardinality(Intents)]
    /\ \A i, j \in Intents : i # j => Rank0[i] # Rank0[j]

-----------------------------------------------------------------------------
VARIABLES
    (* PostgreSQL: the lease row *)
    leaseOwner,    \* owner column: a process (its random UUID) or Manual
    leaseHolder,   \* the process granted the newest fence, NoWorker once it expired
    (* PostgreSQL: the control row and the unresolved incidents *)
    paused,
    incidents,
    (* PostgreSQL: intents, attempts, postings *)
    istatus,       \* intents.status
    rank,          \* position by (last_attempt_at NULLS FIRST, created_at, id)
    due,           \* next_attempt_at <= clock_timestamp()
    att,           \* attempts.status by signature; "none" is no row
    sigFor,        \* attempts.intent_id
    cap,           \* expected.maxNativeCost that was persisted with the attempt
    principal,     \* balance of the account the intent pays from
    cost,          \* balance of the shared cost account
    expensed,      \* signatures in operating_expense_payments
    (* the chain *)
    sent,          \* signatures whose bytes were released to the network
    chain,         \* finalized outcome of a signature, "absent" when there is none
    lapsed,        \* signatures whose last valid height is below the finalized height
    (* the memory of each process *)
    pc, cur, sig, todo, phase, review, bound

leaseVars   == <<leaseOwner, leaseHolder>>
controlVars == <<paused, incidents>>
ledgerVars  == <<istatus, rank, due, att, sigFor, cap, principal, cost>>
chainVars   == <<sent, chain, lapsed>>
localVars   == <<pc, cur, sig, todo, phase, review, bound>>
vars == <<leaseVars, controlVars, ledgerVars, expensed, chainVars, localVars>>

IntentStatuses  == {"planned", "waiting_for_route", "signed", "unknown",
                    "needs_review", "finalized"}
AttemptStatuses == {"none", "signed", "unknown", "needs_review", "failed", "finalized"}
Outcomes        == {"absent", "success", "odd", "failure"}
IncidentKinds   == {"settlement_mismatch", "signature_already_attributed"}
Steps           == {"idle", "next", "authorize", "persist", "inspect", "settle",
                    "incident", "fail", "note", "broadcast", "send"}
(* "recover": a recoveryOnly tick or a recovery request; "tick": the in-flight *)
(* loop of a normal tick; "job": the one due job a normal tick starts.         *)
Phases          == {"recover", "tick", "job"}

InflightWithoutReview == {"signed", "unknown"}
Inflight == {"signed", "unknown", "needs_review"}
Startable == {"planned", "waiting_for_route"}

-----------------------------------------------------------------------------
(* Helpers *)

(* fence(): the lease is still the one granted to w and has not expired. *)
Fenced(w) == leaseHolder = w

(* The attempt runIntent reads: not failed, not expired_verified. *)
Current(i) == {s \in Sigs : sigFor[s] = i /\ att[s] \notin {"none", "failed"}}

(* The attempts that the one_live_attempt index covers. *)
Unresolved(i) == {s \in Sigs : sigFor[s] = i /\ att[s] \in Inflight}

(* Other intents in flight, read under the control lock. *)
Busy(i) == \E j \in Intents \ {i} : istatus[j] \in Inflight

(* The cost account covers the transaction's fee and rent bound. *)
AffordableIgnoringFloor(rent) == FeeCap <= cost
Affordable(rent) == FeeCap + rent <= cost - Floor

(* i becomes the most recently attempted intent. *)
MoveToBack(i) ==
    [j \in Intents |-> IF j = i THEN Cardinality(Intents)
                       ELSE IF rank[j] > rank[i] THEN rank[j] - 1 ELSE rank[j]]

(* runIntent's reading of the rows: the review decision is sticky. *)
ReviewForgotten(i, s) == FALSE
UnderReview(i, s) == istatus[i] = "needs_review" \/ att[s] = "needs_review"

(* The process forgets everything it holds in memory. *)
GoIdle(w) ==
    /\ pc' = [pc EXCEPT ![w] = "idle"]
    /\ cur' = [cur EXCEPT ![w] = NoIntent]
    /\ sig' = [sig EXCEPT ![w] = NoSig]
    /\ todo' = [todo EXCEPT ![w] = {}]
    /\ phase' = [phase EXCEPT ![w] = "recover"]
    /\ review' = [review EXCEPT ![w] = FALSE]
    /\ bound' = [bound EXCEPT ![w] = 0]

(* runIntent returns: the in-flight loop goes on, the job loop (LIMIT 1) ends. *)
Return(w) ==
    IF phase[w] = "job" THEN GoIdle(w)
    ELSE /\ pc' = [pc EXCEPT ![w] = "next"]
         /\ cur' = [cur EXCEPT ![w] = NoIntent]
         /\ sig' = [sig EXCEPT ![w] = NoSig]
         /\ review' = [review EXCEPT ![w] = FALSE]
         /\ bound' = [bound EXCEPT ![w] = 0]
         /\ UNCHANGED <<todo, phase>>

Goto(w, step) ==
    /\ pc' = [pc EXCEPT ![w] = step]
    /\ UNCHANGED <<cur, sig, todo, phase, review, bound>>

(* defer(): back to waiting_for_route, last in the order, not due until its backoff ends. *)
Postpone(i) ==
    /\ istatus' = [istatus EXCEPT ![i] = "waiting_for_route"]
    /\ rank' = MoveToBack(i)
    /\ due' = [due EXCEPT ![i] = FALSE]

OpenIncident(kind) ==
    /\ incidents' = incidents \cup {kind}
    /\ paused' = TRUE

-----------------------------------------------------------------------------
Init ==
    /\ leaseOwner = NoWorker /\ leaseHolder = NoWorker
    /\ paused = FALSE /\ incidents = {}
    /\ istatus = [i \in Intents |-> "planned"]
    /\ rank = Rank0
    /\ due = [i \in Intents |-> TRUE]
    /\ att = [s \in Sigs |-> "none"]
    /\ cap = [s \in Sigs |-> 0]
    /\ principal = [i \in Intents |-> 1]
    /\ cost = Allowance
    /\ expensed = {}
    /\ sigFor = [s \in Sigs |-> NoIntent]
    /\ sent = {} /\ chain = [s \in Sigs |-> "absent"] /\ lapsed = {}
    /\ pc = [w \in Workers |-> "idle"]
    /\ cur = [w \in Workers |-> NoIntent]
    /\ sig = [w \in Workers |-> NoSig]
    /\ todo = [w \in Workers |-> {}]
    /\ phase = [w \in Workers |-> "recover"]
    /\ review = [w \in Workers |-> FALSE]
    /\ bound = [w \in Workers |-> 0]

-----------------------------------------------------------------------------
(* The lease *)

(* Store.lease: granted when expired or to the same owner, always with a new fence. *)
Grant(w, owner) ==
    /\ leaseHolder = NoWorker \/ leaseOwner = owner
    /\ leaseOwner' = owner
    /\ leaseHolder' = w

(* tick(): take the lease and list the intents in flight.  controlledExecutionTick *)
(* runs a recoveryOnly tick first, then a normal one when configuration and         *)
(* approval allow, so either may come.                                              *)
StartTick(w, ph) ==
    /\ pc[w] = "idle"
    /\ ph \in {"recover", "tick"}
    /\ Grant(w, w)
    /\ pc' = [pc EXCEPT ![w] = "next"]
    /\ phase' = [phase EXCEPT ![w] = ph]
    /\ todo' = [todo EXCEPT ![w] = {i \in Intents : istatus[i] \in Inflight}]
    /\ UNCHANGED <<controlVars, ledgerVars, expensed, chainVars, cur, sig, review, bound>>

(* recoverIntent(): the request must name the current original attempt. *)
StartRecovery(w, s) ==
    /\ pc[w] = "idle"
    /\ att[s] # "none"
    /\ s \in Current(sigFor[s])
    /\ Grant(w, Manual)
    /\ pc' = [pc EXCEPT ![w] = "next"]
    /\ phase' = [phase EXCEPT ![w] = "recover"]
    /\ todo' = [todo EXCEPT ![w] = {sigFor[s]}]
    /\ UNCHANGED <<controlVars, ledgerVars, expensed, chainVars, cur, sig, review, bound>>

-----------------------------------------------------------------------------
(* runIntent: reading the intent and its live attempt *)

(* A live attempt is inspected; without one, a normal tick may create it. *)
Begin(w, i) ==
    /\ cur' = [cur EXCEPT ![w] = i]
    /\ istatus[i] # "finalized"
    /\ \/ \E s \in Current(i) :
            /\ sig' = [sig EXCEPT ![w] = s]
            /\ review' = [review EXCEPT ![w] = UnderReview(i, s)]
            /\ pc' = [pc EXCEPT ![w] = "inspect"]
       \/ /\ Current(i) = {} /\ istatus[i] # "needs_review" /\ phase[w] # "recover"
          /\ pc' = [pc EXCEPT ![w] = "authorize"]
          /\ UNCHANGED <<sig, review>>
    /\ UNCHANGED <<leaseVars, controlVars, ledgerVars, expensed, chainVars, bound>>

NothingToDo(w, i) ==
    \/ istatus[i] = "finalized"
    \/ Current(i) = {} /\ (phase[w] = "recover" \/ istatus[i] = "needs_review")

(* The in-flight loop takes its next intent. *)
TakeInflight(w, i) ==
    /\ pc[w] = "next"
    /\ i \in todo[w]
    /\ todo' = [todo EXCEPT ![w] = @ \ {i}]
    /\ Begin(w, i)
    /\ UNCHANGED phase

SkipInflight(w, i) ==
    /\ pc[w] = "next"
    /\ i \in todo[w]
    /\ todo' = [todo EXCEPT ![w] = @ \ {i}]
    /\ NothingToDo(w, i)
    /\ UNCHANGED <<leaseVars, controlVars, ledgerVars, expensed, chainVars,
                   pc, cur, sig, phase, review, bound>>

(* After the loop: nothing still in flight, a normal tick, not paused. *)
MayPickJob(w) ==
    /\ phase[w] = "tick"
    /\ ~paused
    /\ \A i \in Intents : istatus[i] \notin Inflight

(* ORDER BY last_attempt_at NULLS FIRST, created_at, id LIMIT 1 among the due jobs. *)
DueJobs == {i \in Intents : istatus[i] \in Startable /\ due[i]}
FirstCreated(i) == i \in DueJobs /\ \A j \in DueJobs : Rank0[i] <= Rank0[j]
NextJob(i) == i \in DueJobs /\ \A j \in DueJobs : rank[i] <= rank[j]

TakeJob(w, i) ==
    /\ pc[w] = "next" /\ todo[w] = {}
    /\ MayPickJob(w)
    /\ NextJob(i)
    /\ phase' = [phase EXCEPT ![w] = "job"]
    /\ Begin(w, i)
    /\ UNCHANGED todo

(* The tick ends: still reconciling, recovery only, paused, or nothing due. *)
EndTick(w) ==
    /\ pc[w] = "next" /\ todo[w] = {}
    /\ ~MayPickJob(w) \/ DueJobs = {}
    /\ GoIdle(w)
    /\ UNCHANGED <<leaseVars, controlVars, ledgerVars, expensed, chainVars>>

-----------------------------------------------------------------------------
(* runIntent: a new attempt *)

(* signer.sign is deterministic: two processes may hold one signature only for one *)
(* message, so for one intent, and a message that was stored before may come back. *)
Signable(i, s) ==
    /\ s \notin lapsed
    /\ att[s] # "none" => sigFor[s] = i
    /\ \A v \in Workers : sig[v] = s => cur[v] = i

(* authorize() passes at the signer boundary, after the adapter's reads; bindNativeCost *)
(* fixes the bound; the signed bytes exist in this process's memory only.              *)
AuthorizeAndSign(w, s, rent) ==
    LET i == cur[w] IN
    /\ pc[w] = "authorize"
    /\ Fenced(w)
    /\ ~paused
    /\ principal[i] >= 1
    /\ Affordable(rent)
    /\ ~Busy(i)
    /\ Signable(i, s)
    /\ sig' = [sig EXCEPT ![w] = s]
    /\ bound' = [bound EXCEPT ![w] = FeeCap + rent]
    /\ pc' = [pc EXCEPT ![w] = "persist"]
    /\ UNCHANGED <<leaseVars, controlVars, ledgerVars, expensed, chainVars,
                   cur, todo, phase, review>>

(* The write is allowed: the signature is nobody's expense, has no row yet, and *)
(* one_live_attempt holds.                                                      *)
PersistableUnchecked(i, s) == att[s] = "none" /\ Unresolved(i) = {}
Persistable(i, s) == s \notin expensed /\ att[s] = "none" /\ Unresolved(i) = {}

(* The attempt becomes durable before any byte leaves the process. *)
Persist(w) ==
    LET i == cur[w]  s == sig[w] IN
    /\ pc[w] = "persist"
    /\ Fenced(w)
    /\ Persistable(i, s)
    /\ att' = [att EXCEPT ![s] = "signed"]
    /\ sigFor' = [sigFor EXCEPT ![s] = i]
    /\ cap' = [cap EXCEPT ![s] = bound[w]]
    /\ istatus' = [istatus EXCEPT ![i] = "signed"]
    /\ rank' = MoveToBack(i)
    /\ Goto(w, "inspect")
    /\ UNCHANGED <<leaseVars, controlVars, due, principal, cost, expensed, chainVars>>

(* The signature is an operating expense's: deferred, incident, pause. *)
PersistAttributed(w) ==
    LET i == cur[w] IN
    /\ pc[w] = "persist"
    /\ Fenced(w)
    /\ sig[w] \in expensed
    /\ Postpone(i)
    /\ OpenIncident("signature_already_attributed")
    /\ Return(w)
    /\ UNCHANGED <<leaseVars, att, sigFor, cap, principal, cost, expensed, chainVars>>

(* A guard of authorize(), a read or check of the adapter, before or after it signed,  *)
(* or the write refuses: unsigned work is deferred, bytes that were not stored are     *)
(* dropped (the catch of prepare and of tick).                                         *)
Defer(w) ==
    LET i == cur[w] IN
    /\ pc[w] = "authorize" \/ (pc[w] = "persist" /\ phase[w] = "job" /\ Unresolved(i) = {})
    /\ Fenced(w)
    /\ Postpone(i)
    /\ Return(w)
    /\ UNCHANGED <<leaseVars, controlVars, att, sigFor, cap, principal, cost, expensed, chainVars>>

(* A stale worker's defer throws, signed work is never deferred, and the in-flight *)
(* loop does not catch.                                                            *)
DeferThrows(w) ==
    /\ pc[w] \in {"authorize", "persist"}
    /\ ~Fenced(w) \/ Unresolved(cur[w]) # {} \/ phase[w] = "tick"
    /\ GoIdle(w)
    /\ UNCHANGED <<leaseVars, controlVars, ledgerVars, expensed, chainVars>>

-----------------------------------------------------------------------------
(* runIntent: the outcome of the original signature *)

(* chain.inspect: a finalized transaction, whatever its evidence says. *)
InspectSuccess(w) ==
    /\ pc[w] = "inspect"
    /\ chain[sig[w]] \in {"success", "odd"}
    /\ Goto(w, "settle")
    /\ UNCHANGED <<leaseVars, controlVars, ledgerVars, expensed, chainVars>>

InspectFailure(w) ==
    /\ pc[w] = "inspect"
    /\ chain[sig[w]] = "failure"
    /\ Goto(w, "fail")
    /\ UNCHANGED <<leaseVars, controlVars, ledgerVars, expensed, chainVars>>

(* pending, unknown, or a provider that answers nothing *)
InspectUnknown(w) ==
    /\ pc[w] = "inspect"
    /\ Goto(w, "note")
    /\ UNCHANGED <<leaseVars, controlVars, ledgerVars, expensed, chainVars>>

(* The finalized height passed the last valid height and the history that was read   *)
(* shows nothing.  The history is read before the height, and it may lag: "expired"  *)
(* is compatible with every outcome on chain.                                        *)
InspectExpiredAsFailure(w) ==
    /\ pc[w] = "inspect"
    /\ sig[w] \in lapsed
    /\ Goto(w, "fail")
    /\ UNCHANGED <<leaseVars, controlVars, ledgerVars, expensed, chainVars>>

InspectExpired(w) ==
    /\ pc[w] = "inspect"
    /\ sig[w] \in lapsed
    /\ pc' = [pc EXCEPT ![w] = "note"]
    /\ review' = [review EXCEPT ![w] = TRUE]
    /\ UNCHANGED <<leaseVars, controlVars, ledgerVars, expensed, chainVars,
                   cur, sig, todo, phase, bound>>

(* The inspection throws (evidence missing or contradictory). *)
InspectThrows(w) ==
    /\ pc[w] = "inspect"
    /\ GoIdle(w)
    /\ UNCHANGED <<leaseVars, controlVars, ledgerVars, expensed, chainVars>>

(* Engine.apply's checks: those on the evidence, and those under the fence and the lock. *)
Settleable(w) ==
    LET i == cur[w]  s == sig[w] IN
    /\ chain[s] = "success"
    /\ Fenced(w)
    /\ s \notin expensed
    /\ att[s] # "none"

(* Engine.apply: network cost, principal, attempt and intent in one transaction.  Its *)
(* early return for an intent that is already finalized (engine.ts:101) cannot happen *)
(* here: FenceProtects shows that a fenced process settles an unresolved attempt.     *)
SettleWithoutDebit(w) ==
    LET i == cur[w]  s == sig[w] IN
    /\ pc[w] = "settle"
    /\ Settleable(w)
    /\ istatus[i] # "finalized"
    /\ \E paid \in Charges : paid <= cap[s] /\ paid <= cost /\ cost' = cost - paid
    /\ att' = [att EXCEPT ![s] = "finalized"]
    /\ istatus' = [istatus EXCEPT ![i] = "finalized"]
    /\ Return(w)
    /\ UNCHANGED <<leaseVars, controlVars, rank, due, sigFor, cap, principal, expensed, chainVars>>

Settle(w) ==
    LET i == cur[w]  s == sig[w] IN
    /\ pc[w] = "settle"
    /\ Settleable(w)
    /\ istatus[i] # "finalized"
    /\ \E paid \in Charges : paid <= cap[s] /\ paid <= cost /\ cost' = cost - paid
    /\ principal[i] >= 1
    /\ principal' = [principal EXCEPT ![i] = @ - 1]
    /\ att' = [att EXCEPT ![s] = "finalized"]
    /\ istatus' = [istatus EXCEPT ![i] = "finalized"]
    /\ Return(w)
    /\ UNCHANGED <<leaseVars, controlVars, rank, due, sigFor, cap, expensed, chainVars>>

(* apply throws: evidence outside the approved plan, a stale fence, or a ledger that *)
(* would go negative.                                                                *)
SettleThrows(w) ==
    LET i == cur[w]  s == sig[w] IN
    /\ pc[w] = "settle"
    /\ \/ ~Settleable(w)
       \/ istatus[i] # "finalized" /\ (principal[i] < 1 \/ cost < cap[s])
       \/ chain[s] = "odd"
    /\ Goto(w, "incident")
    /\ UNCHANGED <<leaseVars, controlVars, ledgerVars, expensed, chainVars>>

(* Store.incident: its own transaction, under the control lock but not fenced. *)
RecordIncident(w) ==
    /\ pc[w] = "incident"
    /\ OpenIncident("settlement_mismatch")
    /\ GoIdle(w)
    /\ UNCHANGED <<leaseVars, ledgerVars, expensed, chainVars>>

(* A finalized failure: its fee is paid, the attempt is closed, the intent may be retried. *)
RecordFailure(w) ==
    LET i == cur[w]  s == sig[w] IN
    /\ pc[w] = "fail"
    /\ Fenced(w)
    /\ \E fee \in Charges : fee <= FeeCap /\ fee <= cost /\ cost' = cost - fee
    /\ att' = [att EXCEPT ![s] = "failed"]
    /\ Postpone(i)
    /\ Return(w)
    /\ UNCHANGED <<leaseVars, controlVars, sigFor, cap, principal, expensed, chainVars>>

RecordFailureThrows(w) ==
    /\ pc[w] = "fail"
    /\ ~Fenced(w) \/ cost < FeeCap
    /\ GoIdle(w)
    /\ UNCHANGED <<leaseVars, controlVars, ledgerVars, expensed, chainVars>>

NotedStatus(w) == IF review[w] THEN "needs_review" ELSE "unknown"

(* Not resolved: unknown, or needs_review once the signature was ever under review. *)
RecordUnknownUnfenced(w) ==
    LET i == cur[w]  s == sig[w] IN
    /\ pc[w] = "note"
    /\ att' = [att EXCEPT ![s] = NotedStatus(w)]
    /\ istatus' = [istatus EXCEPT ![i] = NotedStatus(w)]
    /\ IF phase[w] = "recover" \/ review[w] THEN Return(w) ELSE Goto(w, "broadcast")
    /\ UNCHANGED <<leaseVars, controlVars, rank, due, sigFor, cap, principal, cost,
                   expensed, chainVars>>

RecordUnknown(w) ==
    LET i == cur[w]  s == sig[w] IN
    /\ pc[w] = "note"
    /\ Fenced(w)
    /\ att' = [att EXCEPT ![s] = NotedStatus(w)]
    /\ istatus' = [istatus EXCEPT ![i] = NotedStatus(w)]
    /\ IF phase[w] = "recover" \/ review[w] THEN Return(w) ELSE Goto(w, "broadcast")
    /\ UNCHANGED <<leaseVars, controlVars, rank, due, sigFor, cap, principal, cost,
                   expensed, chainVars>>

RecordUnknownThrows(w) ==
    /\ pc[w] = "note"
    /\ ~Fenced(w)
    /\ GoIdle(w)
    /\ UNCHANGED <<leaseVars, controlVars, ledgerVars, expensed, chainVars>>

-----------------------------------------------------------------------------
(* runIntent: (re)sending the original bytes *)

(* The adapter finds the blockhash valid, then authorizeBroadcast passes. *)
AuthorizeBroadcast(w) ==
    /\ pc[w] = "broadcast"
    /\ sig[w] \notin lapsed
    /\ Fenced(w)
    /\ ~paused
    /\ Goto(w, "send")
    /\ UNCHANGED <<leaseVars, controlVars, ledgerVars, expensed, chainVars>>

(* Any refusal or network error is swallowed; the next tick inspects again. *)
DoNotSend(w) ==
    /\ pc[w] \in {"broadcast", "send"}
    /\ Return(w)
    /\ UNCHANGED <<leaseVars, controlVars, ledgerVars, expensed, chainVars>>

Send(w) ==
    /\ pc[w] = "send"
    /\ sent' = sent \cup {sig[w]}
    /\ Return(w)
    /\ UNCHANGED <<leaseVars, controlVars, ledgerVars, expensed, chain, lapsed>>

-----------------------------------------------------------------------------
(* Environment: time, crashes, operators, the chain *)

LeaseExpires ==
    /\ leaseHolder # NoWorker
    /\ leaseOwner' = NoWorker
    /\ leaseHolder' = NoWorker
    /\ UNCHANGED <<controlVars, ledgerVars, expensed, chainVars, localVars>>

(* A restarted process draws a new owner UUID: the old lease is nobody's. *)
Crash(w) ==
    /\ pc[w] # "idle"
    /\ GoIdle(w)
    /\ leaseOwner' = IF leaseOwner = w THEN NoWorker ELSE leaseOwner
    /\ UNCHANGED <<leaseHolder, controlVars, ledgerVars, expensed, chainVars>>

FallsDue(i) ==
    /\ ~due[i]
    /\ due' = [due EXCEPT ![i] = TRUE]
    /\ UNCHANGED <<leaseVars, controlVars, istatus, rank, att, sigFor, cap, principal, cost,
                   expensed, chainVars, localVars>>

OperatorPause ==
    /\ ~paused
    /\ paused' = TRUE
    /\ UNCHANGED <<leaseVars, incidents, ledgerVars, expensed, chainVars, localVars>>

ResolveIncident(kind) ==
    /\ kind \in incidents
    /\ incidents' = incidents \ {kind}
    /\ UNCHANGED <<leaseVars, paused, ledgerVars, expensed, chainVars, localVars>>

OperatorResume ==
    /\ paused
    /\ incidents = {}
    /\ paused' = FALSE
    /\ UNCHANGED <<leaseVars, incidents, ledgerVars, expensed, chainVars, localVars>>

(* recordExpensePayment: refused for a signature that has an attempt row. *)
ExpenseAllowed(s) == att[s] = "none"
RecordExpense(s) ==
    /\ s \notin expensed /\ Cardinality(expensed) < MaxExpenses
    /\ ExpenseAllowed(s)
    /\ expensed' = expensed \cup {s}
    /\ UNCHANGED <<leaseVars, controlVars, ledgerVars, chainVars, localVars>>

(* The chain finalizes a released signature, once, while it is valid.  "odd" executes *)
(* with evidence outside the approved plan.                                           *)
Land(s, outcome) ==
    /\ s \in sent \ lapsed
    /\ chain[s] = "absent"
    /\ outcome \in Outcomes \ {"absent"}
    /\ chain' = [chain EXCEPT ![s] = outcome]
    /\ UNCHANGED <<leaseVars, controlVars, ledgerVars, expensed, sent, lapsed, localVars>>

Lapse(s) ==
    /\ att[s] \in Inflight
    /\ s \notin lapsed
    /\ lapsed' = lapsed \cup {s}
    /\ UNCHANGED <<leaseVars, controlVars, ledgerVars, expensed, sent, chain, localVars>>

-----------------------------------------------------------------------------
Resolve(w) ==
    \/ InspectSuccess(w) \/ InspectFailure(w) \/ InspectUnknown(w)
    \/ InspectExpired(w) \/ InspectThrows(w)
    \/ Settle(w) \/ SettleThrows(w) \/ RecordIncident(w)
    \/ RecordFailure(w) \/ RecordFailureThrows(w)
    \/ RecordUnknown(w) \/ RecordUnknownThrows(w)
    \/ AuthorizeBroadcast(w) \/ DoNotSend(w) \/ Send(w)

Prepare(w) ==
    \/ \E s \in Sigs, rent \in Rents : AuthorizeAndSign(w, s, rent)
    \/ Persist(w) \/ PersistAttributed(w) \/ Defer(w) \/ DeferThrows(w)

Loop(w) ==
    \/ \E ph \in Phases : StartTick(w, ph)
    \/ \E s \in Sigs : StartRecovery(w, s)
    \/ \E i \in Intents : TakeInflight(w, i) \/ SkipInflight(w, i) \/ TakeJob(w, i)
    \/ EndTick(w)

Environment ==
    \/ LeaseExpires
    \/ \E w \in Workers : Crash(w)
    \/ \E i \in Intents : FallsDue(i)
    \/ OperatorPause \/ OperatorResume
    \/ \E kind \in IncidentKinds : ResolveIncident(kind)
    \/ \E s \in Sigs : RecordExpense(s)
    \/ \E s \in Sigs, outcome \in Outcomes : Land(s, outcome)
    \/ \E s \in Sigs : Lapse(s)

Next ==
    \/ \E w \in Workers : Loop(w) \/ Prepare(w) \/ Resolve(w)
    \/ Environment

Spec == Init /\ [][Next]_vars

-----------------------------------------------------------------------------
(* Properties *)

TypeOK ==
    /\ leaseOwner \in Workers \cup {Manual, NoWorker}
    /\ leaseHolder \in Workers \cup {NoWorker}
    /\ paused \in BOOLEAN
    /\ incidents \in SUBSET IncidentKinds
    /\ istatus \in [Intents -> IntentStatuses]
    /\ rank \in [Intents -> Int]
    /\ due \in [Intents -> BOOLEAN]
    /\ att \in [Sigs -> AttemptStatuses]
    /\ cap \in [Sigs -> Nat]
    /\ principal \in [Intents -> Int]
    /\ cost \in Int
    /\ expensed \in SUBSET Sigs
    /\ sigFor \in [Sigs -> Intents \cup {NoIntent}]
    /\ sent \in SUBSET Sigs
    /\ chain \in [Sigs -> Outcomes]
    /\ lapsed \in SUBSET Sigs
    /\ pc \in [Workers -> Steps]
    /\ cur \in [Workers -> Intents \cup {NoIntent}]
    /\ sig \in [Workers -> Sigs \cup {NoSig}]
    /\ todo \in [Workers -> SUBSET Intents]
    /\ phase \in [Workers -> Phases]
    /\ review \in [Workers -> BOOLEAN]
    /\ bound \in [Workers -> Nat]

Executed(s) == chain[s] \in {"success", "odd"}

(* The treasury pays an intent at most once: of all the transactions ever signed *)
(* for it, at most one executes on chain, whatever crashes, lease takeovers,     *)
(* lagging inspections and retries happen in between (runner.ts:24, 78-84).      *)
AtMostOnePayment ==
    \A s, t \in Sigs :
        sigFor[s] # NoIntent /\ sigFor[s] = sigFor[t] /\ Executed(s) /\ Executed(t) => s = t

(* The ledger debits the principal of an intent exactly when it calls the intent     *)
(* finalized, and then the chain really executed that intent's accounted transaction *)
(* (engine.ts:100-126).                                                              *)
DebitMatchesChain ==
    \A i \in Intents :
        /\ principal[i] = (IF istatus[i] = "finalized" THEN 0 ELSE 1)
        /\ istatus[i] = "finalized" =>
             \E s \in Sigs : sigFor[s] = i /\ att[s] = "finalized" /\ chain[s] = "success"

(* Signed work is serialized over the whole treasury: at most one attempt is           *)
(* unresolved, and the intents in flight are those that have one (runner.ts:37, 103).  *)
OneUnresolvedAttempt ==
    /\ \A s, t \in Sigs : att[s] \in Inflight /\ att[t] \in Inflight => s = t
    /\ \A i \in Intents : istatus[i] \in Inflight <=> Unresolved(i) # {}

(* What was authorized can still be paid when its outcome arrives: the shared cost     *)
(* account covers the bound of the unresolved attempt above the floor that may not be  *)
(* spent, and the principal is still there (runner.ts:33-36, engine.ts:92, 105).       *)
InflightFunded ==
    /\ cost >= Floor
    /\ \A s \in Sigs : att[s] \in Inflight => cost - Floor >= cap[s] /\ principal[sigFor[s]] = 1

(* Nothing reaches the network before its attempt row is durable: a restarted worker *)
(* finds every signature that can execute (runner.ts:46-60, 96).                     *)
SentIsDurable == \A s \in sent : att[s] # "none"

(* One on-chain debit is explained once: a signature is never both an operating        *)
(* expense and an execution attempt, in whichever order the two are recorded           *)
(* (runner.ts:47-54, developer.ts:249).                                                *)
SignatureAttributedOnce == \A s \in expensed : att[s] = "none"

(* A replacement is signed into the ledger only after every earlier attempt of the     *)
(* intent failed on chain for good; an expired or unknown one is never replaced        *)
(* (runner.ts:24-26, 78-84).                                                           *)
ReplacedOnlyAfterFailure ==
    [][\A s \in Sigs : att[s] = "none" /\ att'[s] # "none" =>
          \A t \in Sigs : sigFor[t] = sigFor'[s] => chain[t] = "failure"]_vars

(* Review is sticky: once an attempt needs review, only the finalized outcome of that  *)
(* same signature ends it (runner.ts:79-84).                                           *)
ReviewEndsByOutcome ==
    [][\A s \in Sigs : att[s] = "needs_review" /\ att'[s] # "needs_review" =>
          \/ att'[s] = "finalized" /\ chain[s] = "success"
          \/ att'[s] = "failed" /\ chain[s] = "failure"]_vars

(* A process whose lease expired or was granted to another, even to one with the same  *)
(* owner name, changes no intent, attempt or balance (store.ts:14).                    *)
StaleWritesNothing ==
    [][\A w \in Workers : ~Fenced(w) /\ pc'[w] # pc[w] => UNCHANGED ledgerVars]_vars

(* How an execution state is a state of the abstract payment lane. *)
Stage ==
    [i \in Intents |->
        IF istatus[i] = "finalized" THEN "settled"
        ELSE IF \E s \in Sigs : sigFor[s] = i /\ Executed(s) THEN "paid"
        ELSE IF Unresolved(i) # {} THEN "committed"
        ELSE "owed"]

Lane == INSTANCE PaymentLane WITH stage <- Stage

(* The execution loop implements the payment lane: every interleaving of processes,     *)
(* crashes, operators and chain is a sequence of single, exclusive payments             *)
(* (runner.ts:20-113, engine.ts:100-129).                                               *)
ImplementsLane == Lane!Spec

(* While execution is paused no attempt becomes durable (the reading of                *)
(* docs/BACKEND-CORRECTIONS.md:85; the code checks only before signing).               *)
NoNewAttemptWhilePaused ==
    [][paused => \A s \in Sigs : att[s] = "none" => att'[s] = "none"]_vars

=============================================================================
