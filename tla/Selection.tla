----------------------------- MODULE Selection -----------------------------
(***************************************************************************)
(* The current selection and what rests on it: AutomaticSelectionService   *)
(* (packages/integrations/automatic-selection.ts), the catalogue cache it  *)
(* reads through (ember.ts), the commitment of a round                     *)
(* (apps/worker/commit.ts) and the check of a purchase before it is signed *)
(* (apps/worker/main.ts).                                                  *)
(*                                                                         *)
(* JavaScript runs to the next await: an action is what happens between    *)
(* two awaits.  When a provider read settles, the reads that await it      *)
(* continue one after the other, in the order in which they began to wait, *)
(* before anything else happens (woken).                                   *)
(*                                                                         *)
(* What a top ten consists of is the business of Basket; here it is the    *)
(* version of the world it was taken from.  Time is counted in a unit of   *)
(* its own: what 45 seconds are in it is a parameter, like the policy's    *)
(* bound on the age of data.                                               *)
(***************************************************************************)
EXTENDS Integers, Sequences

CONSTANTS
    Callers,      \* concurrent callers of the service
    UseOf,        \* what each of them reads it for
    Budgets,      \* route budgets
    BudgetsOf,    \* the ones each caller asks for
    CacheTime,    \* 45 seconds
    MaxBackoff,   \* 300 seconds
    MaxDataAge,   \* policy.maxDataAgeSeconds
    MaxTime,      \* bound of the clock
    MaxVersion,   \* bound of the changes of the world
    Nothing       \* null

(* What is not ready (warming, stale, unavailable) authorizes nothing; whether ten of    *)
(* the assets of a ready one qualify is left to its reader.                              *)
Ready == [ready : {TRUE}, version : Nat, at : Nat, budget : Budgets]
NotReady == [ready |-> FALSE]
Observations == Ready \cup {NotReady}

(* A read of the provider that is under way. *)
Pending == [by : Callers, budget : Budgets, force : BOOLEAN,
            phase : {"catalogue", "evidence"}, version : Nat, at : Nat]

ASSUME SelectionConstants ==
    /\ CacheTime \in Nat \ {0} /\ MaxBackoff \in Nat
    /\ MaxDataAge \in Nat /\ MaxTime \in Nat /\ MaxVersion \in Nat
    /\ Nothing \notin Observations \cup Budgets \cup Pending
    /\ UseOf \in [Callers -> {"view", "swap", "commit"}]
    /\ BudgetsOf \in [Callers -> SUBSET Budgets]

VARIABLES
    now,          \* the clock
    world,        \* version of the chain and the sources
    catalogue,    \* EmberClient's cache of /markets
    (* the service *)
    last, attemptAt, failures, budget, pending,
    waiters,      \* callers that await pending, oldest first
    woken,        \* callers that awaited a read that has settled
    caller

serviceVars == <<last, attemptAt, failures, budget, pending, catalogue>>
worldVars == <<now, world>>
vars == <<worldVars, serviceVars, waiters, woken, caller>>

Steps == {"idle", "wait", "own", "got", "plan", "commit", "sign"}

Fresh(at, age) == now - at <= age

(* current(): a ready observation ages to a stale one, without its basket. *)
AgedUnchecked(observation) == observation

Aged(observation) ==
    IF observation.ready /\ ~Fresh(observation.at, MaxDataAge) THEN NotReady ELSE observation

Quiet == woken = <<>>
Free == [pc |-> "idle", budget |-> Nothing, since |-> 0, answer |-> Nothing]

Goto(c, step) == caller' = [caller EXCEPT ![c].pc = step]
Leave(c) == caller' = [caller EXCEPT ![c] = Free]

(* A call of read(): a commitment forces it, once it has been authorized. *)
Forced(c) == UseOf[c] = "commit"
Call(c, b) == [pc |-> "idle", budget |-> b, since |-> IF Forced(c) THEN world ELSE 0,
               answer |-> Nothing]

-----------------------------------------------------------------------------
(* read() *)

(* 45 seconds, doubled with each failure up to the third, at most 300. *)
Doubled == <<1, 2, 4, 8>>
Backoff ==
    LET wait == CacheTime * Doubled[failures + 1]
    IN  IF wait < MaxBackoff THEN wait ELSE MaxBackoff

MayAnswerFromCache(c, b) ==
    /\ ~Forced(c)
    /\ last # Nothing
    /\ budget = b
    /\ now - attemptAt < Backoff

(* current() as the result of c's read: the service keeps the aged observation, too. *)
AnswerCurrent(c, call) ==
    /\ last' = Aged(last)
    /\ caller' = [caller EXCEPT ![c] = [call EXCEPT !.pc = "got", !.answer = Aged(last)]]

Begins(c, call) ==
    /\ attemptAt' = now
    /\ budget' = call.budget
    /\ pending' = [by |-> c, budget |-> call.budget, force |-> Forced(c),
                   phase |-> "catalogue", version |-> world, at |-> 0]
    /\ caller' = [caller EXCEPT ![c] = [call EXCEPT !.pc = "own"]]

(* What follows the while loop. *)
AnswerOrBegin(c, call) ==
    /\ pending = Nothing
    /\ \/ /\ MayAnswerFromCache(c, call.budget)
          /\ AnswerCurrent(c, call)
          /\ UNCHANGED <<attemptAt, budget, pending>>
       \/ /\ ~MayAnswerFromCache(c, call.budget)
          /\ Begins(c, call)
          /\ UNCHANGED last
    /\ UNCHANGED <<failures, catalogue>>

Wait(c, call) ==
    /\ pending # Nothing
    /\ waiters' = Append(waiters, c)
    /\ caller' = [caller EXCEPT ![c] = [call EXCEPT !.pc = "wait"]]
    /\ UNCHANGED serviceVars

Read(c, b) ==
    /\ Quiet
    /\ caller[c].pc = "idle"
    /\ \/ Wait(c, Call(c, b))
       \/ AnswerOrBegin(c, Call(c, b)) /\ UNCHANGED waiters
    /\ UNCHANGED <<worldVars, woken>>

(* After the await: an ordinary read whose budget is the service's by now is answered    *)
(* with the current observation, whatever is pending again; the others look again.       *)
JoinedAnyone(c) == budget = caller[c].budget
Joined(c) == ~Forced(c) /\ budget = caller[c].budget

Wake(c) ==
    /\ woken # <<>> /\ c = Head(woken)
    /\ woken' = Tail(woken)
    /\ \/ /\ Joined(c)
          /\ AnswerCurrent(c, caller[c])
          /\ UNCHANGED <<attemptAt, failures, budget, pending, catalogue, waiters>>
       \/ ~Joined(c) /\ Wait(c, caller[c])
       \/ ~Joined(c) /\ AnswerOrBegin(c, caller[c]) /\ UNCHANGED waiters
    /\ UNCHANGED worldVars

-----------------------------------------------------------------------------
(* The provider *)

(* EmberClient.read(): an ordinary read may use a catalogue of less than 45 seconds. *)
UsesCache == ~pending.force /\ catalogue # Nothing /\ now - catalogue.at < CacheTime

(* A response shows the sources as they were while it was under way, and bears the time  *)
(* of its arrival.                                                                       *)
FetchCatalogue(seen) ==
    /\ Quiet
    /\ pending # Nothing /\ pending.phase = "catalogue"
    /\ seen \in pending.version..world
    /\ catalogue' = IF UsesCache THEN catalogue ELSE [version |-> seen, at |-> now]
    /\ pending' = [pending EXCEPT !.phase = "evidence", !.version = catalogue'.version,
                                  !.at = catalogue'.at]
    /\ UNCHANGED <<worldVars, last, attemptAt, failures, budget, waiters, woken, caller>>

(* Further failures do not lengthen the backoff. *)
FailOnce == IF failures < 3 /\ Backoff < MaxBackoff THEN failures + 1 ELSE failures

(* finally: nothing is pending any more, the caller has its answer, the waiters go on. *)
Settled(observation) ==
    /\ last' = observation
    /\ caller' = [caller EXCEPT ![pending.by].pc = "got", ![pending.by].answer = observation]
    /\ pending' = Nothing
    /\ woken' = waiters
    /\ waiters' = <<>>
    /\ UNCHANGED <<worldVars, attemptAt, budget, catalogue>>

(* Every current member is reported, with evidence for all of the gates (complete), or   *)
(* not: then the provider may ask for a retry.                                           *)
Succeed(complete, retryable) ==
    /\ Quiet
    /\ pending # Nothing /\ pending.phase = "evidence"
    /\ Fresh(pending.at, MaxDataAge)
    /\ retryable => ~complete
    /\ failures' = IF retryable THEN FailOnce ELSE 0
    /\ Settled(IF complete
               THEN [ready |-> TRUE, version |-> pending.version, at |-> pending.at,
                     budget |-> pending.budget]
               ELSE NotReady)

(* The previous observation is kept for display, but authorizes nothing any more. *)
FailUncaught ==
    /\ Quiet
    /\ pending # Nothing
    /\ failures' = FailOnce
    /\ last' = NotReady
    /\ caller' = [caller EXCEPT ![pending.by].pc = "got", ![pending.by].answer = NotReady]
    /\ UNCHANGED <<worldVars, attemptAt, budget, catalogue, pending, waiters, woken>>

Fail ==
    /\ Quiet
    /\ pending # Nothing
    /\ failures' = FailOnce
    /\ Settled(NotReady)

-----------------------------------------------------------------------------
(* The callers *)

(* The worker observes its view. *)
Observe(c) ==
    /\ Quiet
    /\ caller[c].pc = "got" /\ UseOf[c] = "view"
    /\ Leave(c)
    /\ UNCHANGED <<worldVars, serviceVars, waiters, woken>>

(* revalidateBasket(): every gate holds of the ten now, and every route was verified for *)
(* the purchase of this budget.  It may also fail on the data.                           *)
Verified(c) ==
    LET seen == caller[c].answer IN
    /\ seen.ready
    /\ Fresh(seen.at, MaxDataAge)
    /\ seen.budget = caller[c].budget

Revalidate(c) ==
    /\ Quiet
    /\ caller[c].pc = "got" /\ UseOf[c] = "commit"
    /\ \/ Verified(c) /\ Goto(c, "plan")
       \/ Leave(c)
    /\ UNCHANGED <<worldVars, serviceVars, waiters, woken>>

(* Engine.plan() selects from the basket's universe again and revalidates it for the     *)
(* budget, among other checks; its transaction is Treasury's.                            *)
Plannable(c) == Verified(c)

(* The snapshot and the price are captured and the commitment is authorized again, all   *)
(* of which may fail, and the round is planned.                                          *)
Plan(c) ==
    /\ Quiet
    /\ caller[c].pc = "plan"
    /\ \/ Plannable(c) /\ Goto(c, "commit")
       \/ Leave(c)
    /\ UNCHANGED <<worldVars, serviceVars, waiters, woken>>

Done(c) ==
    /\ Quiet
    /\ caller[c].pc \in {"commit", "sign"}
    /\ Leave(c)
    /\ UNCHANGED <<worldVars, serviceVars, waiters, woken>>

(* conditions() of a purchase: its asset is a member, still without a reason against it, *)
(* and its route was verified for this amount.                                           *)
MemberQualifiesForAnyAmount(c) ==
    LET seen == caller[c].answer IN
    /\ seen.ready
    /\ Fresh(seen.at, MaxDataAge)

MemberQualifies(c) ==
    LET seen == caller[c].answer IN
    /\ seen.ready
    /\ Fresh(seen.at, MaxDataAge)
    /\ seen.budget = caller[c].budget

CheckPurchase(c) ==
    /\ Quiet
    /\ caller[c].pc = "got" /\ UseOf[c] = "swap"
    /\ \/ MemberQualifies(c) /\ Goto(c, "sign")
       \/ Leave(c)                                    \* the asset is no member any more
    /\ UNCHANGED <<worldVars, serviceVars, waiters, woken>>

-----------------------------------------------------------------------------
(* The environment *)

Tick ==
    /\ Quiet
    /\ now < MaxTime
    /\ now' = now + 1
    /\ UNCHANGED <<world, serviceVars, waiters, woken, caller>>

WorldChanges ==
    /\ Quiet
    /\ world < MaxVersion
    /\ world' = world + 1
    /\ UNCHANGED <<now, serviceVars, waiters, woken, caller>>

Init ==
    /\ now = 0 /\ world = 0
    /\ last = Nothing /\ attemptAt = 0 /\ failures = 0 /\ budget = Nothing
    /\ pending = Nothing /\ catalogue = Nothing
    /\ waiters = <<>> /\ woken = <<>>
    /\ caller = [c \in Callers |-> Free]

Provider ==
    \/ \E seen \in 0..MaxVersion : FetchCatalogue(seen)
    \/ \E complete, retryable \in BOOLEAN : Succeed(complete, retryable)
    \/ Fail

CallerStep(c) ==
    \/ \E b \in BudgetsOf[c] : Read(c, b)
    \/ Wake(c) \/ Observe(c)
    \/ Revalidate(c) \/ Plan(c)
    \/ CheckPurchase(c) \/ Done(c)

Next ==
    \/ Provider
    \/ \E c \in Callers : CallerStep(c)
    \/ Tick \/ WorldChanges

Spec == Init /\ [][Next]_vars

(* Every request of the provider has a timeout, and a promise's continuations run. *)
Continuation == \E c \in Callers : Wake(c)
FairSpec == Spec /\ WF_vars(Provider \/ Continuation)

-----------------------------------------------------------------------------
(* Properties *)

CallerRecords ==
    [pc : Steps, budget : Budgets \cup {Nothing}, since : Nat,
     answer : Observations \cup {Nothing}]

(* The variables stay within their types. *)
TypeOK ==
    /\ now \in Nat /\ world \in Nat
    /\ catalogue \in [version : Nat, at : Nat] \cup {Nothing}
    /\ last \in Observations \cup {Nothing}
    /\ attemptAt \in Nat /\ failures \in 0..3 /\ budget \in Budgets \cup {Nothing}
    /\ pending \in Pending \cup {Nothing}
    /\ waiters \in Seq(Callers) /\ woken \in Seq(Callers)
    /\ caller \in [Callers -> CallerRecords]

PastRevalidation == {"plan", "commit"}

(* A round is committed to the top ten of a catalogue that was requested after the       *)
(* commitment had been authorized, complete, and with routes verified for its own leg:   *)
(* neither a cached observation, nor the answer to a concurrent read of another budget,  *)
(* nor the read that was already pending can stand in (automatic-selection.ts:25).       *)
CommitIsCurrent ==
    \A c \in Callers : caller[c].pc \in PastRevalidation =>
        /\ caller[c].answer.ready
        /\ caller[c].answer.version >= caller[c].since
        /\ caller[c].answer.budget = caller[c].budget

(* A purchase is signed only on routes verified for exactly its amount, although a read  *)
(* that waited through two others may be answered with the observation of another        *)
(* budget.                                                                               *)
SwapsRouteTheirOwnAmount ==
    \A c \in Callers : caller[c].pc = "sign" =>
        /\ caller[c].answer.ready
        /\ caller[c].answer.budget = caller[c].budget

(* Nobody is told that a selection is ready when its catalogue is older than the policy  *)
(* allows, whether it was read, joined or cached.                                        *)
ReadyIsFresh ==
    [][\A c \in Callers :
          caller'[c].pc = "got" /\ caller[c].pc # "got" /\ caller'[c].answer.ready
            => Fresh(caller'[c].answer.at, MaxDataAge)]_vars

(* Every read is answered: no settled read leaves a caller waiting, and a forced one is  *)
(* not overtaken for ever by the others.                                                 *)
EveryReadIsAnswered ==
    \A c \in Callers : caller[c].pc \in {"wait", "own"} ~> caller[c].pc = "got"

=============================================================================
