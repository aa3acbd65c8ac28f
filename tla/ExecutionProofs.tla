--------------------------- MODULE ExecutionProofs ---------------------------
(***************************************************************************)
(* Proofs about Execution for every set of processes, intents and          *)
(* signatures, every bound and every allowance: type correctness, the      *)
(* inductive invariant, and the safety properties that follow from it.     *)
(***************************************************************************)
EXTENDS ExecutionInvariant, FiniteSetTheorems, TLAPS

-----------------------------------------------------------------------------
(* Type correctness *)

(* Moving an intent to the back of the attempt order yields an order again. *)
LEMMA MoveToBackType ==
    ASSUME TypeOK, NEW i
    PROVE  MoveToBack(i) \in [Intents -> Int]
<1>1. Cardinality(Intents) \in Int
  BY FS_CardinalityType, RanksAreNatural
<1>. QED
  BY <1>1 DEF MoveToBack, TypeOK

(* The types of the processes' memory. *)
LocalsOK ==
    /\ pc \in [Workers -> Steps]
    /\ cur \in [Workers -> Intents \cup {NoIntent}]
    /\ sig \in [Workers -> Sigs \cup {NoSig}]
    /\ todo \in [Workers -> SUBSET Intents]
    /\ phase \in [Workers -> Phases]
    /\ review \in [Workers -> BOOLEAN]
    /\ bound \in [Workers -> Nat]

(* Leaving the intent, or the tick, leaves well-typed process memory. *)
LEMMA LocalsType ==
    ASSUME TypeOK, NEW w \in Workers, GoIdle(w) \/ Return(w) \/ \E step \in Steps : Goto(w, step)
    PROVE  LocalsOK'
<1>1. GoIdle(w) => LocalsOK'
  BY DEF GoIdle, TypeOK, Steps, Phases, LocalsOK
<1>2. CASE Return(w)
  <2>1. CASE phase[w] = "job"
    BY <1>1, <1>2, <2>1 DEF Return
  <2>2. CASE phase[w] # "job"
    <3>1. /\ pc' = [pc EXCEPT ![w] = "next"]
          /\ cur' = [cur EXCEPT ![w] = NoIntent]
          /\ sig' = [sig EXCEPT ![w] = NoSig]
          /\ review' = [review EXCEPT ![w] = FALSE]
          /\ bound' = [bound EXCEPT ![w] = 0]
          /\ todo' = todo /\ phase' = phase
      BY <1>2, <2>2 DEF Return
    <3>. QED
      BY <3>1 DEF TypeOK, Steps, LocalsOK
  <2>. QED
    BY <2>1, <2>2
<1>3. CASE \E step \in Steps : Goto(w, step)
  BY <1>3 DEF Goto, TypeOK, LocalsOK
<1>. QED
  BY <1>1, <1>2, <1>3
(* Choosing the attempt to inspect, or to create one, keeps the process memory typed. *)
LEMMA BeginType ==
    ASSUME TypeOK, NEW w \in Workers, NEW i \in Intents, Begin(w, i)
    PROVE  /\ pc' \in [Workers -> Steps]
           /\ cur' \in [Workers -> Intents \cup {NoIntent}]
           /\ sig' \in [Workers -> Sigs \cup {NoSig}]
           /\ review' \in [Workers -> BOOLEAN]
<1>1. cur' \in [Workers -> Intents \cup {NoIntent}]
  BY DEF Begin, TypeOK
<1>2. CASE \E s \in Current(i) :
              /\ sig' = [sig EXCEPT ![w] = s]
              /\ review' = [review EXCEPT ![w] = UnderReview(i, s)]
              /\ pc' = [pc EXCEPT ![w] = "inspect"]
  <2>1. PICK s \in Current(i) :
              /\ sig' = [sig EXCEPT ![w] = s]
              /\ review' = [review EXCEPT ![w] = UnderReview(i, s)]
              /\ pc' = [pc EXCEPT ![w] = "inspect"]
    BY <1>2
  <2>2. s \in Sigs
    BY DEF Current
  <2>3. UnderReview(i, s) \in BOOLEAN
    BY Zenon DEF UnderReview
  <2>. QED
    BY <1>1, <2>1, <2>2, <2>3 DEF TypeOK, Steps
<1>3. CASE pc' = [pc EXCEPT ![w] = "authorize"] /\ UNCHANGED <<sig, review>>
  BY <1>1, <1>3 DEF TypeOK, Steps
<1>. QED
  BY <1>2, <1>3 DEF Begin

(* Every step preserves the type invariant. *)
LEMMA TypeStep == IndInv /\ [Next]_vars => TypeOK'
<1>. SUFFICES ASSUME IndInv, [Next]_vars
              PROVE  TypeOK'
  OBVIOUS
<1>. TypeOK
  BY DEF IndInv
<1>. USE DEF leaseVars, controlVars, ledgerVars, chainVars, localVars
<1>1. ASSUME NEW w \in Workers, NEW ph \in Phases, StartTick(w, ph)
     PROVE  TypeOK'
  <2>1. {i \in Intents : istatus[i] \in Inflight} \in SUBSET Intents
    OBVIOUS
  <2>. QED
    BY <1>1, <2>1 DEF StartTick, Grant, Steps, Phases, TypeOK
<1>2. ASSUME NEW w \in Workers, NEW s \in Sigs, StartRecovery(w, s)
     PROVE  TypeOK'
  <2>1. sigFor[s] \in Intents
    BY <1>2 DEF StartRecovery, IndInv, LedgerInv, RowsAreComplete, TypeOK
  <2>. QED
    BY <1>2, <2>1 DEF StartRecovery, Grant, Steps, Phases, TypeOK
<1>3. ASSUME NEW w \in Workers, NEW i \in Intents, TakeInflight(w, i)
     PROVE  TypeOK'
  <2>1. Begin(w, i)
    BY <1>3 DEF TakeInflight
  <2>. QED
    BY <1>3, <2>1, BeginType DEF TakeInflight, Begin, Phases, TypeOK
<1>4. ASSUME NEW w \in Workers, NEW i \in Intents, SkipInflight(w, i)
     PROVE  TypeOK'
  BY <1>4 DEF SkipInflight, TypeOK
<1>5. ASSUME NEW w \in Workers, NEW i \in Intents, TakeJob(w, i)
     PROVE  TypeOK'
  <2>1. Begin(w, i)
    BY <1>5 DEF TakeJob
  <2>. QED
    BY <1>5, <2>1, BeginType DEF TakeJob, Begin, Phases, TypeOK
<1>6. ASSUME NEW w \in Workers, EndTick(w)
     PROVE  TypeOK'
  <2>1. LocalsOK'
    BY <1>6, LocalsType DEF EndTick, Steps
  <2>. QED
    BY <1>6, <2>1 DEF EndTick, TypeOK, LocalsOK
<1>7. ASSUME NEW w \in Workers, NEW s \in Sigs, NEW rent \in Rents, AuthorizeAndSign(w, s, rent)
     PROVE  TypeOK'
  BY <1>7, AmountsAreNatural DEF AuthorizeAndSign, Steps, TypeOK
<1>8. ASSUME NEW w \in Workers, Persist(w)
     PROVE  TypeOK'
  <2>1. LocalsOK'
    BY <1>8, LocalsType DEF Persist, Steps
  <2>. QED
    BY <1>8, <2>1, MoveToBackType DEF Persist, AttemptStatuses, IntentStatuses, TypeOK, LocalsOK
<1>9. ASSUME NEW w \in Workers, PersistAttributed(w)
     PROVE  TypeOK'
  <2>1. LocalsOK'
    BY <1>9, LocalsType DEF PersistAttributed, Steps
  <2>. QED
    BY <1>9, <2>1, MoveToBackType DEF PersistAttributed, Postpone, OpenIncident, IncidentKinds, IntentStatuses, TypeOK, LocalsOK
<1>10. ASSUME NEW w \in Workers, Defer(w)
     PROVE  TypeOK'
  <2>1. LocalsOK'
    BY <1>10, LocalsType DEF Defer, Steps
  <2>. QED
    BY <1>10, <2>1, MoveToBackType DEF Defer, Postpone, IntentStatuses, TypeOK, LocalsOK
<1>11. ASSUME NEW w \in Workers, DeferThrows(w)
     PROVE  TypeOK'
  <2>1. LocalsOK'
    BY <1>11, LocalsType DEF DeferThrows, Steps
  <2>. QED
    BY <1>11, <2>1 DEF DeferThrows, TypeOK, LocalsOK
<1>12. ASSUME NEW w \in Workers, InspectSuccess(w)
     PROVE  TypeOK'
  <2>1. LocalsOK'
    BY <1>12, LocalsType DEF InspectSuccess, Steps
  <2>. QED
    BY <1>12, <2>1 DEF InspectSuccess, TypeOK, LocalsOK
<1>13. ASSUME NEW w \in Workers, InspectFailure(w)
     PROVE  TypeOK'
  <2>1. LocalsOK'
    BY <1>13, LocalsType DEF InspectFailure, Steps
  <2>. QED
    BY <1>13, <2>1 DEF InspectFailure, TypeOK, LocalsOK
<1>14. ASSUME NEW w \in Workers, InspectUnknown(w)
     PROVE  TypeOK'
  <2>1. LocalsOK'
    BY <1>14, LocalsType DEF InspectUnknown, Steps
  <2>. QED
    BY <1>14, <2>1 DEF InspectUnknown, TypeOK, LocalsOK
<1>15. ASSUME NEW w \in Workers, InspectExpired(w)
     PROVE  TypeOK'
  BY <1>15 DEF InspectExpired, Steps, TypeOK
<1>16. ASSUME NEW w \in Workers, InspectThrows(w)
     PROVE  TypeOK'
  <2>1. LocalsOK'
    BY <1>16, LocalsType DEF InspectThrows, Steps
  <2>. QED
    BY <1>16, <2>1 DEF InspectThrows, TypeOK, LocalsOK
<1>17. ASSUME NEW w \in Workers, Settle(w)
     PROVE  TypeOK'
  <2>1. LocalsOK'
    BY <1>17, LocalsType DEF Settle
  <2>2. cost' \in Int
    BY <1>17, AmountsAreNatural DEF Settle, TypeOK
  <2>3. principal' \in [Intents -> Int]
    <3>1. principal' = [principal EXCEPT ![cur[w]] = principal[cur[w]] - 1]
      BY <1>17 DEF Settle
    <3>2. cur[w] \in Intents
      BY <1>17 DEF Settle, IndInv, WorkerInv, HandlesItsOwn, Handling, Inspecting
    <3>. QED
      BY <3>1, <3>2 DEF TypeOK
  <2>. QED
    BY <1>17, <2>1, <2>2, <2>3 DEF Settle, AttemptStatuses, IntentStatuses, TypeOK, LocalsOK
<1>19. ASSUME NEW w \in Workers, SettleThrows(w)
     PROVE  TypeOK'
  <2>1. LocalsOK'
    BY <1>19, LocalsType DEF SettleThrows, Steps
  <2>. QED
    BY <1>19, <2>1 DEF SettleThrows, TypeOK, LocalsOK
<1>20. ASSUME NEW w \in Workers, RecordIncident(w)
     PROVE  TypeOK'
  <2>1. LocalsOK'
    BY <1>20, LocalsType DEF RecordIncident, Steps
  <2>. QED
    BY <1>20, <2>1 DEF RecordIncident, OpenIncident, IncidentKinds, TypeOK, LocalsOK
<1>21. ASSUME NEW w \in Workers, RecordFailure(w)
     PROVE  TypeOK'
  <2>1. LocalsOK'
    BY <1>21, LocalsType DEF RecordFailure
  <2>2. cost' \in Int
    BY <1>21, AmountsAreNatural DEF RecordFailure, TypeOK
  <2>. QED
    BY <1>21, <2>1, <2>2, MoveToBackType DEF RecordFailure, Postpone, AttemptStatuses, IntentStatuses, TypeOK, LocalsOK
<1>22. ASSUME NEW w \in Workers, RecordFailureThrows(w)
     PROVE  TypeOK'
  <2>1. LocalsOK'
    BY <1>22, LocalsType DEF RecordFailureThrows, Steps
  <2>. QED
    BY <1>22, <2>1 DEF RecordFailureThrows, TypeOK, LocalsOK
<1>23. ASSUME NEW w \in Workers, RecordUnknown(w)
     PROVE  TypeOK'
  <2>1. LocalsOK'
    BY <1>23, LocalsType DEF RecordUnknown, Steps
  <2>. QED
    BY <1>23, <2>1 DEF RecordUnknown, NotedStatus, AttemptStatuses, IntentStatuses, TypeOK, LocalsOK
<1>24. ASSUME NEW w \in Workers, RecordUnknownThrows(w)
     PROVE  TypeOK'
  <2>1. LocalsOK'
    BY <1>24, LocalsType DEF RecordUnknownThrows, Steps
  <2>. QED
    BY <1>24, <2>1 DEF RecordUnknownThrows, TypeOK, LocalsOK
<1>25. ASSUME NEW w \in Workers, AuthorizeBroadcast(w)
     PROVE  TypeOK'
  <2>1. LocalsOK'
    BY <1>25, LocalsType DEF AuthorizeBroadcast, Steps
  <2>. QED
    BY <1>25, <2>1 DEF AuthorizeBroadcast, TypeOK, LocalsOK
<1>26. ASSUME NEW w \in Workers, DoNotSend(w)
     PROVE  TypeOK'
  <2>1. LocalsOK'
    BY <1>26, LocalsType DEF DoNotSend, Steps
  <2>. QED
    BY <1>26, <2>1 DEF DoNotSend, TypeOK, LocalsOK
<1>27. ASSUME NEW w \in Workers, Send(w)
     PROVE  TypeOK'
  <2>1. LocalsOK'
    BY <1>27, LocalsType DEF Send
  <2>2. sig[w] \in Sigs
    BY <1>27 DEF Send, IndInv, WorkerInv, HandlesItsOwn, Handling
  <2>. QED
    BY <1>27, <2>1, <2>2 DEF Send, TypeOK, LocalsOK
<1>28. ASSUME Environment
      PROVE  TypeOK'
  <2>1. CASE LeaseExpires
    BY <2>1 DEF LeaseExpires, TypeOK
  <2>2. ASSUME NEW w \in Workers, Crash(w)
        PROVE  TypeOK'
    <3>1. LocalsOK'
      BY <2>2, LocalsType DEF Crash
    <3>. QED
      BY <2>2, <3>1 DEF Crash, TypeOK, LocalsOK
  <2>3. ASSUME NEW i \in Intents, FallsDue(i)
        PROVE  TypeOK'
    BY <2>3 DEF FallsDue, TypeOK
  <2>4. CASE OperatorPause \/ OperatorResume
    BY <2>4 DEF OperatorPause, OperatorResume, TypeOK
  <2>5. ASSUME NEW kind \in IncidentKinds, ResolveIncident(kind)
        PROVE  TypeOK'
    BY <2>5 DEF ResolveIncident, TypeOK
  <2>6. ASSUME NEW s \in Sigs, RecordExpense(s)
        PROVE  TypeOK'
    BY <2>6 DEF RecordExpense, TypeOK
  <2>7. ASSUME NEW s \in Sigs, NEW outcome \in Outcomes, Land(s, outcome)
        PROVE  TypeOK'
    BY <2>7 DEF Land, TypeOK
  <2>8. ASSUME NEW s \in Sigs, Lapse(s)
        PROVE  TypeOK'
    BY <2>8 DEF Lapse, TypeOK
  <2>. QED
    BY <1>28, <2>1, <2>2, <2>3, <2>4, <2>5, <2>6, <2>7, <2>8 DEF Environment
<1>29. CASE UNCHANGED vars
  BY <1>29 DEF vars, TypeOK
<1>. QED
  BY <1>1, <1>2, <1>3, <1>4, <1>5, <1>6, <1>7, <1>8, <1>9, <1>10, <1>11,
     <1>12, <1>13, <1>14, <1>15, <1>16, <1>17, <1>19, <1>20, <1>21,
     <1>22, <1>23, <1>24, <1>25, <1>26, <1>27, <1>28, <1>29
     DEF Next, Loop, Prepare, Resolve
(* Type correctness is an invariant only together with what the processes know: a   *)
(* process in the middle of a tick holds a real intent and a real signature.        *)
LEMMA TypeInit == Init => TypeOK
<1>1. Rank0 \in [Intents -> Int]
  BY RanksAreNatural, FS_CardinalityType
<1>2. Init => LocalsOK
  BY DEF Init, LocalsOK, Steps, Phases
<1>3. Init => /\ istatus \in [Intents -> IntentStatuses]
              /\ att \in [Sigs -> AttemptStatuses]
              /\ chain \in [Sigs -> Outcomes]
  BY DEF Init, IntentStatuses, AttemptStatuses, Outcomes
<1>4. Init => /\ cap \in [Sigs -> Nat]
              /\ principal \in [Intents -> Int]
              /\ due \in [Intents -> BOOLEAN]
              /\ sigFor \in [Sigs -> Intents \cup {NoIntent}]
  BY DEF Init
<1>5. Init => cost \in Int
  BY AmountsAreNatural DEF Init
<1>6. Init => rank \in [Intents -> Int]
  BY <1>1 DEF Init
<1>7. Init => /\ leaseOwner \in Workers \cup {Manual, NoWorker}
              /\ leaseHolder \in Workers \cup {NoWorker}
              /\ paused \in BOOLEAN
              /\ incidents \in SUBSET IncidentKinds
              /\ expensed \in SUBSET Sigs /\ sent \in SUBSET Sigs /\ lapsed \in SUBSET Sigs
  BY DEF Init
<1>. QED
  BY <1>2, <1>3, <1>4, <1>5, <1>6, <1>7 DEF TypeOK, LocalsOK

-----------------------------------------------------------------------------
(* What processes know *)

(* The process memory the invariant speaks of. *)
Memory(v) == <<pc[v], cur[v], sig[v], review[v], bound[v]>>

(* Outside of an intent a process knows nothing. *)
LEMMA AtRest ==
    ASSUME NEW w \in Workers, pc'[w] \in {"idle", "next"}
    PROVE  HandlesItsOwn(w)' /\ FenceProtects(w)'
  BY DEF HandlesItsOwn, FenceProtects, Preparing, Handling, Inspecting

(* A process that returns from an intent is at rest, and touches no other memory. *)
LEMMA Leaving ==
    ASSUME TypeOK, NEW w \in Workers, GoIdle(w) \/ Return(w)
    PROVE  /\ pc'[w] \in {"idle", "next"}
           /\ \A v \in Workers \ {w} : Memory(v)' = Memory(v)
<1>1. GoIdle(w) => /\ pc'[w] \in {"idle", "next"}
                   /\ \A v \in Workers \ {w} : Memory(v)' = Memory(v)
  BY DEF GoIdle, TypeOK, Memory
<1>2. CASE Return(w) /\ phase[w] # "job"
  <2>1. /\ pc' = [pc EXCEPT ![w] = "next"]
        /\ cur' = [cur EXCEPT ![w] = NoIntent]
        /\ sig' = [sig EXCEPT ![w] = NoSig]
        /\ review' = [review EXCEPT ![w] = FALSE]
        /\ bound' = [bound EXCEPT ![w] = 0]
    BY <1>2 DEF Return
  <2>. QED
    BY <2>1 DEF TypeOK, Memory
<1>3. CASE Return(w) /\ phase[w] = "job"
  BY <1>1, <1>3 DEF Return
<1>. QED
  BY <1>1, <1>2, <1>3

(* A process that only moves on keeps its memory, as do the others. *)
LEMMA Moving ==
    ASSUME TypeOK, NEW w \in Workers, NEW step, Goto(w, step)
    PROVE  /\ pc'[w] = step /\ cur' = cur /\ sig' = sig /\ review' = review /\ bound' = bound
           /\ \A v \in Workers \ {w} : Memory(v)' = Memory(v)
  BY DEF Goto, TypeOK, Memory

(* What v knows survives the steps of others: its memory is its own, rows keep their *)
(* intent, outcomes are final, and the ledger only changes under the newest fence.   *)
LEMMA Bystander ==
    ASSUME IndInv, NEW v \in Workers,
           Memory(v)' = Memory(v),
           \A s \in Sigs : sigFor[s] # NoIntent => sigFor'[s] = sigFor[s],
           \A s \in Sigs : chain[s] # "absent" => chain'[s] = chain[s],
           leaseHolder' = v => leaseHolder = v /\ UNCHANGED <<istatus, att, sigFor, cost>>
    PROVE  HandlesItsOwn(v)' /\ FenceProtects(v)'
<1>1. /\ pc'[v] = pc[v] /\ cur'[v] = cur[v] /\ sig'[v] = sig[v]
      /\ review'[v] = review[v] /\ bound'[v] = bound[v]
  BY DEF Memory
<1>2. HandlesItsOwn(v) /\ FenceProtects(v)
  BY DEF IndInv, WorkerInv
<1>3. HandlesItsOwn(v)'
  <2>1. pc[v] \in Handling =>
           /\ sig[v] \in Sigs /\ sigFor[sig[v]] # NoIntent
           /\ sigFor'[sig[v]] = sigFor[sig[v]]
    BY <1>2, ConstantsDiffer DEF HandlesItsOwn
  <2>2. pc[v] \in {"settle", "incident", "fail"} =>
           chain[sig[v]] # "absent" /\ chain'[sig[v]] = chain[sig[v]]
    BY <1>2, <2>1 DEF HandlesItsOwn, Executed, Handling, Inspecting
  <2>. QED
    BY <1>1, <1>2, <2>1, <2>2 DEF HandlesItsOwn, Executed
<1>4. FenceProtects(v)'
  <2>1. SUFFICES ASSUME leaseHolder' = v PROVE FenceProtects(v)'
    BY DEF FenceProtects, Fenced
  <2>2. leaseHolder = v /\ istatus' = istatus /\ att' = att /\ sigFor' = sigFor /\ cost' = cost
    BY <2>1
  <2>. QED
    BY <1>1, <1>2, <2>1, <2>2 DEF FenceProtects, Fenced, Live
<1>. QED
  BY <1>3, <1>4

(* A step of w inside an intent that leaves the ledger alone and ends the intent. *)
LEMMA QuietLeave ==
    ASSUME IndInv, NEW w \in Workers, NEW v \in Workers, GoIdle(w) \/ Return(w),
           UNCHANGED <<istatus, att, sigFor, cost, chain, leaseHolder>>
    PROVE  HandlesItsOwn(v)' /\ FenceProtects(v)'
<1>. TypeOK
  BY DEF IndInv
<1>1. CASE v = w
  BY <1>1, Leaving, AtRest
<1>2. CASE v # w
  BY <1>2, Leaving, Bystander
<1>. QED
  BY <1>1, <1>2

(* Reading an intent and its live attempt: what is then known of them. *)
LEMMA BeginKnows ==
    ASSUME IndInv, NEW w \in Workers, NEW i \in Intents, Begin(w, i)
    PROVE  HandlesItsOwn(w)' /\ FenceProtects(w)'
<1>. TypeOK
  BY DEF IndInv
<1>0. /\ cur'[w] = i /\ istatus[i] # "finalized" /\ istatus' = istatus /\ att' = att
      /\ sigFor' = sigFor
  BY DEF Begin, TypeOK, ledgerVars
<1>1. ASSUME NEW s \in Current(i), sig' = [sig EXCEPT ![w] = s],
             review' = [review EXCEPT ![w] = UnderReview(i, s)],
             pc' = [pc EXCEPT ![w] = "inspect"]
      PROVE  HandlesItsOwn(w)' /\ FenceProtects(w)'
  <2>1. s \in Sigs /\ sigFor[s] = i /\ att[s] \notin {"none", "failed"}
    BY DEF Current
  <2>2. att[s] \in Inflight
    BY <1>0, <2>1 DEF IndInv, LedgerInv, ChainIsKnown, TypeOK, AttemptStatuses, Inflight
  <2>3. /\ pc'[w] = "inspect" /\ sig'[w] = s
        /\ att[s] = "needs_review" => review'[w]
    BY <1>1 DEF TypeOK, UnderReview
  <2>. QED
    BY <1>0, <2>1, <2>2, <2>3
       DEF HandlesItsOwn, FenceProtects, Preparing, Handling, Inspecting
<1>2. ASSUME Current(i) = {}, pc' = [pc EXCEPT ![w] = "authorize"]
      PROVE  HandlesItsOwn(w)' /\ FenceProtects(w)'
  <2>1. pc'[w] = "authorize"
    BY <1>2 DEF TypeOK
  <2>2. \A s \in Sigs : sigFor[s] = i => att[s] \in {"none", "failed"}
    BY <1>2 DEF Current
  <2>. QED
    BY <1>0, <2>1, <2>2 DEF HandlesItsOwn, FenceProtects, Live, Preparing, Handling, Inspecting
<1>. QED
  BY <1>1, <1>2 DEF Begin

(* What every process knows is preserved by every step. *)
LEMMA WorkerStep == IndInv /\ [Next]_vars => WorkerInv'
<1>. SUFFICES ASSUME IndInv, [Next]_vars, NEW v \in Workers
              PROVE  HandlesItsOwn(v)' /\ FenceProtects(v)'
  BY DEF WorkerInv
<1>. TypeOK /\ HandlesItsOwn(v) /\ FenceProtects(v)
  BY DEF IndInv, WorkerInv
<1>. USE DEF leaseVars, controlVars, ledgerVars, chainVars, localVars
<1>1. ASSUME NEW w \in Workers, EndTick(w)
     PROVE  HandlesItsOwn(v)' /\ FenceProtects(v)'
  BY <1>1, QuietLeave DEF EndTick
<1>2. ASSUME NEW w \in Workers, DeferThrows(w)
     PROVE  HandlesItsOwn(v)' /\ FenceProtects(v)'
  BY <1>2, QuietLeave DEF DeferThrows
<1>3. ASSUME NEW w \in Workers, InspectThrows(w)
     PROVE  HandlesItsOwn(v)' /\ FenceProtects(v)'
  BY <1>3, QuietLeave DEF InspectThrows
<1>5. ASSUME NEW w \in Workers, RecordIncident(w)
     PROVE  HandlesItsOwn(v)' /\ FenceProtects(v)'
  BY <1>5, QuietLeave DEF RecordIncident
<1>6. ASSUME NEW w \in Workers, RecordFailureThrows(w)
     PROVE  HandlesItsOwn(v)' /\ FenceProtects(v)'
  BY <1>6, QuietLeave DEF RecordFailureThrows
<1>7. ASSUME NEW w \in Workers, RecordUnknownThrows(w)
     PROVE  HandlesItsOwn(v)' /\ FenceProtects(v)'
  BY <1>7, QuietLeave DEF RecordUnknownThrows
<1>8. ASSUME NEW w \in Workers, DoNotSend(w)
     PROVE  HandlesItsOwn(v)' /\ FenceProtects(v)'
  BY <1>8, QuietLeave DEF DoNotSend
<1>9. ASSUME NEW w \in Workers, Send(w)
     PROVE  HandlesItsOwn(v)' /\ FenceProtects(v)'
  BY <1>9, QuietLeave DEF Send
<1>10. ASSUME NEW w \in Workers, NEW ph \in Phases, StartTick(w, ph)
     PROVE  HandlesItsOwn(v)' /\ FenceProtects(v)'
  <2>1. CASE v = w
    BY <1>10, <2>1, AtRest DEF StartTick, Grant, TypeOK
  <2>2. CASE v # w
    <3>1. Memory(v)' = Memory(v)
      BY <1>10, <2>2 DEF StartTick, Grant, Memory, TypeOK
    <3>. QED
      BY <1>10, <2>2, <3>1, Bystander DEF StartTick, Grant
  <2>. QED
    BY <2>1, <2>2
<1>11. ASSUME NEW w \in Workers, NEW s \in Sigs, StartRecovery(w, s)
     PROVE  HandlesItsOwn(v)' /\ FenceProtects(v)'
  <2>1. CASE v = w
    BY <1>11, <2>1, AtRest DEF StartRecovery, Grant, TypeOK
  <2>2. CASE v # w
    <3>1. Memory(v)' = Memory(v)
      BY <1>11, <2>2 DEF StartRecovery, Grant, Memory, TypeOK
    <3>. QED
      BY <1>11, <2>2, <3>1, Bystander DEF StartRecovery, Grant
  <2>. QED
    BY <2>1, <2>2
<1>12. ASSUME NEW w \in Workers, NEW i \in Intents, SkipInflight(w, i)
     PROVE  HandlesItsOwn(v)' /\ FenceProtects(v)'
  <2>1. CASE v = w
    BY <1>12, <2>1, AtRest DEF SkipInflight, TypeOK
  <2>2. CASE v # w
    <3>1. Memory(v)' = Memory(v)
      BY <1>12, <2>2 DEF SkipInflight, Memory, TypeOK
    <3>. QED
      BY <1>12, <2>2, <3>1, Bystander DEF SkipInflight
  <2>. QED
    BY <2>1, <2>2
<1>13. ASSUME NEW w \in Workers, InspectSuccess(w)
     PROVE  HandlesItsOwn(v)' /\ FenceProtects(v)'
  <2>1. CASE v = w
    <3>1. HandlesItsOwn(v)'
      BY <1>13, <2>1, Moving DEF InspectSuccess, HandlesItsOwn, Executed, Preparing, Handling, Inspecting
    <3>2. FenceProtects(v)'
      BY <1>13, <2>1, Moving DEF InspectSuccess, FenceProtects, Fenced, Preparing, Inspecting
    <3>. QED
      BY <3>1, <3>2
  <2>2. CASE v # w
    BY <1>13, <2>2, Moving, Bystander DEF InspectSuccess
  <2>. QED
    BY <2>1, <2>2
<1>14. ASSUME NEW w \in Workers, InspectFailure(w)
     PROVE  HandlesItsOwn(v)' /\ FenceProtects(v)'
  <2>1. CASE v = w
    <3>1. HandlesItsOwn(v)'
      BY <1>14, <2>1, Moving DEF InspectFailure, HandlesItsOwn, Executed, Preparing, Handling, Inspecting
    <3>2. FenceProtects(v)'
      BY <1>14, <2>1, Moving DEF InspectFailure, FenceProtects, Fenced, Preparing, Inspecting
    <3>. QED
      BY <3>1, <3>2
  <2>2. CASE v # w
    BY <1>14, <2>2, Moving, Bystander DEF InspectFailure
  <2>. QED
    BY <2>1, <2>2
<1>15. ASSUME NEW w \in Workers, InspectUnknown(w)
     PROVE  HandlesItsOwn(v)' /\ FenceProtects(v)'
  <2>1. CASE v = w
    <3>1. HandlesItsOwn(v)'
      BY <1>15, <2>1, Moving DEF InspectUnknown, HandlesItsOwn, Executed, Preparing, Handling, Inspecting
    <3>2. FenceProtects(v)'
      BY <1>15, <2>1, Moving DEF InspectUnknown, FenceProtects, Fenced, Preparing, Inspecting
    <3>. QED
      BY <3>1, <3>2
  <2>2. CASE v # w
    BY <1>15, <2>2, Moving, Bystander DEF InspectUnknown
  <2>. QED
    BY <2>1, <2>2
<1>16. ASSUME NEW w \in Workers, SettleThrows(w)
     PROVE  HandlesItsOwn(v)' /\ FenceProtects(v)'
  <2>1. CASE v = w
    <3>1. HandlesItsOwn(v)'
      BY <1>16, <2>1, Moving DEF SettleThrows, HandlesItsOwn, Executed, Preparing, Handling, Inspecting
    <3>2. FenceProtects(v)'
      BY <1>16, <2>1, Moving DEF SettleThrows, FenceProtects, Fenced, Preparing, Inspecting
    <3>. QED
      BY <3>1, <3>2
  <2>2. CASE v # w
    BY <1>16, <2>2, Moving, Bystander DEF SettleThrows
  <2>. QED
    BY <2>1, <2>2
<1>17. ASSUME NEW w \in Workers, AuthorizeBroadcast(w)
     PROVE  HandlesItsOwn(v)' /\ FenceProtects(v)'
  <2>1. CASE v = w
    <3>1. HandlesItsOwn(v)'
      BY <1>17, <2>1, Moving DEF AuthorizeBroadcast, HandlesItsOwn, Executed, Preparing, Handling, Inspecting
    <3>2. FenceProtects(v)'
      BY <1>17, <2>1, Moving DEF AuthorizeBroadcast, FenceProtects, Fenced, Preparing, Inspecting
    <3>. QED
      BY <3>1, <3>2
  <2>2. CASE v # w
    BY <1>17, <2>2, Moving, Bystander DEF AuthorizeBroadcast
  <2>. QED
    BY <2>1, <2>2
<1>18. ASSUME NEW w \in Workers, PersistAttributed(w)
     PROVE  HandlesItsOwn(v)' /\ FenceProtects(v)'
  <2>1. CASE v = w
    BY <1>18, <2>1, Leaving, AtRest DEF PersistAttributed
  <2>2. CASE v # w
    BY <1>18, <2>2, Leaving, Bystander DEF PersistAttributed, Fenced
  <2>. QED
    BY <2>1, <2>2
<1>19. ASSUME NEW w \in Workers, Defer(w)
     PROVE  HandlesItsOwn(v)' /\ FenceProtects(v)'
  <2>1. CASE v = w
    BY <1>19, <2>1, Leaving, AtRest DEF Defer
  <2>2. CASE v # w
    BY <1>19, <2>2, Leaving, Bystander DEF Defer, Fenced
  <2>. QED
    BY <2>1, <2>2
<1>20. ASSUME NEW w \in Workers, Settle(w)
     PROVE  HandlesItsOwn(v)' /\ FenceProtects(v)'
  <2>1. CASE v = w
    BY <1>20, <2>1, Leaving, AtRest DEF Settle
  <2>2. CASE v # w
    BY <1>20, <2>2, Leaving, Bystander DEF Settle, Settleable, Fenced
  <2>. QED
    BY <2>1, <2>2
<1>21. ASSUME NEW w \in Workers, RecordFailure(w)
     PROVE  HandlesItsOwn(v)' /\ FenceProtects(v)'
  <2>1. CASE v = w
    BY <1>21, <2>1, Leaving, AtRest DEF RecordFailure
  <2>2. CASE v # w
    BY <1>21, <2>2, Leaving, Bystander DEF RecordFailure, Fenced
  <2>. QED
    BY <2>1, <2>2
<1>22. ASSUME NEW w \in Workers, NEW i \in Intents, TakeInflight(w, i)
     PROVE  HandlesItsOwn(v)' /\ FenceProtects(v)'
  <2>0. Begin(w, i)
    BY <1>22 DEF TakeInflight
  <2>1. CASE v = w
    BY <2>0, <2>1, BeginKnows
  <2>2. CASE v # w
    <3>1. Memory(v)' = Memory(v)
      BY <2>0, <2>2 DEF Begin, Memory, TypeOK
    <3>. QED
      BY <2>0, <2>2, <3>1, Bystander DEF Begin
  <2>. QED
    BY <2>1, <2>2
<1>23. ASSUME NEW w \in Workers, NEW i \in Intents, TakeJob(w, i)
     PROVE  HandlesItsOwn(v)' /\ FenceProtects(v)'
  <2>0. Begin(w, i)
    BY <1>23 DEF TakeJob
  <2>1. CASE v = w
    BY <2>0, <2>1, BeginKnows
  <2>2. CASE v # w
    <3>1. Memory(v)' = Memory(v)
      BY <2>0, <2>2 DEF Begin, Memory, TypeOK
    <3>. QED
      BY <2>0, <2>2, <3>1, Bystander DEF Begin
  <2>. QED
    BY <2>1, <2>2
<1>24. ASSUME NEW w \in Workers, NEW s \in Sigs, NEW rent \in Rents, AuthorizeAndSign(w, s, rent)
     PROVE  HandlesItsOwn(v)' /\ FenceProtects(v)'
  <2>0. /\ pc[w] = "authorize" /\ pc' = [pc EXCEPT ![w] = "persist"]
        /\ sig' = [sig EXCEPT ![w] = s] /\ bound' = [bound EXCEPT ![w] = FeeCap + rent]
        /\ cur' = cur /\ review' = review /\ Affordable(rent) /\ ~Busy(cur[w]) /\ leaseHolder = w
        /\ leaseHolder' = leaseHolder /\ UNCHANGED <<istatus, att, sigFor, cost, chain>>
    BY <1>24 DEF AuthorizeAndSign, Fenced
  <2>1. CASE v = w
    <3>1. /\ pc'[w] = "persist" /\ sig'[w] = s /\ bound'[w] = FeeCap + rent
          /\ cur[w] \in Intents
      BY <2>0, <2>1 DEF TypeOK, HandlesItsOwn, Preparing
    <3>2. HandlesItsOwn(w)'
      BY <2>0, <3>1, AmountsAreNatural DEF HandlesItsOwn, Handling, Inspecting, Preparing
    <3>3. /\ istatus[cur[w]] # "finalized"
          /\ \A t \in Sigs : sigFor[t] = cur[w] => ~Live(t)
      BY <2>0, <2>1 DEF FenceProtects, Fenced, Preparing
    <3>4. \A t \in Sigs : att[t] \notin Inflight
      <4>1. SUFFICES ASSUME NEW t \in Sigs, att[t] \in Inflight PROVE FALSE
        OBVIOUS
      <4>2. sigFor[t] \in Intents
        BY <4>1 DEF IndInv, LedgerInv, RowsAreComplete, TypeOK, Inflight
      <4>3. istatus[sigFor[t]] \in Inflight
        BY <4>1, <4>2 DEF IndInv, LedgerInv, OneUnresolvedAttempt, Unresolved
      <4>4. sigFor[t] # cur[w]
        BY <3>3, <4>1 DEF Live, Inflight
      <4>. QED
        BY <2>0, <4>2, <4>3, <4>4 DEF Busy
    <3>5. FeeCap + rent <= cost - Floor
      BY <2>0 DEF Affordable
    <3>. QED
      BY <2>0, <2>1, <3>1, <3>2, <3>3, <3>4, <3>5 DEF FenceProtects, Live, Inspecting
  <2>2. CASE v # w
    <3>1. Memory(v)' = Memory(v)
      BY <2>0, <2>2 DEF Memory, TypeOK
    <3>. QED
      BY <2>0, <2>2, <3>1, Bystander
  <2>. QED
    BY <2>1, <2>2
<1>25. ASSUME NEW w \in Workers, Persist(w)
     PROVE  HandlesItsOwn(v)' /\ FenceProtects(v)'
  <2>0. /\ pc[w] = "persist" /\ leaseHolder = w /\ Goto(w, "inspect") /\ att[sig[w]] = "none"
        /\ att' = [att EXCEPT ![sig[w]] = "signed"]
        /\ sigFor' = [sigFor EXCEPT ![sig[w]] = cur[w]]
        /\ chain' = chain /\ leaseHolder' = leaseHolder
    BY <1>25 DEF Persist, Persistable, Fenced
  <2>1. CASE v = w
    <3>1. pc'[w] = "inspect" /\ sig' = sig /\ cur' = cur
      BY <2>0, Moving
    <3>2. sig[w] \in Sigs /\ cur[w] \in Intents
      BY <2>0, <2>1 DEF HandlesItsOwn, Preparing
    <3>3. att'[sig[w]] = "signed" /\ sigFor'[sig[w]] = cur[w]
      BY <2>0, <3>2 DEF TypeOK
    <3>. QED
      BY <2>1, <3>1, <3>2, <3>3
         DEF HandlesItsOwn, FenceProtects, Preparing, Handling, Inspecting, Inflight
  <2>2. CASE v # w
    <3>1. \A s \in Sigs : sigFor[s] # NoIntent => sigFor'[s] = sigFor[s]
      BY <2>0 DEF IndInv, LedgerInv, RowsAreComplete, TypeOK
    <3>. QED
      BY <2>0, <2>2, <3>1, Moving, Bystander
  <2>. QED
    BY <2>1, <2>2
<1>26. ASSUME NEW w \in Workers, InspectExpired(w)
     PROVE  HandlesItsOwn(v)' /\ FenceProtects(v)'
  <2>0. /\ pc[w] = "inspect" /\ pc' = [pc EXCEPT ![w] = "note"]
        /\ review' = [review EXCEPT ![w] = TRUE]
        /\ UNCHANGED <<leaseHolder, istatus, att, sigFor, cost, chain, cur, sig, bound>>
    BY <1>26 DEF InspectExpired
  <2>1. CASE v = w
    BY <2>0, <2>1 DEF HandlesItsOwn, FenceProtects, Fenced, Preparing, Handling, Inspecting, TypeOK
  <2>2. CASE v # w
    <3>1. Memory(v)' = Memory(v)
      BY <2>0, <2>2 DEF Memory, TypeOK
    <3>. QED
      BY <2>0, <2>2, <3>1, Bystander
  <2>. QED
    BY <2>1, <2>2
<1>27. ASSUME NEW w \in Workers, RecordUnknown(w)
     PROVE  HandlesItsOwn(v)' /\ FenceProtects(v)'
  <2>0. /\ pc[w] = "note" /\ leaseHolder = w /\ leaseHolder' = leaseHolder
        /\ UNCHANGED <<sigFor, chain>>
    BY <1>27 DEF RecordUnknown, Fenced
  <2>1. CASE Return(w)
    <3>1. CASE v = w
      BY <2>1, <3>1, Leaving, AtRest
    <3>2. CASE v # w
      BY <2>0, <2>1, <3>2, Leaving, Bystander
    <3>. QED
      BY <3>1, <3>2
  <2>2. CASE Goto(w, "broadcast")
    <3>1. CASE v = w
      BY <2>0, <2>2, <3>1, Moving DEF HandlesItsOwn, FenceProtects, Preparing, Handling, Inspecting
    <3>2. CASE v # w
      BY <2>0, <2>2, <3>2, Moving, Bystander
    <3>. QED
      BY <3>1, <3>2
  <2>. QED
    BY <1>27, <2>1, <2>2 DEF RecordUnknown
<1>28. ASSUME NEW w \in Workers, Crash(w)
     PROVE  HandlesItsOwn(v)' /\ FenceProtects(v)'
  BY <1>28, QuietLeave DEF Crash
<1>29. CASE
           \/ LeaseExpires
           \/ OperatorPause \/ OperatorResume
           \/ \E i \in Intents : FallsDue(i)
           \/ \E kind \in IncidentKinds : ResolveIncident(kind)
           \/ \E s \in Sigs : RecordExpense(s)
           \/ \E s \in Sigs : Lapse(s)
  <2>1. Memory(v)' = Memory(v)
    BY <1>29 DEF LeaseExpires, OperatorPause, OperatorResume, FallsDue, ResolveIncident,
                 RecordExpense, Lapse, Memory
  <2>2. UNCHANGED <<istatus, att, sigFor, cost, chain>>
    BY <1>29 DEF LeaseExpires, OperatorPause, OperatorResume, FallsDue, ResolveIncident,
                 RecordExpense, Lapse
  <2>3. leaseHolder' \in {leaseHolder, NoWorker}
    BY <1>29 DEF LeaseExpires, OperatorPause, OperatorResume, FallsDue, ResolveIncident,
                 RecordExpense, Lapse
  <2>. QED
    BY <2>1, <2>2, <2>3, Bystander, ConstantsDiffer
<1>30. ASSUME NEW s \in Sigs, NEW outcome \in Outcomes, Land(s, outcome)
     PROVE  HandlesItsOwn(v)' /\ FenceProtects(v)'
  <2>1. Memory(v)' = Memory(v) /\ UNCHANGED <<istatus, att, sigFor, cost, leaseHolder>>
    BY <1>30 DEF Land, Memory
  <2>2. \A t \in Sigs : chain[t] # "absent" => chain'[t] = chain[t]
    BY <1>30 DEF Land, TypeOK
  <2>. QED
    BY <2>1, <2>2, Bystander
<1>31. CASE UNCHANGED vars
  <2>1. Memory(v)' = Memory(v) /\ UNCHANGED <<istatus, att, sigFor, cost, chain, leaseHolder>>
    BY <1>31 DEF vars, Memory
  <2>. QED
    BY <2>1, Bystander
<1>32. CASE Environment
  <2>1. CASE \E w \in Workers : Crash(w)
    BY <2>1, <1>28
  <2>2. CASE \E s \in Sigs, outcome \in Outcomes : Land(s, outcome)
    BY <2>2, <1>30
  <2>3. CASE ~(\E w \in Workers : Crash(w)) /\ ~(\E s \in Sigs, outcome \in Outcomes : Land(s, outcome))
    BY <1>32, <2>3, <1>29 DEF Environment
  <2>. QED
    BY <2>1, <2>2, <2>3
<1>. QED
  BY <1>1, <1>2, <1>3, <1>5, <1>6, <1>7, <1>8, <1>9, <1>10, <1>11,
     <1>12, <1>13, <1>14, <1>15, <1>16, <1>17, <1>18, <1>19, <1>20, <1>21,
     <1>22, <1>23, <1>24, <1>25, <1>26, <1>27, <1>31, <1>32
     DEF Next, Loop, Prepare, Resolve
-----------------------------------------------------------------------------
(* The ledger and the chain *)

(* The ledger invariant speaks of the ledger and the chain only. *)
LEMMA LedgerFrozen ==
    ASSUME IndInv, UNCHANGED <<istatus, att, sigFor, cap, principal, cost, sent, chain>>
    PROVE  LedgerInv'
  BY DEF IndInv, LedgerInv, RowsAreComplete, ChainIsKnown, SentIsDurable, OneLiveAttempt, Live,
         OneUnresolvedAttempt, Unresolved, DebitMatchesChain, InflightFunded

(* Deferring an unsigned intent that is not finalized. *)
LEMMA Deferral ==
    ASSUME IndInv, NEW i \in Intents, Unresolved(i) = {}, istatus[i] # "finalized",
           istatus' = [istatus EXCEPT ![i] = "waiting_for_route"],
           UNCHANGED <<att, sigFor, cap, principal, cost, sent, chain>>
    PROVE  LedgerInv'
<1>. TypeOK /\ LedgerInv
  BY DEF IndInv
<1>1. RowsAreComplete' /\ OneLiveAttempt' /\ InflightFunded'
  BY DEF LedgerInv, RowsAreComplete, OneLiveAttempt, Live, InflightFunded
<1>2. ChainIsKnown'
  BY DEF LedgerInv, RowsAreComplete, ChainIsKnown, SentIsDurable, TypeOK
<1>3. OneUnresolvedAttempt'
  <2>1. \A j \in Intents : Unresolved(j)' = Unresolved(j)
    BY DEF Unresolved
  <2>. QED
    BY <2>1 DEF LedgerInv, OneUnresolvedAttempt, TypeOK, Inflight
<1>4. DebitMatchesChain'
  BY DEF LedgerInv, DebitMatchesChain, TypeOK
<1>. QED
  BY <1>1, <1>2, <1>3, <1>4 DEF LedgerInv

(* The signed attempt of an intent that had no live one, while nothing is in flight. *)
LEMMA Storing ==
    ASSUME IndInv, NEW w \in Workers, Persist(w), NEW i, i = cur[w], NEW s, s = sig[w]
    PROVE  LedgerInv'
<1>. TypeOK /\ LedgerInv
  BY DEF IndInv
<1>0. /\ s \in Sigs /\ i \in Intents /\ att[s] = "none" /\ bound[w] >= FeeCap
      /\ istatus[i] # "finalized"
      /\ \A t \in Sigs : sigFor[t] = i => ~Live(t)
      /\ \A t \in Sigs : att[t] \notin Inflight
      /\ bound[w] <= cost - Floor
  BY DEF Persist, Persistable, IndInv, WorkerInv, HandlesItsOwn, FenceProtects, Preparing
<1>1. /\ att' = [att EXCEPT ![s] = "signed"]
      /\ sigFor' = [sigFor EXCEPT ![s] = i]
      /\ cap' = [cap EXCEPT ![s] = bound[w]]
      /\ istatus' = [istatus EXCEPT ![i] = "signed"]
      /\ UNCHANGED <<principal, cost, sent, chain>>
  BY DEF Persist, chainVars
<1>2. \A t \in Sigs \ {s} : att'[t] = att[t] /\ sigFor'[t] = sigFor[t] /\ cap'[t] = cap[t]
  BY <1>1 DEF TypeOK
<1>3. att'[s] = "signed" /\ sigFor'[s] = i /\ cap'[s] = bound[w] /\ sigFor[s] = NoIntent
  BY <1>0, <1>1 DEF TypeOK, LedgerInv, RowsAreComplete
<1>4. istatus'[i] = "signed" /\ \A j \in Intents \ {i} : istatus'[j] = istatus[j]
  BY <1>0, <1>1 DEF TypeOK
<1>5. RowsAreComplete'
  BY <1>0, <1>2, <1>3, ConstantsDiffer DEF LedgerInv, RowsAreComplete
<1>6. ChainIsKnown'
  <2>1. s \notin sent /\ chain[s] = "absent"
    BY <1>0 DEF LedgerInv, ChainIsKnown, SentIsDurable
  <2>2. \A t \in Sigs : att'[t] = "finalized" => t # s /\ sigFor[t] \in Intents \ {i}
    <3>1. SUFFICES ASSUME NEW t \in Sigs, att'[t] = "finalized"
                   PROVE  t # s /\ sigFor[t] \in Intents \ {i}
      OBVIOUS
    <3>2. t # s /\ att[t] = "finalized"
      BY <1>2, <1>3, <3>1
    <3>. QED
      BY <1>0, <3>2 DEF Live, LedgerInv, RowsAreComplete, TypeOK
  <2>3. SentIsDurable' /\ \A t \in Sigs : chain'[t] # "absent" => t \in sent'
    BY <1>1, <1>2, <1>3 DEF LedgerInv, ChainIsKnown, SentIsDurable, TypeOK
  <2>4. \A t \in Sigs : att'[t] = "failed" => chain'[t] = "failure"
    BY <1>1, <1>2, <1>3 DEF LedgerInv, ChainIsKnown
  <2>5. \A t \in Sigs : att'[t] = "finalized" =>
           chain'[t] = "success" /\ istatus'[sigFor'[t]] = "finalized"
    BY <1>1, <1>2, <1>4, <2>2 DEF LedgerInv, ChainIsKnown
  <2>. QED
    BY <2>3, <2>4, <2>5 DEF ChainIsKnown
<1>7. OneLiveAttempt'
  BY <1>0, <1>2, <1>3 DEF LedgerInv, OneLiveAttempt, Live
<1>8. OneUnresolvedAttempt'
  <2>1. \A t \in Sigs : att'[t] \in Inflight <=> t = s
    BY <1>0, <1>2, <1>3 DEF Inflight
  <2>2. s \in Unresolved(i)' /\ \A j \in Intents \ {i} : Unresolved(j)' = {}
    BY <1>0, <1>3, <2>1 DEF Unresolved
  <2>3. \A j \in Intents \ {i} : istatus[j] \notin Inflight
    BY <1>0 DEF LedgerInv, OneUnresolvedAttempt, Unresolved
  <2>. QED
    BY <1>0, <1>4, <2>1, <2>2, <2>3 DEF OneUnresolvedAttempt, Inflight
<1>9. DebitMatchesChain'
  <2>1. SUFFICES ASSUME NEW j \in Intents
                 PROVE  /\ principal'[j] = (IF istatus'[j] = "finalized" THEN 0 ELSE 1)
                        /\ istatus'[j] = "finalized" =>
                             \E t \in Sigs : sigFor'[t] = j /\ att'[t] = "finalized" /\ chain'[t] = "success"
    BY DEF DebitMatchesChain
  <2>2. istatus'[j] = "finalized" <=> istatus[j] = "finalized"
    BY <1>0, <1>4
  <2>3. ASSUME istatus[j] = "finalized"
        PROVE  \E t \in Sigs : sigFor'[t] = j /\ att'[t] = "finalized" /\ chain'[t] = "success"
    <3>1. PICK t \in Sigs : sigFor[t] = j /\ att[t] = "finalized" /\ chain[t] = "success"
      BY <2>3 DEF LedgerInv, DebitMatchesChain
    <3>2. t # s
      BY <1>0, <3>1
    <3>. QED
      BY <1>1, <1>2, <3>1, <3>2
  <2>. QED
    BY <1>1, <2>2, <2>3 DEF LedgerInv, DebitMatchesChain
<1>10. InflightFunded'
  <2>1. principal[i] = 1
    BY <1>0 DEF LedgerInv, DebitMatchesChain
  <2>. QED
    BY <1>0, <1>1, <1>2, <1>3, <2>1 DEF LedgerInv, InflightFunded, Inflight
<1>. QED
  BY <1>5, <1>6, <1>7, <1>8, <1>9, <1>10 DEF LedgerInv

(* What a fenced process that inspected an attempt knows of the ledger. *)
LEMMA Resolving ==
    ASSUME IndInv, NEW w \in Workers, Fenced(w), pc[w] \in Inspecting,
           NEW i, i = cur[w], NEW s, s = sig[w]
    PROVE  /\ s \in Sigs /\ i \in Intents /\ sigFor[s] = i /\ att[s] \in Inflight
           /\ istatus[i] \in Inflight /\ principal[i] = 1
           /\ \A t \in Sigs \ {s} : att[t] \notin Inflight
           /\ \A j \in Intents \ {i} : istatus[j] \notin Inflight
           /\ cap[s] <= cost - Floor /\ FeeCap <= cap[s]
<1>1. s \in Sigs /\ i \in Intents /\ sigFor[s] = i /\ att[s] \in Inflight
  BY DEF IndInv, WorkerInv, HandlesItsOwn, FenceProtects, Handling
<1>2. \A t \in Sigs \ {s} : att[t] \notin Inflight
  BY <1>1 DEF IndInv, LedgerInv, OneUnresolvedAttempt
<1>3. istatus[i] \in Inflight /\ \A j \in Intents \ {i} : istatus[j] \notin Inflight
  BY <1>1, <1>2 DEF IndInv, LedgerInv, OneUnresolvedAttempt, Unresolved
<1>4. principal[i] = 1 /\ cap[s] <= cost - Floor /\ FeeCap <= cap[s]
  BY <1>1 DEF IndInv, TypeOK, LedgerInv, InflightFunded, RowsAreComplete, Inflight
<1>. QED
  BY <1>1, <1>2, <1>3, <1>4

(* A note on an unresolved attempt leaves it the only unresolved one. *)
LEMMA Noting ==
    ASSUME IndInv, NEW w \in Workers, RecordUnknown(w), NEW i, i = cur[w], NEW s, s = sig[w]
    PROVE  LedgerInv'
<1>. TypeOK /\ LedgerInv
  BY DEF IndInv
<1>. DEFINE noted == NotedStatus(w)
<1>0. /\ s \in Sigs /\ i \in Intents /\ sigFor[s] = i /\ att[s] \in Inflight
      /\ istatus[i] \in Inflight
      /\ \A t \in Sigs \ {s} : att[t] \notin Inflight
      /\ \A j \in Intents \ {i} : istatus[j] \notin Inflight
  BY Resolving DEF RecordUnknown, Inspecting
<1>. PICK new \in Inflight : new = noted
  BY DEF NotedStatus, Inflight
<1>1. /\ att' = [att EXCEPT ![s] = new]
      /\ istatus' = [istatus EXCEPT ![i] = new]
      /\ UNCHANGED <<sigFor, cap, principal, cost, sent, chain>>
  BY DEF RecordUnknown, chainVars
<1>2. att'[s] = new /\ \A t \in Sigs \ {s} : att'[t] = att[t]
  BY <1>0, <1>1 DEF TypeOK
<1>3. istatus'[i] = new /\ \A j \in Intents \ {i} : istatus'[j] = istatus[j]
  BY <1>0, <1>1 DEF TypeOK
<1>4. RowsAreComplete'
  BY <1>0, <1>1, <1>2 DEF LedgerInv, RowsAreComplete, Inflight
<1>5. ChainIsKnown'
  <2>1. SentIsDurable' /\ \A t \in Sigs : chain'[t] # "absent" => t \in sent'
    BY <1>1, <1>2 DEF LedgerInv, ChainIsKnown, SentIsDurable, TypeOK, Inflight
  <2>2. \A t \in Sigs : att'[t] = "failed" => chain'[t] = "failure"
    BY <1>1, <1>2 DEF LedgerInv, ChainIsKnown, Inflight
  <2>3. \A t \in Sigs : att'[t] = "finalized" =>
           chain'[t] = "success" /\ istatus'[sigFor'[t]] = "finalized"
    <3>1. SUFFICES ASSUME NEW t \in Sigs, att'[t] = "finalized"
                   PROVE  chain'[t] = "success" /\ istatus'[sigFor'[t]] = "finalized"
      OBVIOUS
    <3>2. att[t] = "finalized" /\ sigFor[t] \in Intents
      BY <1>2, <3>1 DEF Inflight, LedgerInv, RowsAreComplete, TypeOK
    <3>3. chain[t] = "success" /\ istatus[sigFor[t]] = "finalized"
      BY <3>2 DEF LedgerInv, ChainIsKnown
    <3>4. sigFor[t] # i
      BY <1>0, <3>3 DEF Inflight
    <3>. QED
      BY <1>1, <1>3, <3>2, <3>3, <3>4
  <2>. QED
    BY <2>1, <2>2, <2>3 DEF ChainIsKnown
<1>6. OneLiveAttempt'
  <2>1. \A t \in Sigs : Live(t)' <=> Live(t)
    BY <1>0, <1>2 DEF Live, Inflight
  <2>. QED
    BY <1>1, <2>1 DEF LedgerInv, OneLiveAttempt
<1>7. OneUnresolvedAttempt'
  <2>1. \A t \in Sigs : att'[t] \in Inflight <=> t = s
    BY <1>0, <1>2
  <2>2. s \in Unresolved(i)' /\ \A j \in Intents \ {i} : Unresolved(j)' = {}
    BY <1>0, <1>1, <2>1 DEF Unresolved
  <2>. QED
    BY <1>0, <1>3, <2>1, <2>2 DEF OneUnresolvedAttempt
<1>8. DebitMatchesChain'
  <2>1. \A j \in Intents : istatus'[j] = "finalized" <=> istatus[j] = "finalized"
    BY <1>0, <1>3 DEF Inflight
  <2>2. \A t \in Sigs : att[t] = "finalized" => att'[t] = "finalized"
    BY <1>0, <1>2 DEF Inflight
  <2>. QED
    BY <1>1, <2>1, <2>2 DEF LedgerInv, DebitMatchesChain
<1>9. InflightFunded'
  BY <1>0, <1>1, <1>2 DEF LedgerInv, InflightFunded
<1>. QED
  BY <1>4, <1>5, <1>6, <1>7, <1>8, <1>9 DEF LedgerInv

(* Closing the only unresolved attempt, as failed for good or as settled. *)
LEMMA Closing ==
    ASSUME IndInv, NEW w \in Workers, NEW i, i = cur[w], NEW s, s = sig[w],
           Fenced(w), pc[w] \in Inspecting,
           NEW outcome \in {"failed", "finalized"},
           att' = [att EXCEPT ![s] = outcome],
           istatus' = [istatus EXCEPT ![i] =
                         IF outcome = "failed" THEN "waiting_for_route" ELSE "finalized"],
           principal' = [principal EXCEPT ![i] = IF outcome = "failed" THEN 1 ELSE 0],
           chain[s] = (IF outcome = "failed" THEN "failure" ELSE "success"),
           NEW paid \in Nat, paid <= cap[s], cost' = cost - paid,
           UNCHANGED <<sigFor, cap, sent, chain>>
    PROVE  LedgerInv'
<1>. TypeOK /\ LedgerInv
  BY DEF IndInv
<1>0. /\ s \in Sigs /\ i \in Intents /\ sigFor[s] = i /\ att[s] \in Inflight
      /\ istatus[i] \in Inflight /\ principal[i] = 1
      /\ \A t \in Sigs \ {s} : att[t] \notin Inflight
      /\ \A j \in Intents \ {i} : istatus[j] \notin Inflight
      /\ cap[s] <= cost - Floor
  BY Resolving
<1>2. att'[s] = outcome /\ \A t \in Sigs \ {s} : att'[t] = att[t]
  BY <1>0 DEF TypeOK
<1>3. /\ istatus'[i] = (IF outcome = "failed" THEN "waiting_for_route" ELSE "finalized")
      /\ \A j \in Intents \ {i} : istatus'[j] = istatus[j]
  BY <1>0 DEF TypeOK
<1>4. RowsAreComplete'
  BY <1>0, <1>2 DEF LedgerInv, RowsAreComplete, Inflight
<1>5. ChainIsKnown'
  <2>1. SentIsDurable' /\ \A t \in Sigs : chain'[t] # "absent" => t \in sent'
    BY <1>0, <1>2 DEF LedgerInv, ChainIsKnown, SentIsDurable, TypeOK, Inflight
  <2>2. \A t \in Sigs : att'[t] = "failed" => chain'[t] = "failure"
    BY <1>2 DEF LedgerInv, ChainIsKnown
  <2>3. \A t \in Sigs : att'[t] = "finalized" =>
           chain'[t] = "success" /\ istatus'[sigFor'[t]] = "finalized"
    <3>1. SUFFICES ASSUME NEW t \in Sigs \ {s}, att'[t] = "finalized"
                   PROVE  chain'[t] = "success" /\ istatus'[sigFor'[t]] = "finalized"
      BY <1>0, <1>2, <1>3
    <3>2. att[t] = "finalized" /\ sigFor[t] \in Intents
      BY <1>2, <3>1 DEF LedgerInv, RowsAreComplete, TypeOK
    <3>3. chain[t] = "success" /\ istatus[sigFor[t]] = "finalized"
      BY <3>2 DEF LedgerInv, ChainIsKnown
    <3>4. sigFor[t] # i
      BY <1>0, <3>3 DEF Inflight
    <3>. QED
      BY <1>3, <3>2, <3>3, <3>4
  <2>. QED
    BY <2>1, <2>2, <2>3 DEF ChainIsKnown
<1>6. OneLiveAttempt'
  <2>1. \A t \in Sigs : Live(t)' => Live(t)
    BY <1>0, <1>2 DEF Live, Inflight
  <2>. QED
    BY <2>1 DEF LedgerInv, OneLiveAttempt
<1>7. OneUnresolvedAttempt'
  <2>1. \A t \in Sigs : att'[t] \notin Inflight
    BY <1>0, <1>2 DEF Inflight
  <2>2. \A j \in Intents : Unresolved(j)' = {}
    BY <2>1 DEF Unresolved
  <2>3. \A j \in Intents : istatus'[j] \notin Inflight
    BY <1>0, <1>3 DEF Inflight
  <2>. QED
    BY <2>1, <2>2, <2>3 DEF OneUnresolvedAttempt
<1>8. DebitMatchesChain'
  <2>1. ASSUME NEW j \in Intents
        PROVE  principal'[j] = (IF istatus'[j] = "finalized" THEN 0 ELSE 1)
    BY <1>0, <1>3 DEF LedgerInv, DebitMatchesChain, TypeOK
  <2>2. ASSUME NEW j \in Intents, istatus'[j] = "finalized"
        PROVE  \E t \in Sigs : sigFor'[t] = j /\ att'[t] = "finalized" /\ chain'[t] = "success"
    <3>1. CASE j = i
      BY <1>0, <1>2, <1>3, <2>2, <3>1
    <3>2. CASE j # i
      <4>1. PICK t \in Sigs : sigFor[t] = j /\ att[t] = "finalized" /\ chain[t] = "success"
        BY <1>3, <2>2, <3>2 DEF LedgerInv, DebitMatchesChain
      <4>. QED
        BY <1>0, <1>2, <3>2, <4>1
    <3>. QED
      BY <3>1, <3>2
  <2>. QED
    BY <2>1, <2>2 DEF DebitMatchesChain
<1>9. InflightFunded'
  <2>1. \A t \in Sigs : att'[t] \notin Inflight
    BY <1>0, <1>2 DEF Inflight
  <2>2. cost' >= Floor
    BY <1>0, AmountsAreNatural DEF TypeOK
  <2>. QED
    BY <2>1, <2>2 DEF InflightFunded
<1>. QED
  BY <1>4, <1>5, <1>6, <1>7, <1>8, <1>9 DEF LedgerInv

(* The ledger invariant is preserved by every step. *)
LEMMA LedgerStep == IndInv /\ [Next]_vars => LedgerInv'
<1>. SUFFICES ASSUME IndInv, [Next]_vars
              PROVE  LedgerInv'
  OBVIOUS
<1>. TypeOK /\ LedgerInv /\ \A w \in Workers : HandlesItsOwn(w) /\ FenceProtects(w)
  BY DEF IndInv, WorkerInv
<1>. USE DEF leaseVars, controlVars, ledgerVars, chainVars, localVars
<1>1. ASSUME NEW w \in Workers, Loop(w)
      PROVE  LedgerInv'
  <2>1. UNCHANGED ledgerVars /\ UNCHANGED chainVars
    BY <1>1 DEF Loop, StartTick, StartRecovery, TakeInflight, SkipInflight, TakeJob, EndTick, Begin
  <2>. QED
    BY <2>1, LedgerFrozen
<1>2. ASSUME NEW w \in Workers,
             \/ \E s \in Sigs, rent \in Rents : AuthorizeAndSign(w, s, rent)
             \/ DeferThrows(w)
             \/ InspectSuccess(w) \/ InspectFailure(w) \/ InspectUnknown(w)
             \/ InspectExpired(w) \/ InspectThrows(w)
             \/ SettleThrows(w) \/ RecordIncident(w)
             \/ RecordFailureThrows(w) \/ RecordUnknownThrows(w)
             \/ AuthorizeBroadcast(w) \/ DoNotSend(w)
      PROVE  LedgerInv'
  <2>1. UNCHANGED ledgerVars /\ UNCHANGED chainVars
    BY <1>2 DEF AuthorizeAndSign, DeferThrows, InspectSuccess, InspectFailure, InspectUnknown,
                InspectExpired, InspectThrows, SettleThrows, RecordIncident,
                RecordFailureThrows, RecordUnknownThrows, AuthorizeBroadcast, DoNotSend
  <2>. QED
    BY <2>1, LedgerFrozen
<1>3. ASSUME NEW w \in Workers, Persist(w)
      PROVE  LedgerInv'
  BY <1>3, Storing
<1>4. ASSUME NEW w \in Workers, PersistAttributed(w) \/ Defer(w)
      PROVE  LedgerInv'
  <2>1. PICK i : i = cur[w]
    OBVIOUS
  <2>2. /\ i \in Intents /\ istatus[i] # "finalized"
        /\ \A s \in Sigs : sigFor[s] = i => ~Live(s)
    BY <1>4, <2>1 DEF PersistAttributed, Defer, HandlesItsOwn, FenceProtects, Preparing
  <2>3. Unresolved(i) = {}
    BY <2>2 DEF Unresolved, Live, Inflight
  <2>4. /\ istatus' = [istatus EXCEPT ![i] = "waiting_for_route"]
        /\ UNCHANGED <<att, sigFor, cap, principal, cost, sent, chain>>
    BY <1>4, <2>1 DEF PersistAttributed, Defer, Postpone
  <2>. QED
    BY <2>2, <2>3, <2>4, Deferral
<1>5. ASSUME NEW w \in Workers, Settle(w)
      PROVE  LedgerInv'
  <2>1. PICK i, s : i = cur[w] /\ s = sig[w]
    OBVIOUS
  <2>2. PICK paid \in Charges : paid <= cap[s] /\ paid <= cost /\ cost' = cost - paid
    BY <1>5, <2>1 DEF Settle
  <2>3. /\ Fenced(w) /\ pc[w] \in Inspecting /\ chain[s] = "success"
        /\ att' = [att EXCEPT ![s] = "finalized"]
        /\ istatus' = [istatus EXCEPT ![i] = "finalized"]
        /\ principal' = [principal EXCEPT ![i] = principal[i] - 1]
        /\ UNCHANGED <<sigFor, cap, sent, chain>>
    BY <1>5, <2>1 DEF Settle, Settleable, Inspecting
  <2>4. principal' = [principal EXCEPT ![i] = 0]
    <3>1. principal[i] = 1
      BY <2>1, <2>3, Resolving
    <3>. QED
      BY <2>3, <3>1
  <2>. QED
    BY <2>1, <2>2, <2>3, <2>4, Closing, AmountsAreNatural
<1>6. ASSUME NEW w \in Workers, RecordFailure(w)
      PROVE  LedgerInv'
  <2>1. PICK i, s : i = cur[w] /\ s = sig[w]
    OBVIOUS
  <2>2. PICK fee \in Charges : fee <= FeeCap /\ fee <= cost /\ cost' = cost - fee
    BY <1>6 DEF RecordFailure
  <2>3. /\ Fenced(w) /\ pc[w] \in Inspecting /\ chain[s] = "failure"
        /\ att' = [att EXCEPT ![s] = "failed"]
        /\ istatus' = [istatus EXCEPT ![i] = "waiting_for_route"]
        /\ principal' = principal
        /\ UNCHANGED <<sigFor, cap, sent, chain>>
    BY <1>6, <2>1 DEF RecordFailure, Postpone, HandlesItsOwn, Inspecting
  <2>4. fee <= cap[s] /\ principal' = [principal EXCEPT ![i] = 1]
    BY <2>1, <2>2, <2>3, Resolving, AmountsAreNatural DEF TypeOK
  <2>. QED
    BY <2>1, <2>2, <2>3, <2>4, Closing, AmountsAreNatural
<1>7. ASSUME NEW w \in Workers, RecordUnknown(w)
      PROVE  LedgerInv'
  BY <1>7, Noting
<1>8. ASSUME NEW w \in Workers, Send(w)
      PROVE  LedgerInv'
  <2>1. att[sig[w]] # "none"
    BY <1>8, ConstantsDiffer DEF Send, HandlesItsOwn, Handling, LedgerInv, RowsAreComplete
  <2>2. sent' = sent \cup {sig[w]} /\ UNCHANGED ledgerVars /\ chain' = chain
    BY <1>8 DEF Send
  <2>3. ChainIsKnown'
    BY <2>1, <2>2 DEF LedgerInv, ChainIsKnown, SentIsDurable
  <2>. QED
    BY <2>2, <2>3 DEF LedgerInv, RowsAreComplete, OneLiveAttempt, Live, OneUnresolvedAttempt,
                      Unresolved, DebitMatchesChain, InflightFunded
<1>9. ASSUME NEW s \in Sigs, NEW outcome \in Outcomes, Land(s, outcome)
      PROVE  LedgerInv'
  <2>1. /\ s \in sent /\ chain[s] = "absent" /\ chain' = [chain EXCEPT ![s] = outcome]
        /\ UNCHANGED ledgerVars /\ sent' = sent
    BY <1>9 DEF Land
  <2>2. \A t \in Sigs : chain[t] # "absent" => chain'[t] = chain[t]
    BY <2>1 DEF TypeOK
  <2>3. ChainIsKnown'
    BY <2>1, <2>2 DEF LedgerInv, ChainIsKnown, SentIsDurable, TypeOK
  <2>4. DebitMatchesChain'
    BY <2>1, <2>2 DEF LedgerInv, DebitMatchesChain
  <2>. QED
    BY <2>1, <2>3, <2>4 DEF LedgerInv, RowsAreComplete, OneLiveAttempt, Live,
                            OneUnresolvedAttempt, Unresolved, InflightFunded
<1>10. ASSUME \/ LeaseExpires
              \/ \E w \in Workers : Crash(w)
              \/ \E i \in Intents : FallsDue(i)
              \/ OperatorPause \/ OperatorResume
              \/ \E kind \in IncidentKinds : ResolveIncident(kind)
              \/ \E s \in Sigs : RecordExpense(s)
              \/ \E s \in Sigs : Lapse(s)
       PROVE  LedgerInv'
  <2>1. UNCHANGED <<istatus, att, sigFor, cap, principal, cost, sent, chain>>
    BY <1>10 DEF LeaseExpires, Crash, FallsDue, OperatorPause, OperatorResume, ResolveIncident,
                 RecordExpense, Lapse
  <2>. QED
    BY <2>1, LedgerFrozen
<1>11. CASE UNCHANGED vars
  BY <1>11, LedgerFrozen DEF vars
<1>12. ASSUME NEW w \in Workers, Prepare(w) \/ Resolve(w)
       PROVE  LedgerInv'
  BY <1>2, <1>3, <1>4, <1>5, <1>6, <1>7, <1>8, <1>12 DEF Prepare, Resolve
<1>13. CASE Environment
  <2>1. CASE \E s \in Sigs, outcome \in Outcomes : Land(s, outcome)
    BY <1>9, <2>1
  <2>2. CASE ~(\E s \in Sigs, outcome \in Outcomes : Land(s, outcome))
    BY <1>10, <1>13, <2>2 DEF Environment
  <2>. QED
    BY <2>1, <2>2
<1>. QED
  BY <1>1, <1>11, <1>12, <1>13 DEF Next

-----------------------------------------------------------------------------
(* The inductive invariant and what follows from it *)

(* The initial state satisfies the inductive invariant. *)
LEMMA IndInvInit == Init => IndInv
<1>. SUFFICES ASSUME Init PROVE IndInv
  OBVIOUS
<1>1. LedgerInv
  BY AmountsAreNatural, ConstantsDiffer
     DEF Init, LedgerInv, RowsAreComplete, ChainIsKnown, SentIsDurable, OneLiveAttempt, Live,
         OneUnresolvedAttempt, Unresolved, Inflight, DebitMatchesChain, InflightFunded
<1>2. WorkerInv
  BY DEF Init, WorkerInv, HandlesItsOwn, FenceProtects, Preparing, Handling, Inspecting
<1>. QED
  BY <1>1, <1>2, TypeInit DEF IndInv

(* IndInv is an invariant of Execution, for all constants: at every moment of every     *)
(* interleaving the rows, the chain and the memory of the processes fit together        *)
(* (runner.ts:20-113, engine.ts:100-129, store.ts:13-14).                               *)
THEOREM Inductive == Spec => []IndInv
<1>1. IndInv /\ [Next]_vars => IndInv'
  BY TypeStep, LedgerStep, WorkerStep DEF IndInv
<1>. QED
  BY IndInvInit, <1>1, PTL DEF Spec

(* The types hold in every reachable state. *)
THEOREM TypeCorrect == Spec => []TypeOK
<1>1. IndInv => TypeOK
  BY DEF IndInv
<1>. QED
  BY Inductive, <1>1, PTL

(* No intent is ever paid twice: an executed transaction was sent, so it has a row that *)
(* is not failed, and an intent has one such row (runner.ts:24, 78-84).                 *)
THEOREM PaidAtMostOnce == Spec => []AtMostOnePayment
<1>1. IndInv => AtMostOnePayment
  <2>1. SUFFICES ASSUME IndInv, NEW s \in Sigs, NEW t \in Sigs,
                        sigFor[s] = sigFor[t], Executed(s), Executed(t)
                 PROVE  s = t
    BY DEF AtMostOnePayment
  <2>2. Live(s) /\ Live(t)
    BY <2>1 DEF IndInv, LedgerInv, ChainIsKnown, SentIsDurable, Executed, Live
  <2>. QED
    BY <2>1, <2>2 DEF IndInv, LedgerInv, OneLiveAttempt
<1>. QED
  BY Inductive, <1>1, PTL

(* The ledger's debits are the chain's payments (engine.ts:100-126). *)
THEOREM DebitsAreReal == Spec => []DebitMatchesChain
<1>1. IndInv => DebitMatchesChain
  BY DEF IndInv, LedgerInv
<1>. QED
  BY Inductive, <1>1, PTL

(* Signed work is serialized over the whole treasury (runner.ts:37, 103). *)
THEOREM Serialized == Spec => []OneUnresolvedAttempt
<1>1. IndInv => OneUnresolvedAttempt
  BY DEF IndInv, LedgerInv
<1>. QED
  BY Inductive, <1>1, PTL

(* What was authorized stays payable (runner.ts:33-36, engine.ts:92, 105). *)
THEOREM Funded == Spec => []InflightFunded
<1>1. IndInv => InflightFunded
  BY DEF IndInv, LedgerInv
<1>. QED
  BY Inductive, <1>1, PTL

(* Every signature the network may execute is in the database (runner.ts:46-60, 96). *)
THEOREM Durable == Spec => []SentIsDurable
<1>1. IndInv => SentIsDurable
  BY DEF IndInv, LedgerInv, ChainIsKnown
<1>. QED
  BY Inductive, <1>1, PTL

-----------------------------------------------------------------------------
(* The execution loop implements the payment lane *)

(* An executed transaction belongs to an intent and is not a failed attempt. *)
LEMMA ExecutedIsLive ==
    ASSUME IndInv, NEW t \in Sigs, Executed(t)
    PROVE  Live(t) /\ sigFor[t] \in Intents
  BY DEF IndInv, LedgerInv, RowsAreComplete, ChainIsKnown, SentIsDurable, Executed, Live, TypeOK

(* The abstract stage only depends on the rows and on the chain. *)
LEMMA StageFrozen ==
    ASSUME UNCHANGED <<istatus, att, sigFor, chain>>
    PROVE  Stage' = Stage
  BY DEF Stage, Executed, Unresolved

(* What the stage of an intent says. *)
LEMMA StageOf ==
    ASSUME NEW j \in Intents
    PROVE  /\ istatus[j] = "finalized" => Stage[j] = "settled"
           /\ istatus[j] # "finalized" /\ (\E t \in Sigs : sigFor[t] = j /\ Executed(t))
                => Stage[j] = "paid"
           /\ istatus[j] # "finalized" /\ ~(\E t \in Sigs : sigFor[t] = j /\ Executed(t))
                => Stage[j] = IF Unresolved(j) # {} THEN "committed" ELSE "owed"
  BY DEF Stage

(* A step that moves one intent to a stage moves the lane there. *)
LEMMA StageMoves ==
    ASSUME NEW i \in Intents, NEW stage, Stage'[i] = stage,
           \A j \in Intents \ {i} : Stage'[j] = Stage[j]
    PROVE  Stage' = [Stage EXCEPT ![i] = stage]
<1>1. Stage = [j \in Intents |-> Stage[j]] /\ Stage' = [j \in Intents |-> Stage'[j]]
  BY DEF Stage
<1>. QED
  BY <1>1

(* Storing a signed attempt commits to the payment, while the lane is free. *)
LEMMA StoringCommits ==
    ASSUME IndInv, NEW w \in Workers, Persist(w), NEW i, i = cur[w], NEW s, s = sig[w]
    PROVE  i \in Intents /\ Lane!Commit(i)
<1>. TypeOK /\ LedgerInv
  BY DEF IndInv
<1>0. /\ s \in Sigs /\ i \in Intents /\ att[s] = "none" /\ istatus[i] # "finalized"
      /\ \A t \in Sigs : sigFor[t] = i => ~Live(t)
      /\ \A t \in Sigs : att[t] \notin Inflight
  BY DEF Persist, Persistable, IndInv, WorkerInv, HandlesItsOwn, FenceProtects, Preparing
<1>1. /\ att' = [att EXCEPT ![s] = "signed"]
      /\ sigFor' = [sigFor EXCEPT ![s] = i]
      /\ istatus' = [istatus EXCEPT ![i] = "signed"]
      /\ chain' = chain
  BY DEF Persist, chainVars
<1>2. ~Executed(s) /\ \A t \in Sigs : Executed(t) => sigFor[t] # i
  BY <1>0, ExecutedIsLive DEF Live
<1>3. /\ att'[s] = "signed" /\ sigFor'[s] = i /\ istatus'[i] = "signed"
      /\ \A t \in Sigs \ {s} : att'[t] = att[t] /\ sigFor'[t] = sigFor[t]
      /\ \A j \in Intents \ {i} : istatus'[j] = istatus[j]
  BY <1>0, <1>1 DEF TypeOK
<1>4. \A j \in Intents : Unresolved(j) = {}
  BY <1>0 DEF Unresolved
<1>5. Stage[i] = "owed"
  BY <1>0, <1>2, <1>4, StageOf
<1>6. \A j \in Intents : Stage[j] \in {"owed", "settled"}
  <2>1. SUFFICES ASSUME NEW j \in Intents, istatus[j] # "finalized", NEW t \in Sigs,
                        sigFor[t] = j, Executed(t)
                 PROVE  FALSE
    BY <1>4, StageOf
  <2>2. att[t] = "finalized"
    BY <1>0, <2>1, ExecutedIsLive DEF Live, TypeOK, AttemptStatuses, Inflight
  <2>. QED
    BY <2>1, <2>2 DEF LedgerInv, ChainIsKnown
<1>7. Stage' = [Stage EXCEPT ![i] = "committed"]
  <2>1. \A t \in Sigs : Executed(t)' <=> Executed(t)
    BY <1>1 DEF Executed
  <2>2. Stage'[i] = "committed"
    <3>1. s \in Unresolved(i)'
      BY <1>0, <1>3 DEF Unresolved, Inflight
    <3>2. ~\E t \in Sigs : sigFor'[t] = i /\ Executed(t)'
      BY <1>2, <1>3, <2>1
    <3>. QED
      BY <1>0, <1>3, <3>1, <3>2 DEF Stage
  <2>3. \A j \in Intents \ {i} : Stage'[j] = Stage[j]
    <3>1. SUFFICES ASSUME NEW j \in Intents \ {i} PROVE Stage'[j] = Stage[j]
      OBVIOUS
    <3>2. Unresolved(j)' = {}
      BY <1>0, <1>3 DEF Unresolved
    <3>3. (\E t \in Sigs : sigFor'[t] = j /\ Executed(t)')
            <=> (\E t \in Sigs : sigFor[t] = j /\ Executed(t))
      BY <1>2, <1>3, <2>1
    <3>. QED
      BY <1>3, <1>4, <3>2, <3>3 DEF Stage
  <2>. QED
    BY <1>0, <2>2, <2>3, StageMoves
<1>. QED
  BY <1>0, <1>5, <1>6, <1>7 DEF Lane!Commit, Lane!OnTheWay

(* Closing an attempt settles the payment the chain made, or owes it again. *)
LEMMA ClosingMoves ==
    ASSUME IndInv, NEW w \in Workers, NEW i, i = cur[w], NEW s, s = sig[w],
           Fenced(w), pc[w] \in Inspecting,
           NEW outcome \in {"failed", "finalized"},
           att' = [att EXCEPT ![s] = outcome],
           istatus' = [istatus EXCEPT ![i] =
                         IF outcome = "failed" THEN "waiting_for_route" ELSE "finalized"],
           chain[s] = (IF outcome = "failed" THEN "failure" ELSE "success"),
           UNCHANGED <<sigFor, chain>>
    PROVE  i \in Intents /\ (Lane!Fail(i) \/ Lane!Settle(i))
<1>. TypeOK /\ LedgerInv
  BY DEF IndInv
<1>0. /\ s \in Sigs /\ i \in Intents /\ sigFor[s] = i /\ att[s] \in Inflight
      /\ istatus[i] \in Inflight
      /\ \A t \in Sigs \ {s} : att[t] \notin Inflight
  BY Resolving
<1>1. /\ att'[s] = outcome /\ \A t \in Sigs \ {s} : att'[t] = att[t]
      /\ istatus'[i] = (IF outcome = "failed" THEN "waiting_for_route" ELSE "finalized")
      /\ \A j \in Intents \ {i} : istatus'[j] = istatus[j]
  BY <1>0 DEF TypeOK
<1>2. \A t \in Sigs : Executed(t)' <=> Executed(t)
  BY DEF Executed
<1>3. \A t \in Sigs : sigFor[t] = i /\ Executed(t) => t = s
  <2>1. SUFFICES ASSUME NEW t \in Sigs, sigFor[t] = i, Executed(t) PROVE t = s
    OBVIOUS
  <2>2. Live(t) /\ Live(s)
    BY <1>0, <2>1, ExecutedIsLive DEF Live, Inflight
  <2>. QED
    BY <1>0, <2>1, <2>2 DEF LedgerInv, OneLiveAttempt
<1>4. \A j \in Intents \ {i} : Stage'[j] = Stage[j]
  <2>1. SUFFICES ASSUME NEW j \in Intents \ {i} PROVE Stage'[j] = Stage[j]
    OBVIOUS
  <2>2. Unresolved(j)' = {} /\ Unresolved(j) = {}
    BY <1>0, <1>1 DEF Unresolved
  <2>. QED
    BY <1>1, <1>2, <2>2 DEF Stage
<1>5. istatus[i] # "finalized" /\ Unresolved(i) # {} /\ Unresolved(i)' = {}
  BY <1>0, <1>1 DEF Inflight, Unresolved
<1>6. CASE outcome = "failed"
  <2>1. ~Executed(s)
    BY <1>6 DEF Executed
  <2>2. Stage[i] = "committed"
    BY <1>0, <1>3, <1>5, <2>1, StageOf
  <2>3. Stage'[i] = "owed"
    BY <1>0, <1>1, <1>2, <1>3, <1>5, <1>6, <2>1 DEF Stage
  <2>4. Stage' = [Stage EXCEPT ![i] = "owed"]
    BY <1>0, <1>4, <2>3, StageMoves
  <2>. QED
    BY <1>0, <2>2, <2>4 DEF Lane!Fail
<1>7. CASE outcome = "finalized"
  <2>1. Executed(s)
    BY <1>7 DEF Executed
  <2>2. Stage[i] = "paid"
    BY <1>0, <1>5, <2>1, StageOf
  <2>3. Stage'[i] = "settled"
    BY <1>0, <1>1, <1>7 DEF Stage
  <2>4. Stage' = [Stage EXCEPT ![i] = "settled"]
    BY <1>0, <1>4, <2>3, StageMoves
  <2>. QED
    BY <1>0, <2>2, <2>4 DEF Lane!Settle
<1>. QED
  BY <1>6, <1>7

(* Rewriting statuses leaves the lane where it is when it neither resolves an attempt   *)
(* nor finalizes an intent.                                                             *)
LEMMA StageKept ==
    ASSUME UNCHANGED <<sigFor, chain>>,
           \A s \in Sigs : att'[s] \in Inflight <=> att[s] \in Inflight,
           \A i \in Intents : istatus'[i] = "finalized" <=> istatus[i] = "finalized"
    PROVE  Stage' = Stage
<1>1. \A s \in Sigs : Executed(s)' <=> Executed(s)
  BY DEF Executed
<1>2. \A i \in Intents : Unresolved(i)' = Unresolved(i)
  BY DEF Unresolved
<1>3. \A i \in Intents : (\E s \in Sigs : sigFor'[s] = i /\ Executed(s)')
                             <=> (\E s \in Sigs : sigFor[s] = i /\ Executed(s))
  BY <1>1
<1>4. \A i \in Intents : Stage'[i] = Stage[i]
  BY <1>2, <1>3 DEF Stage
<1>5. Stage = [j \in Intents |-> Stage[j]] /\ Stage' = [j \in Intents |-> Stage'[j]]
  BY DEF Stage
<1>. QED
  BY <1>4, <1>5

(* The chain pays a committed intent, or fails for good, which the books learn later. *)
LEMMA LandingPays ==
    ASSUME IndInv, NEW s \in Sigs, NEW outcome \in Outcomes, Land(s, outcome)
    PROVE  UNCHANGED Stage \/ \E i \in Intents : Lane!Pay(i)
<1>. TypeOK /\ LedgerInv
  BY DEF IndInv
<1>0. PICK i : i = sigFor[s]
  OBVIOUS
<1>1. /\ s \in sent /\ chain[s] = "absent" /\ chain' = [chain EXCEPT ![s] = outcome]
      /\ outcome # "absent" /\ UNCHANGED <<istatus, att, sigFor>>
  BY DEF Land, ledgerVars
<1>2. i \in Intents /\ att[s] \in Inflight
  BY <1>0, <1>1 DEF LedgerInv, RowsAreComplete, ChainIsKnown, SentIsDurable, TypeOK,
                    AttemptStatuses, Inflight
<1>3. s \in Unresolved(i) /\ istatus[i] # "finalized"
  BY <1>0, <1>2 DEF Unresolved, LedgerInv, OneUnresolvedAttempt, Inflight
<1>4. \A t \in Sigs : t # s => (Executed(t)' <=> Executed(t))
  BY <1>1 DEF Executed, TypeOK
<1>5. ~Executed(s) /\ (Executed(s)' <=> outcome # "failure")
  BY <1>1 DEF Executed, TypeOK, Outcomes
<1>6. \A j \in Intents : Unresolved(j)' = Unresolved(j)
  BY <1>1 DEF Unresolved
<1>7. \A j \in Intents \ {i} : Stage'[j] = Stage[j]
  <2>1. SUFFICES ASSUME NEW j \in Intents \ {i} PROVE Stage'[j] = Stage[j]
    OBVIOUS
  <2>2. (\E t \in Sigs : sigFor'[t] = j /\ Executed(t)')
           <=> (\E t \in Sigs : sigFor[t] = j /\ Executed(t))
    BY <1>0, <1>1, <1>4
  <2>. QED
    BY <1>1, <1>6, <2>2 DEF Stage
<1>8. \A t \in Sigs : sigFor[t] = i => ~Executed(t)
  <2>1. SUFFICES ASSUME NEW t \in Sigs, sigFor[t] = i, Executed(t) PROVE FALSE
    OBVIOUS
  <2>2. Live(t) /\ Live(s)
    BY <1>2, <2>1, ExecutedIsLive DEF Live, Inflight
  <2>. QED
    BY <1>0, <1>5, <2>1, <2>2 DEF LedgerInv, OneLiveAttempt
<1>9. Stage[i] = "committed"
  BY <1>2, <1>3, <1>8, StageOf
<1>10. CASE outcome = "failure"
  <2>1. \A t \in Sigs : Executed(t)' <=> Executed(t)
    BY <1>4, <1>5, <1>10
  <2>2. Stage'[i] = Stage[i]
    BY <1>1, <1>2, <1>6, <2>1 DEF Stage
  <2>3. Stage = [j \in Intents |-> Stage[j]] /\ Stage' = [j \in Intents |-> Stage'[j]]
    BY DEF Stage
  <2>. QED
    BY <1>7, <2>2, <2>3
<1>11. CASE outcome # "failure"
  <2>1. Stage'[i] = "paid"
    BY <1>0, <1>1, <1>2, <1>3, <1>5, <1>11 DEF Stage
  <2>2. Stage' = [Stage EXCEPT ![i] = "paid"]
    BY <1>2, <1>7, <2>1, StageMoves
  <2>. QED
    BY <1>2, <1>9, <2>2 DEF Lane!Pay
<1>. QED
  BY <1>10, <1>11

(* Every step of the loop is a step of the payment lane, or leaves it where it is. *)
LEMMA LaneStep == IndInv /\ [Next]_vars => [Lane!Next]_Stage
<1>. SUFFICES ASSUME IndInv, [Next]_vars
              PROVE  UNCHANGED Stage \/ Lane!Next
  OBVIOUS
<1>. TypeOK /\ LedgerInv /\ \A w \in Workers : HandlesItsOwn(w) /\ FenceProtects(w)
  BY DEF IndInv, WorkerInv
<1>. USE DEF leaseVars, controlVars, ledgerVars, chainVars, localVars
<1>1. ASSUME NEW w \in Workers, Loop(w)
      PROVE  UNCHANGED Stage
  <2>1. UNCHANGED <<istatus, att, sigFor, chain>>
    BY <1>1 DEF Loop, StartTick, StartRecovery, TakeInflight, SkipInflight, TakeJob, EndTick, Begin
  <2>. QED
    BY <2>1, StageFrozen
<1>2. ASSUME NEW w \in Workers,
             \/ \E s \in Sigs, rent \in Rents : AuthorizeAndSign(w, s, rent)
             \/ DeferThrows(w)
             \/ InspectSuccess(w) \/ InspectFailure(w) \/ InspectUnknown(w)
             \/ InspectExpired(w) \/ InspectThrows(w)
             \/ SettleThrows(w) \/ RecordIncident(w)
             \/ RecordFailureThrows(w) \/ RecordUnknownThrows(w)
             \/ AuthorizeBroadcast(w) \/ DoNotSend(w) \/ Send(w)
      PROVE  UNCHANGED Stage
  <2>1. UNCHANGED <<istatus, att, sigFor, chain>>
    BY <1>2 DEF AuthorizeAndSign, DeferThrows, InspectSuccess, InspectFailure, InspectUnknown,
                InspectExpired, InspectThrows, SettleThrows, RecordIncident,
                RecordFailureThrows, RecordUnknownThrows, AuthorizeBroadcast, DoNotSend, Send
  <2>. QED
    BY <2>1, StageFrozen
<1>3. ASSUME NEW w \in Workers, Persist(w)
      PROVE  Lane!Next
  BY <1>3, StoringCommits DEF Lane!Next
<1>4. ASSUME NEW w \in Workers, PersistAttributed(w) \/ Defer(w)
      PROVE  UNCHANGED Stage
  <2>1. PICK i : i = cur[w]
    OBVIOUS
  <2>2. i \in Intents /\ istatus[i] # "finalized"
    BY <1>4, <2>1 DEF PersistAttributed, Defer, HandlesItsOwn, FenceProtects, Preparing
  <2>3. /\ istatus' = [istatus EXCEPT ![i] = "waiting_for_route"]
        /\ UNCHANGED <<att, sigFor, chain>>
    BY <1>4, <2>1 DEF PersistAttributed, Defer, Postpone
  <2>4. \A j \in Intents : istatus'[j] = "finalized" <=> istatus[j] = "finalized"
    BY <2>2, <2>3 DEF TypeOK
  <2>. QED
    BY <2>3, <2>4, StageKept
<1>5. ASSUME NEW w \in Workers, Settle(w) \/ RecordFailure(w)
      PROVE  Lane!Next
  <2>1. PICK i, s : i = cur[w] /\ s = sig[w]
    OBVIOUS
  <2>2. CASE Settle(w)
    <3>1. /\ Fenced(w) /\ pc[w] \in Inspecting /\ chain[s] = "success"
          /\ att' = [att EXCEPT ![s] = "finalized"]
          /\ istatus' = [istatus EXCEPT ![i] = "finalized"]
          /\ UNCHANGED <<sigFor, chain>>
      BY <2>1, <2>2 DEF Settle, Settleable, Inspecting
    <3>. QED
      BY <2>1, <3>1, ClosingMoves DEF Lane!Next
  <2>3. CASE RecordFailure(w)
    <3>1. /\ Fenced(w) /\ pc[w] \in Inspecting /\ chain[s] = "failure"
          /\ att' = [att EXCEPT ![s] = "failed"]
          /\ istatus' = [istatus EXCEPT ![i] = "waiting_for_route"]
          /\ UNCHANGED <<sigFor, chain>>
      BY <2>1, <2>3 DEF RecordFailure, Postpone, HandlesItsOwn, Inspecting
    <3>. QED
      BY <2>1, <3>1, ClosingMoves DEF Lane!Next
  <2>. QED
    BY <1>5, <2>2, <2>3
<1>6. ASSUME NEW w \in Workers, RecordUnknown(w)
      PROVE  UNCHANGED Stage
  <2>1. PICK i, s : i = cur[w] /\ s = sig[w]
    OBVIOUS
  <2>2. /\ s \in Sigs /\ i \in Intents
        /\ att[s] \in Inflight /\ istatus[i] \in Inflight
    BY <1>6, <2>1, Resolving DEF RecordUnknown, Inspecting
  <2>3. /\ att' = [att EXCEPT ![s] = NotedStatus(w)]
        /\ istatus' = [istatus EXCEPT ![i] = NotedStatus(w)]
        /\ NotedStatus(w) \in Inflight
        /\ UNCHANGED <<sigFor, chain>>
    BY <1>6, <2>1 DEF RecordUnknown, NotedStatus, Inflight
  <2>4. /\ \A t \in Sigs : att'[t] \in Inflight <=> att[t] \in Inflight
        /\ \A j \in Intents : istatus'[j] = "finalized" <=> istatus[j] = "finalized"
    BY <2>2, <2>3 DEF TypeOK, Inflight
  <2>. QED
    BY <2>3, <2>4, StageKept
<1>7. ASSUME \/ LeaseExpires
             \/ \E w \in Workers : Crash(w)
             \/ \E i \in Intents : FallsDue(i)
             \/ OperatorPause \/ OperatorResume
             \/ \E kind \in IncidentKinds : ResolveIncident(kind)
             \/ \E s \in Sigs : RecordExpense(s)
             \/ \E s \in Sigs : Lapse(s)
      PROVE  UNCHANGED Stage
  <2>1. UNCHANGED <<istatus, att, sigFor, chain>>
    BY <1>7 DEF LeaseExpires, Crash, FallsDue, OperatorPause, OperatorResume, ResolveIncident,
                RecordExpense, Lapse
  <2>. QED
    BY <2>1, StageFrozen
<1>8. CASE UNCHANGED vars
  BY <1>8, StageFrozen DEF vars
<1>9. ASSUME NEW w \in Workers, Prepare(w) \/ Resolve(w)
      PROVE  UNCHANGED Stage \/ Lane!Next
  BY <1>2, <1>3, <1>4, <1>5, <1>6, <1>9 DEF Prepare, Resolve
<1>10. CASE Environment
  <2>1. CASE \E s \in Sigs, outcome \in Outcomes : Land(s, outcome)
    BY <2>1, LandingPays DEF Lane!Next
  <2>2. CASE ~(\E s \in Sigs, outcome \in Outcomes : Land(s, outcome))
    BY <1>7, <1>10, <2>2 DEF Environment
  <2>. QED
    BY <2>1, <2>2
<1>. QED
  BY <1>1, <1>8, <1>9, <1>10 DEF Next

(* The execution loop implements the payment lane: whatever processes, crashes,         *)
(* operators and the chain do in between, payments happen one at a time, once per       *)
(* intent, and the books close on the payments the chain made (runner.ts:20-113).       *)
THEOREM Implements == Spec => ImplementsLane
<1>1. Init => Lane!Init
  <2>1. SUFFICES ASSUME Init PROVE Stage = [i \in Intents |-> "owed"]
    BY DEF Lane!Init
  <2>2. \A i \in Intents : Stage[i] = "owed"
    BY <2>1, ConstantsDiffer DEF Init, Stage, Unresolved, Executed, Inflight
  <2>. QED
    BY <2>2 DEF Stage
<1>2. IndInv /\ [Next]_vars => [Lane!Next]_Stage
  BY LaneStep
<1>. QED
  BY Inductive, <1>1, <1>2, PTL DEF Spec, ImplementsLane, Lane!Spec

-----------------------------------------------------------------------------
(* What a step may never do *)

(* Only these four transactions rewrite an attempt, each under the newest fence. *)
Writes(w) == Persist(w) \/ Settle(w) \/ RecordFailure(w) \/ RecordUnknown(w)

LEMMA AttemptWriters ==
    ASSUME IndInv, [Next]_vars, NEW s \in Sigs, att'[s] # att[s]
    PROVE  \E w \in Workers : Writes(w) /\ s = sig[w]
<1>. TypeOK
  BY DEF IndInv
<1>. USE DEF leaseVars, controlVars, ledgerVars, chainVars, localVars
<1>1. ASSUME NEW w \in Workers, Writes(w), s # sig[w]
      PROVE  FALSE
  BY <1>1 DEF Writes, Persist, Settle, RecordFailure, RecordUnknown, TypeOK
<1>2. ASSUME NEW w \in Workers, Loop(w)
      PROVE  FALSE
  BY <1>2 DEF Loop, StartTick, StartRecovery, TakeInflight, SkipInflight, TakeJob, EndTick, Begin
<1>3. ASSUME NEW w \in Workers, Prepare(w) \/ Resolve(w), ~Writes(w)
      PROVE  FALSE
  BY <1>3 DEF Prepare, Resolve, Writes, AuthorizeAndSign, PersistAttributed, Defer, DeferThrows,
              InspectSuccess, InspectFailure, InspectUnknown, InspectExpired, InspectThrows,
              SettleThrows, RecordIncident, RecordFailureThrows,
              RecordUnknownThrows, AuthorizeBroadcast, DoNotSend, Send
<1>4. CASE Environment \/ UNCHANGED vars
  BY <1>4 DEF Environment, LeaseExpires, Crash, FallsDue, OperatorPause, OperatorResume,
              ResolveIncident, RecordExpense, Land, Lapse, vars
<1>. QED
  BY <1>1, <1>2, <1>3, <1>4 DEF Next

(* Replacement only after failure: the process that stores a signature holds the newest *)
(* fence, so none of the earlier attempts it found failed can have revived              *)
(* (runner.ts:24-26, 78-84).                                                            *)
THEOREM ReplacementIsSafe == Spec => ReplacedOnlyAfterFailure
<1>1. ASSUME IndInv, [Next]_vars, NEW s \in Sigs, att[s] = "none", att'[s] # "none",
             NEW t \in Sigs, sigFor[t] = sigFor'[s]
      PROVE  chain[t] = "failure"
  <2>. TypeOK /\ LedgerInv
    BY <1>1 DEF IndInv
  <2>1. PICK w \in Workers : Writes(w) /\ s = sig[w]
    BY <1>1, AttemptWriters
  <2>2. HandlesItsOwn(w) /\ FenceProtects(w)
    BY <1>1 DEF IndInv, WorkerInv
  <2>3. Persist(w)
    BY <1>1, <2>1, <2>2 DEF Writes, Settle, Settleable, RecordFailure, RecordUnknown,
                            FenceProtects, Inspecting, Inflight
  <2>4. /\ pc[w] = "persist" /\ Fenced(w)
        /\ sigFor' = [sigFor EXCEPT ![s] = cur[w]]
    BY <2>1, <2>3 DEF Persist
  <2>5. cur[w] \in Intents /\ sigFor[t] = cur[w] /\ ~Live(t)
    BY <1>1, <2>2, <2>4 DEF HandlesItsOwn, FenceProtects, Preparing, TypeOK
  <2>6. att[t] = "failed"
    BY <2>5, ConstantsDiffer DEF Live, LedgerInv, RowsAreComplete
  <2>. QED
    BY <2>6 DEF LedgerInv, ChainIsKnown
<1>2. IndInv /\ [Next]_vars =>
        [\A s \in Sigs : att[s] = "none" /\ att'[s] # "none" =>
            \A t \in Sigs : sigFor[t] = sigFor'[s] => chain[t] = "failure"]_vars
  BY <1>1
<1>. QED
  BY Inductive, <1>2, PTL DEF Spec, ReplacedOnlyAfterFailure

(* Review is sticky: the process that notes an outcome under the newest fence still     *)
(* knows that the attempt it read was under review (runner.ts:79-84).                   *)
THEOREM ReviewIsSticky == Spec => ReviewEndsByOutcome
<1>1. ASSUME IndInv, [Next]_vars, NEW s \in Sigs,
             att[s] = "needs_review", att'[s] # "needs_review"
      PROVE  \/ att'[s] = "finalized" /\ chain[s] = "success"
             \/ att'[s] = "failed" /\ chain[s] = "failure"
  <2>. TypeOK
    BY <1>1 DEF IndInv
  <2>1. PICK w \in Workers : Writes(w) /\ s = sig[w]
    BY <1>1, AttemptWriters
  <2>2. HandlesItsOwn(w) /\ FenceProtects(w)
    BY <1>1 DEF IndInv, WorkerInv
  <2>3. CASE Persist(w)
    BY <1>1, <2>1, <2>3 DEF Persist, Persistable
  <2>4. CASE Settle(w)
    BY <2>1, <2>4 DEF Settle, Settleable, TypeOK
  <2>5. CASE RecordFailure(w)
    BY <2>1, <2>2, <2>5 DEF RecordFailure, HandlesItsOwn, TypeOK
  <2>6. CASE RecordUnknown(w)
    <3>1. review[w] /\ att' = [att EXCEPT ![s] = NotedStatus(w)]
      BY <1>1, <2>1, <2>2, <2>6 DEF RecordUnknown, FenceProtects, Inspecting
    <3>. QED
      BY <1>1, <3>1 DEF NotedStatus, TypeOK
  <2>. QED
    BY <2>1, <2>3, <2>4, <2>5, <2>6 DEF Writes
<1>2. IndInv /\ [Next]_vars =>
        [\A s \in Sigs : att[s] = "needs_review" /\ att'[s] # "needs_review" =>
            \/ att'[s] = "finalized" /\ chain[s] = "success"
            \/ att'[s] = "failed" /\ chain[s] = "failure"]_vars
  BY <1>1
<1>. QED
  BY Inductive, <1>2, PTL DEF Spec, ReviewEndsByOutcome

(* A signature is an expense or an attempt, never both, in whichever order they come    *)
(* (runner.ts:47-54, developer.ts:249).                                                 *)
THEOREM AttributedOnce == Spec => []SignatureAttributedOnce
<1>1. Init => SignatureAttributedOnce
  BY DEF Init, SignatureAttributedOnce
<1>2. ASSUME IndInv, SignatureAttributedOnce, [Next]_vars, NEW s \in expensed'
      PROVE  att'[s] = "none"
  <2>. TypeOK
    BY <1>2 DEF IndInv
  <2>. USE DEF leaseVars, controlVars, ledgerVars, chainVars, localVars
  <2>1. CASE \E r \in Sigs : RecordExpense(r)
    BY <1>2, <2>1 DEF RecordExpense, ExpenseAllowed, SignatureAttributedOnce
  <2>2. CASE ~\E r \in Sigs : RecordExpense(r)
    <3>1. expensed' = expensed
      <4>1. ASSUME NEW w \in Workers, Loop(w)
            PROVE  expensed' = expensed
        BY <4>1 DEF Loop, StartTick, StartRecovery, TakeInflight, SkipInflight, TakeJob, EndTick,
                    Begin
      <4>2. ASSUME NEW w \in Workers, Prepare(w) \/ Resolve(w)
            PROVE  expensed' = expensed
        BY <4>2 DEF Prepare, Resolve, AuthorizeAndSign, Persist, PersistAttributed, Defer,
                    DeferThrows, InspectSuccess, InspectFailure, InspectUnknown, InspectExpired,
                    InspectThrows, Settle, SettleThrows, RecordIncident,
                    RecordFailure, RecordFailureThrows, RecordUnknown, RecordUnknownThrows,
                    AuthorizeBroadcast, DoNotSend, Send
      <4>3. CASE Environment \/ UNCHANGED vars
        BY <2>2, <4>3 DEF Environment, LeaseExpires, Crash, FallsDue, OperatorPause,
                          OperatorResume, ResolveIncident, Land, Lapse, vars
      <4>. QED
        BY <1>2, <4>1, <4>2, <4>3 DEF Next
    <3>2. s \in Sigs /\ s \in expensed /\ att[s] = "none"
      BY <1>2, <3>1 DEF TypeOK, SignatureAttributedOnce
    <3>3. SUFFICES ASSUME att'[s] # att[s] PROVE FALSE
      BY <3>2
    <3>4. PICK w \in Workers : Writes(w) /\ s = sig[w]
      BY <1>2, <3>2, <3>3, AttemptWriters
    <3>5. FenceProtects(w)
      BY <1>2 DEF IndInv, WorkerInv
    <3>6. Persist(w)
      BY <3>2, <3>4, <3>5 DEF Writes, Settle, Settleable, RecordFailure, RecordUnknown,
                              FenceProtects, Inspecting, Inflight
    <3>. QED
      BY <3>2, <3>4, <3>6 DEF Persist, Persistable
  <2>. QED
    BY <2>1, <2>2
<1>3. IndInv /\ SignatureAttributedOnce /\ [Next]_vars => SignatureAttributedOnce'
  BY <1>2 DEF SignatureAttributedOnce
<1>. QED
  BY Inductive, <1>1, <1>3, PTL DEF Spec

(* A step of one process does not move another. *)
LEMMA OwnSteps ==
    ASSUME TypeOK, NEW v \in Workers, NEW w \in Workers \ {v}, Loop(v) \/ Prepare(v) \/ Resolve(v)
    PROVE  pc'[w] = pc[w]
<1>1. ASSUME GoIdle(v) \/ Return(v) \/ \E step : Goto(v, step) PROVE pc'[w] = pc[w]
  BY <1>1, Leaving, Moving DEF Memory
<1>2. CASE Loop(v)
  <2>1. CASE EndTick(v)
    BY <1>1, <2>1 DEF EndTick
  <2>2. CASE ~EndTick(v)
    BY <1>2, <2>2 DEF Loop, StartTick, StartRecovery, TakeInflight, SkipInflight, TakeJob, Begin,
                      TypeOK
  <2>. QED
    BY <2>1, <2>2
<1>3. CASE Prepare(v)
  <2>1. CASE \E s \in Sigs, rent \in Rents : AuthorizeAndSign(v, s, rent)
    BY <2>1 DEF AuthorizeAndSign, TypeOK
  <2>2. CASE Persist(v) \/ PersistAttributed(v) \/ Defer(v) \/ DeferThrows(v)
    BY <1>1, <2>2 DEF Persist, PersistAttributed, Defer, DeferThrows
  <2>. QED
    BY <1>3, <2>1, <2>2 DEF Prepare
<1>4. CASE Resolve(v)
  <2>1. CASE InspectExpired(v)
    BY <2>1 DEF InspectExpired, TypeOK
  <2>2. CASE \/ InspectSuccess(v) \/ InspectFailure(v) \/ InspectUnknown(v) \/ InspectThrows(v)
             \/ Settle(v) \/ SettleThrows(v) \/ RecordIncident(v)
    BY <1>1, <2>2 DEF InspectSuccess, InspectFailure, InspectUnknown, InspectThrows, Settle,
                      SettleThrows, RecordIncident
  <2>3. CASE \/ RecordFailure(v) \/ RecordFailureThrows(v)
             \/ RecordUnknown(v) \/ RecordUnknownThrows(v)
             \/ AuthorizeBroadcast(v) \/ DoNotSend(v) \/ Send(v)
    BY <1>1, <2>3 DEF RecordFailure, RecordFailureThrows, RecordUnknown, RecordUnknownThrows,
                      AuthorizeBroadcast, DoNotSend, Send
  <2>. QED
    BY <1>4, <2>1, <2>2, <2>3 DEF Resolve
<1>. QED
  BY <1>2, <1>3, <1>4

(* A process that lost its lease writes nothing (store.ts:14). *)
THEOREM StaleIsHarmless == Spec => StaleWritesNothing
<1>1. ASSUME TypeOK, [Next]_vars, NEW w \in Workers, ~Fenced(w), pc'[w] # pc[w]
      PROVE  UNCHANGED ledgerVars
  <2>1. CASE \E v \in Workers : Loop(v) \/ Prepare(v) \/ Resolve(v)
    <3>1. Loop(w) \/ Prepare(w) \/ Resolve(w)
      BY <1>1, <2>1, OwnSteps
    <3>2. CASE Loop(w)
      BY <3>2 DEF Loop, StartTick, StartRecovery, TakeInflight, SkipInflight, TakeJob, EndTick,
                  Begin
    <3>3. CASE Prepare(w)
      BY <1>1, <3>3 DEF Prepare, AuthorizeAndSign, Persist, PersistAttributed, Defer, DeferThrows
    <3>4. CASE Resolve(w)
      BY <1>1, <3>4 DEF Resolve, InspectSuccess, InspectFailure, InspectUnknown, InspectExpired,
                        InspectThrows, Settle, Settleable, SettleThrows,
                        RecordIncident, RecordFailure, RecordFailureThrows, RecordUnknown,
                        RecordUnknownThrows, AuthorizeBroadcast, DoNotSend, Send
    <3>. QED
      BY <3>1, <3>2, <3>3, <3>4
  <2>2. CASE Environment
    <3>1. CASE \E v \in Workers : Crash(v)
      BY <3>1 DEF Crash
    <3>2. CASE ~\E v \in Workers : Crash(v)
      BY <1>1, <2>2, <3>2 DEF Environment, LeaseExpires, FallsDue, OperatorPause, OperatorResume,
                              ResolveIncident, RecordExpense, Land, Lapse, localVars
    <3>. QED
      BY <3>1, <3>2
  <2>3. CASE UNCHANGED vars
    BY <1>1, <2>3 DEF vars, localVars
  <2>. QED
    BY <1>1, <2>1, <2>2, <2>3 DEF Next
<1>2. TypeOK /\ [Next]_vars =>
        [\A w \in Workers : ~Fenced(w) /\ pc'[w] # pc[w] => UNCHANGED ledgerVars]_vars
  BY <1>1
<1>. QED
  BY TypeCorrect, <1>2, PTL DEF Spec, StaleWritesNothing

=============================================================================
