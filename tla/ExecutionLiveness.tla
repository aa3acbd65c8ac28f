-------------------------- MODULE ExecutionLiveness --------------------------
(***************************************************************************)
(* What the execution loop must eventually do, under the fairness its      *)
(* scheduling gives it: apps/worker/main.ts runs a tick every five seconds *)
(* for as long as the process lives, a lease expires by the clock, a       *)
(* deferred intent falls due by the clock, and a provider asked again and  *)
(* again eventually reports a finalized outcome.                           *)
(*                                                                         *)
(* Crashes, operator pauses, recovery requests (which take the lease from  *)
(* one another) and leases that expire under a working process are         *)
(* disturbances.  LiveSpec allows MaxDisturbances of them; SlowSpec    *)
(* allows none but lets every preparation outlast its lease.               *)
(***************************************************************************)
EXTENDS Execution

CONSTANT MaxDisturbances

ASSUME DisturbancesAreBounded == MaxDisturbances \in Nat

VARIABLE disturbances

liveVars == <<vars, disturbances>>

(* The lease is held by a process that is in the middle of a tick. *)
HeldAtWork == leaseHolder \in Workers /\ pc[leaseHolder] # "idle"

(* One step of a process that is inside a tick. *)
Proceed(w) ==
    \/ \E i \in Intents : TakeInflight(w, i) \/ SkipInflight(w, i) \/ TakeJob(w, i)
    \/ EndTick(w)
    \/ Prepare(w)
    \/ Resolve(w)

IdleLeaseExpires == ~HeldAtWork /\ LeaseExpires

Disturb ==
    \/ HeldAtWork /\ LeaseExpires
    \/ \E w \in Workers : Crash(w)
    \/ OperatorPause
    \/ \E w \in Workers, s \in Sigs : StartRecovery(w, s)

Undisturbed ==
    \/ \E w \in Workers : Proceed(w) \/ \E ph \in Phases : StartTick(w, ph)
    \/ IdleLeaseExpires
    \/ \E i \in Intents : FallsDue(i)
    \/ OperatorResume
    \/ \E kind \in IncidentKinds : ResolveIncident(kind)
    \/ \E s \in Sigs : RecordExpense(s) \/ Lapse(s)
    \/ \E s \in Sigs, outcome \in Outcomes : Land(s, outcome)

LiveInit == Init /\ disturbances = 0

LiveNext ==
    \/ Undisturbed /\ UNCHANGED disturbances
    \/ /\ disturbances < MaxDisturbances
       /\ Disturb
       /\ disturbances' = disturbances + 1

(* The worker loop keeps taking recoveryOnly ticks, whatever configuration and approval *)
(* say; a process inside a tick goes on; the clock runs; a finalized outcome is not     *)
(* hidden forever from who keeps asking.                                                *)
LoopFairness ==
    /\ SF_vars(\E w \in Workers : StartTick(w, "recover"))
    /\ \A w \in Workers : WF_vars(Proceed(w))
    /\ \A w \in Workers : SF_vars(InspectSuccess(w)) /\ SF_vars(InspectFailure(w))
    /\ WF_vars(IdleLeaseExpires)
    /\ \A i \in Intents : WF_vars(FallsDue(i))

(* Configuration and approval keep allowing normal ticks. *)
ApprovalFairness == SF_vars(\E w \in Workers : StartTick(w, "tick"))

LiveSpec == LiveInit /\ [][LiveNext]_liveVars /\ LoopFairness

(* The adapter's preparation outlasts the 120 seconds of the lease, every time. *)
SlowNext ==
    /\ UNCHANGED disturbances
    /\ \/ Undisturbed
       \/ HeldAtWork /\ pc[leaseHolder] = "authorize" /\ LeaseExpires

SlowSpec == LiveInit /\ [][SlowNext]_liveVars /\ LoopFairness /\ ApprovalFairness

-----------------------------------------------------------------------------
(* A finalized outcome on chain, of a success or of a failure, is eventually in the     *)
(* books, whoever crashed before reading it, also while paused or under review          *)
(* (runner.ts:99-104, control.ts:31-40).                                                *)
OutcomeIsRecorded ==
    \A s \in Sigs :
        /\ chain[s] = "success" ~> att[s] = "finalized"
        /\ chain[s] = "failure" ~> att[s] = "failed"

(* "A denied unsigned job must not starve other due jobs" (runner.ts:108): as long as    *)
(* normal ticks are approved, and unless the intent is finalized, execution is paused or *)
(* a payment is in flight again and again, every intent is attempted again and again.    *)
NoJobStarves ==
    ApprovalFairness =>
        \A i \in Intents :
            []<>(\/ istatus[i] = "finalized"
                 \/ \E w \in Workers : cur[w] = i
                 \/ paused
                 \/ \E j \in Intents : istatus[j] \in Inflight)
=============================================================================
