-------------------------- MODULE ExecutionInvariant --------------------------
(***************************************************************************)
(* The inductive invariant behind the safety properties of Execution.  The *)
(* properties speak of rows and outcomes; what makes them inductive is     *)
(* what each process in the middle of a tick still knows, as long as its   *)
(* fence is the newest.                                                    *)
(***************************************************************************)
EXTENDS Execution

Preparing == {"authorize", "persist"}
Inspecting == {"inspect", "settle", "fail", "note"}
Handling == Inspecting \cup {"incident", "broadcast", "send"}

(* An attempt that is neither absent nor failed. *)
Live(s) == att[s] \notin {"none", "failed"}

-----------------------------------------------------------------------------
(* The rows, and what they say of the chain. *)

RowsAreComplete ==
    \A s \in Sigs :
        /\ att[s] # "none" <=> sigFor[s] # NoIntent
        /\ att[s] # "none" => cap[s] >= FeeCap

ChainIsKnown ==
    /\ SentIsDurable
    /\ \A s \in Sigs : chain[s] # "absent" => s \in sent
    /\ \A s \in Sigs : att[s] = "failed" => chain[s] = "failure"
    /\ \A s \in Sigs : att[s] = "finalized" =>
            chain[s] = "success" /\ istatus[sigFor[s]] = "finalized"

OneLiveAttempt ==
    \A s, t \in Sigs : Live(s) /\ Live(t) /\ sigFor[s] = sigFor[t] => s = t

LedgerInv ==
    /\ RowsAreComplete
    /\ ChainIsKnown
    /\ OneLiveAttempt
    /\ OneUnresolvedAttempt
    /\ DebitMatchesChain
    /\ InflightFunded

-----------------------------------------------------------------------------
(* What a process knows. *)

(* It handles a stored signature of its intent; an outcome it has read is final. *)
HandlesItsOwn(w) ==
    /\ pc[w] \in Preparing \cup Handling => cur[w] \in Intents
    /\ pc[w] \in Handling => sig[w] \in Sigs /\ sigFor[sig[w]] = cur[w]
    /\ pc[w] \in {"settle", "incident"} => Executed(sig[w])
    /\ pc[w] = "fail" => chain[sig[w]] = "failure"
    /\ pc[w] = "persist" => sig[w] \in Sigs /\ bound[w] >= FeeCap

(* While fenced, what it read before still holds. *)
FenceProtects(w) ==
    Fenced(w) =>
        /\ pc[w] \in Preparing =>
              /\ istatus[cur[w]] # "finalized"
              /\ \A s \in Sigs : sigFor[s] = cur[w] => ~Live(s)
        /\ pc[w] = "persist" =>
              /\ \A s \in Sigs : att[s] \notin Inflight
              /\ bound[w] <= cost - Floor
        /\ pc[w] \in Inspecting =>
              /\ att[sig[w]] \in Inflight
              /\ att[sig[w]] = "needs_review" => review[w]

WorkerInv == \A w \in Workers : HandlesItsOwn(w) /\ FenceProtects(w)

(* The inductive invariant of Spec. *)
IndInv == TypeOK /\ LedgerInv /\ WorkerInv
=============================================================================
