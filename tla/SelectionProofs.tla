-------------------------- MODULE SelectionProofs --------------------------
(***************************************************************************)
(* Proofs about Selection: however many callers read concurrently, and     *)
(* whatever the times and budgets, a round rests on a catalogue requested  *)
(* after its commitment was authorized, with routes for its own leg, a     *)
(* purchase on routes for its own amount, and nothing stale is ready.      *)
(* Then, about Basket: what a basket holds is decided by the set of the    *)
(* observations, and is the head of those that agree and qualify.          *)
(***************************************************************************)
EXTENDS Selection, Rules, Sums, SequenceTheorems

(* The pending read is its caller's own, for the caller's budget; a forced one is at     *)
(* least as recent as the authorization it was made under.                               *)
PendingIsOwned ==
    pending # Nothing =>
        /\ caller[pending.by].pc = "own"
        /\ pending.budget = caller[pending.by].budget
        /\ pending.force = Forced(pending.by)
        /\ pending.force => pending.version >= caller[pending.by].since

OnlyOneOwns == \A c \in Callers : caller[c].pc = "own" => pending # Nothing /\ pending.by = c

(* Who awaits a read does nothing else, and awaits only one. *)
QueuesWait ==
    /\ \A i \in 1..Len(waiters) : caller[waiters[i]].pc = "wait"
    /\ \A i \in 1..Len(woken) : caller[woken[i]].pc = "wait"

NobodyTwice ==
    /\ \A i, j \in 1..Len(waiters) : waiters[i] = waiters[j] => i = j
    /\ \A i, j \in 1..Len(woken) : woken[i] = woken[j] => i = j
    /\ \A i \in 1..Len(waiters), j \in 1..Len(woken) : waiters[i] # woken[j]

(* A call keeps its budget and the time of its authorization while it waits. *)
WaitersHaveCalled ==
    \A c \in Callers : caller[c].pc = "wait" =>
        caller[c].budget \in Budgets /\ caller[c].since <= world

(* A read that has settled left an observation. *)
SettledLeavesOne == woken # <<>> => last # Nothing

(* What a commitment is told was observed for it alone. *)
ForcedAnswersAreOwn ==
    \A c \in Callers : caller[c].pc = "got" /\ Forced(c) /\ caller[c].answer.ready =>
        /\ caller[c].answer.version >= caller[c].since
        /\ caller[c].answer.budget = caller[c].budget

Inv ==
    /\ TypeOK
    /\ PendingIsOwned /\ OnlyOneOwns /\ QueuesWait /\ NobodyTwice
    /\ WaitersHaveCalled /\ SettledLeavesOne
    /\ ForcedAnswersAreOwn /\ CommitIsCurrent

-----------------------------------------------------------------------------
LEMMA AgedType ==
    ASSUME NEW observation \in Observations
    PROVE  Aged(observation) \in Observations
  BY DEF Aged, Observations, NotReady

LEMMA CallersType ==
    ASSUME TypeOK, NEW c \in Callers
    PROVE  /\ caller[c] = [pc |-> caller[c].pc, budget |-> caller[c].budget,
                           since |-> caller[c].since, answer |-> caller[c].answer]
           /\ caller[c].pc \in Steps /\ caller[c].budget \in Budgets \cup {Nothing}
           /\ caller[c].since \in Nat /\ caller[c].answer \in Observations \cup {Nothing}
  BY DEF TypeOK, CallerRecords

(* A caller that moves alone, and neither owns nor awaits a read, disturbs nobody. *)
LEMMA MovesAlone ==
    ASSUME Inv, NEW c \in Callers, caller[c].pc \notin {"own", "wait"},
           NEW record \in CallerRecords, record.pc \notin {"own", "wait"},
           caller' = [caller EXCEPT ![c] = record],
           UNCHANGED <<worldVars, serviceVars, waiters, woken>>,
           record.pc = "got" => FALSE,
           record.pc \in PastRevalidation =>
               /\ record.answer.ready
               /\ record.answer.version >= record.since
               /\ record.answer.budget = record.budget
    PROVE  Inv'
  <1> USE DEF Inv
  <1>1. /\ caller' \in [Callers -> CallerRecords]
        /\ caller'[c] = record
        /\ \A d \in Callers : d # c => caller'[d] = caller[d]
    BY DEF TypeOK
  <1>2. UNCHANGED <<now, world, catalogue, last, attemptAt, failures, budget, pending,
                    waiters, woken>>
    BY DEF worldVars, serviceVars
  <1>3. TypeOK'
    BY <1>1, <1>2 DEF TypeOK
  <1>4. PendingIsOwned'
    <2>1. pending # Nothing => pending.by \in Callers
      BY DEF TypeOK, Pending
    <2> QED BY <1>1, <1>2, <2>1 DEF PendingIsOwned, Forced
  <1>5. OnlyOneOwns'
    BY <1>1, <1>2 DEF OnlyOneOwns
  <1>6. QueuesWait'
    <2>1. /\ \A i \in 1..Len(waiters) : waiters[i] \in Callers
          /\ \A i \in 1..Len(woken) : woken[i] \in Callers
      BY DEF TypeOK
    <2> QED BY <1>1, <1>2, <2>1 DEF QueuesWait
  <1>7. SettledLeavesOne'
    BY <1>2 DEF SettledLeavesOne
  <1>8. ForcedAnswersAreOwn'
    BY <1>1, <1>2 DEF ForcedAnswersAreOwn, Forced
  <1>9. CommitIsCurrent'
    BY <1>1, <1>2 DEF CommitIsCurrent
  <1>10. NobodyTwice' /\ WaitersHaveCalled'
    BY <1>1, <1>2 DEF NobodyTwice, WaitersHaveCalled
  <1> QED BY <1>3, <1>4, <1>5, <1>6, <1>7, <1>8, <1>9, <1>10

(* A call of read() by a caller that is idle or has just been woken. *)
LEMMA Reads ==
    ASSUME Inv, NEW c \in Callers, caller[c].pc \in {"idle", "wait"},
           NEW call \in CallerRecords, call.budget \in Budgets, call.since <= world,
           UNCHANGED worldVars,
           \A i \in 1..Len(waiters) : waiters[i] # c,
           woken' \in Seq(Callers),
           \A i \in 1..Len(woken') :
               woken'[i] # c /\ caller[woken'[i]].pc = "wait"
               /\ \A j \in 1..Len(waiters) : woken'[i] # waiters[j],
           \A i, j \in 1..Len(woken') : woken'[i] = woken'[j] => i = j,
           woken' # <<>> => last # Nothing,
           \/ Wait(c, call)
           \/ AnswerOrBegin(c, call) /\ UNCHANGED waiters
           \/ /\ ~Forced(c) /\ last # Nothing
              /\ AnswerCurrent(c, call)
              /\ UNCHANGED <<attemptAt, failures, budget, pending, catalogue, waiters>>
    PROVE  Inv'
  <1> USE DEF Inv
  <1>0. /\ now \in Nat /\ world \in Nat /\ call.since \in Nat
        /\ UNCHANGED <<now, world>>
        /\ waiters \in Seq(Callers) /\ woken \in Seq(Callers)
        /\ caller \in [Callers -> CallerRecords]
        /\ \A i \in 1..Len(waiters) : waiters[i] \in Callers
        /\ \A i \in 1..Len(woken') : woken'[i] \in Callers
        /\ pending # Nothing => pending.by \in Callers /\ pending.by # c
    BY DEF TypeOK, worldVars, CallerRecords, PendingIsOwned, Pending
  <1>1. CASE Wait(c, call)
    <2> DEFINE record == [call EXCEPT !.pc = "wait"]
    <2>1. /\ record \in CallerRecords /\ record.pc = "wait"
          /\ record.budget \in Budgets /\ record.since <= world
      BY DEF CallerRecords, Steps
    <2>2. caller' = [caller EXCEPT ![c] = record] /\ waiters' = Append(waiters, c)
          /\ UNCHANGED <<last, attemptAt, failures, budget, pending, catalogue>>
          /\ pending # Nothing
      BY <1>1 DEF Wait, serviceVars
    <2> HIDE DEF record
    <2>3. /\ caller' \in [Callers -> CallerRecords] /\ caller'[c] = record
          /\ \A d \in Callers : d # c => caller'[d] = caller[d]
          /\ waiters' \in Seq(Callers)
          /\ Len(waiters') = Len(waiters) + 1 /\ waiters'[Len(waiters) + 1] = c
          /\ \A i \in 1..Len(waiters) : waiters'[i] = waiters[i]
      BY <1>0, <2>1, <2>2
    <2>4. TypeOK'
      BY <1>0, <2>2, <2>3 DEF TypeOK
    <2>5. PendingIsOwned' /\ OnlyOneOwns'
      BY <1>0, <2>1, <2>2, <2>3 DEF PendingIsOwned, OnlyOneOwns, Forced
    <2>6. QueuesWait' /\ NobodyTwice'
      <3>1. QueuesWait'
        <4>1. ASSUME NEW i \in 1..Len(waiters') PROVE caller'[waiters'[i]].pc = "wait"
          <5>1. i \in 1..Len(waiters) \/ i = Len(waiters) + 1
            BY <1>0, <2>3
          <5>2. CASE i \in 1..Len(waiters)
            <6>1. waiters'[i] = waiters[i] /\ waiters[i] \in Callers /\ waiters[i] # c
              BY <1>0, <2>3, <5>2
            <6>2. caller[waiters[i]].pc = "wait"
              BY <5>2 DEF QueuesWait
            <6> QED BY <2>3, <6>1, <6>2
          <5>3. CASE i = Len(waiters) + 1
            BY <2>1, <2>3, <5>3
          <5> QED BY <5>1, <5>2, <5>3
        <4>2. ASSUME NEW i \in 1..Len(woken') PROVE caller'[woken'[i]].pc = "wait"
          BY <1>0, <2>3
        <4> QED BY <4>1, <4>2 DEF QueuesWait
      <3>2. NobodyTwice'
        BY <1>0, <2>2, <2>3 DEF NobodyTwice
      <3> QED  BY <3>1, <3>2
    <2>7. WaitersHaveCalled' /\ SettledLeavesOne'
      BY <1>0, <2>1, <2>2, <2>3 DEF WaitersHaveCalled, SettledLeavesOne
    <2>8. ForcedAnswersAreOwn' /\ CommitIsCurrent'
      BY <1>0, <2>1, <2>2, <2>3 DEF ForcedAnswersAreOwn, CommitIsCurrent, Forced, PastRevalidation
    <2> QED BY <2>4, <2>5, <2>6, <2>7, <2>8
  <1>2. CASE Begins(c, call) /\ pending = Nothing /\ UNCHANGED <<last, failures, catalogue, waiters>>
    <2> DEFINE record == [call EXCEPT !.pc = "own"]
    <2>1. /\ record \in CallerRecords /\ record.pc = "own"
          /\ record.budget = call.budget /\ record.since = call.since
      BY DEF CallerRecords, Steps
    <2>2. /\ caller' = [caller EXCEPT ![c] = record]
          /\ attemptAt' = now /\ budget' = call.budget
          /\ pending' = [by |-> c, budget |-> call.budget, force |-> Forced(c),
                         phase |-> "catalogue", version |-> world, at |-> 0]
      BY <1>2 DEF Begins
    <2> HIDE DEF record
    <2>3. /\ caller' \in [Callers -> CallerRecords] /\ caller'[c] = record
          /\ \A d \in Callers : d # c => caller'[d] = caller[d]
      BY <1>0, <2>1, <2>2
    <2>4. pending' \in Pending
      BY <1>0, <2>2 DEF Forced, Pending
    <2>5. TypeOK'
      BY <1>0, <1>2, <2>2, <2>3, <2>4 DEF TypeOK
    <2>6. PendingIsOwned'
      BY <1>0, <2>1, <2>2, <2>3 DEF PendingIsOwned, Forced
    <2>7. OnlyOneOwns'
      <3>1. pending' # Nothing /\ pending'.by = c
        BY <2>2, <2>4, SelectionConstants
      <3> QED BY <1>2, <2>1, <2>3, <3>1 DEF OnlyOneOwns
    <2>8. QueuesWait' /\ NobodyTwice'
      BY <1>0, <1>2, <2>1, <2>2, <2>3 DEF QueuesWait, NobodyTwice
    <2>9. WaitersHaveCalled' /\ SettledLeavesOne'
      BY <1>0, <1>2, <2>1, <2>2, <2>3 DEF WaitersHaveCalled, SettledLeavesOne
    <2>10. ForcedAnswersAreOwn' /\ CommitIsCurrent'
      BY <1>0, <2>1, <2>2, <2>3 DEF ForcedAnswersAreOwn, CommitIsCurrent, Forced, PastRevalidation
    <2> QED BY <2>5, <2>6, <2>7, <2>8, <2>9, <2>10
  <1>3. CASE /\ AnswerCurrent(c, call) /\ ~Forced(c) /\ last # Nothing
             /\ UNCHANGED <<attemptAt, failures, budget, pending, catalogue, waiters>>
    <2> DEFINE record == [call EXCEPT !.pc = "got", !.answer = Aged(last)]
    <2>1. last \in Observations /\ Aged(last) \in Observations
      BY <1>3, AgedType DEF TypeOK
    <2>2. /\ record \in CallerRecords /\ record.pc = "got"
      BY <2>1 DEF CallerRecords, Steps
    <2>3. caller' = [caller EXCEPT ![c] = record] /\ last' = Aged(last)
      BY <1>3 DEF AnswerCurrent
    <2> HIDE DEF record
    <2>4. /\ caller' \in [Callers -> CallerRecords] /\ caller'[c] = record
          /\ \A d \in Callers : d # c => caller'[d] = caller[d]
      BY <1>0, <2>2, <2>3
    <2>5. TypeOK'
      BY <1>0, <1>3, <2>1, <2>3, <2>4 DEF TypeOK
    <2>6. PendingIsOwned' /\ OnlyOneOwns'
      BY <1>0, <1>3, <2>2, <2>4 DEF PendingIsOwned, OnlyOneOwns, Forced
    <2>7. QueuesWait' /\ NobodyTwice'
      BY <1>0, <1>3, <2>2, <2>4 DEF QueuesWait, NobodyTwice
    <2>8. WaitersHaveCalled' /\ SettledLeavesOne'
      BY <1>0, <1>3, <2>1, <2>2, <2>3, <2>4, SelectionConstants DEF WaitersHaveCalled, SettledLeavesOne
    <2>9. ForcedAnswersAreOwn'
      BY <1>0, <1>3, <2>2, <2>4 DEF ForcedAnswersAreOwn, Forced
    <2>10. CommitIsCurrent'
      BY <1>0, <2>2, <2>4 DEF CommitIsCurrent, PastRevalidation
    <2> QED BY <2>5, <2>6, <2>7, <2>8, <2>9, <2>10
  <1>4. CASE AnswerOrBegin(c, call) /\ UNCHANGED waiters
    <2>1. CASE MayAnswerFromCache(c, call.budget) /\ AnswerCurrent(c, call)
               /\ UNCHANGED <<attemptAt, budget, pending>>
      BY <1>3, <1>4, <2>1 DEF AnswerOrBegin, MayAnswerFromCache
    <2>2. CASE Begins(c, call) /\ UNCHANGED last
      BY <1>2, <1>4, <2>2 DEF AnswerOrBegin
    <2> QED BY <1>4, <2>1, <2>2 DEF AnswerOrBegin
  <1> QED BY <1>1, <1>3, <1>4

(* The outcome of the pending read. *)
LEMMA Settles ==
    ASSUME Inv, Quiet, pending # Nothing, NEW observation \in Observations,
           Settled(observation), failures' \in 0..3,
           observation.ready => observation.version = pending.version
                                /\ observation.budget = pending.budget
    PROVE  Inv'
  <1> USE DEF Inv
  <1> DEFINE c == pending.by
             record == [caller[c] EXCEPT !.pc = "got", !.answer = observation]
  <1>0. /\ pending \in Pending /\ c \in Callers
        /\ caller \in [Callers -> CallerRecords] /\ caller[c] \in CallerRecords
        /\ caller[c].pc = "own" /\ pending.budget = caller[c].budget
        /\ pending.force = Forced(c) /\ (Forced(c) => pending.version >= caller[c].since)
        /\ \A d \in Callers : d # c => caller[d].pc # "own"
        /\ waiters \in Seq(Callers) /\ \A i \in 1..Len(waiters) : waiters[i] \in Callers
    BY DEF TypeOK, Pending, PendingIsOwned, OnlyOneOwns
  <1>1. /\ last' = observation /\ pending' = Nothing
        /\ woken' = waiters /\ waiters' = <<>> /\ woken = <<>>
        /\ UNCHANGED <<now, world, attemptAt, budget, catalogue>>
        /\ caller' = [caller EXCEPT ![c] = record]
    BY <1>0 DEF Settled, worldVars, Quiet
  <1>2. /\ record \in CallerRecords /\ record.pc = "got" /\ record.answer = observation
        /\ record.budget = caller[c].budget /\ record.since = caller[c].since
    BY <1>0 DEF CallerRecords, Steps
  <1> HIDE DEF record, c
  <1>3. /\ caller' \in [Callers -> CallerRecords] /\ caller'[c] = record
        /\ \A d \in Callers : d # c => caller'[d] = caller[d]
    BY <1>0, <1>1, <1>2
  <1>4. TypeOK'
    BY <1>0, <1>1, <1>3 DEF TypeOK
  <1>5. PendingIsOwned' /\ OnlyOneOwns'
    BY <1>0, <1>1, <1>2, <1>3 DEF PendingIsOwned, OnlyOneOwns
  <1>6. QueuesWait' /\ NobodyTwice'
    BY <1>0, <1>1, <1>3 DEF QueuesWait, NobodyTwice
  <1>7. WaitersHaveCalled' /\ SettledLeavesOne'
    BY <1>0, <1>1, <1>2, <1>3, SelectionConstants DEF WaitersHaveCalled, SettledLeavesOne
  <1>8. ForcedAnswersAreOwn'
    BY <1>0, <1>1, <1>2, <1>3 DEF ForcedAnswersAreOwn, Forced
  <1>9. CommitIsCurrent'
    BY <1>0, <1>1, <1>2, <1>3 DEF CommitIsCurrent, PastRevalidation
  <1> QED BY <1>4, <1>5, <1>6, <1>7, <1>8, <1>9

(* The catalogue arrives: at least as recent as the request, unless it was cached, which *)
(* a forced read does not accept.                                                        *)
LEMMA Fetches ==
    ASSUME Inv, NEW seen \in 0..MaxVersion, FetchCatalogue(seen)
    PROVE  Inv'
  <1> USE DEF Inv
  <1>0. /\ pending \in Pending /\ pending # Nothing /\ pending.version <= seen
        /\ pending.by \in Callers /\ seen \in Nat /\ now \in Nat
    BY SelectionConstants DEF FetchCatalogue, TypeOK, Pending
  <1>1. UNCHANGED <<now, world, last, attemptAt, failures, budget, waiters, woken, caller>>
    BY DEF FetchCatalogue, worldVars
  <1>2. /\ catalogue' = IF UsesCache THEN catalogue ELSE [version |-> seen, at |-> now]
        /\ pending' = [pending EXCEPT !.phase = "evidence", !.version = catalogue'.version,
                                      !.at = catalogue'.at]
    BY DEF FetchCatalogue
  <1>3. catalogue' \in [version : Nat, at : Nat]
    BY <1>0, <1>2 DEF UsesCache, TypeOK
  <1>4. /\ pending' \in Pending /\ pending'.by = pending.by /\ pending'.budget = pending.budget
        /\ pending'.force = pending.force
        /\ pending.force => pending'.version >= pending.version
    <2>1. pending.force => catalogue'.version = seen
      BY <1>2 DEF UsesCache
    <2>2. catalogue'.version \in Nat /\ catalogue'.at \in Nat
      BY <1>3
    <2>3. /\ pending' \in Pending /\ pending'.by = pending.by
          /\ pending'.budget = pending.budget /\ pending'.force = pending.force
          /\ pending'.version = catalogue'.version
      BY <1>0, <1>2, <2>2 DEF Pending
    <2> QED BY <1>0, <2>1, <2>3
  <1>5. TypeOK'
    BY <1>1, <1>3, <1>4 DEF TypeOK
  <1>6. PendingIsOwned'
    <2>1. caller[pending.by].since \in Nat /\ pending.version \in Nat /\ pending'.version \in Nat
      BY <1>0, <1>4, CallersType DEF Pending
    <2> QED BY <1>0, <1>1, <1>4, <2>1 DEF PendingIsOwned, Forced
  <1>7. OnlyOneOwns'
    BY <1>0, <1>1, <1>4, SelectionConstants DEF OnlyOneOwns
  <1> QED
    BY <1>1, <1>5, <1>6, <1>7
    DEF QueuesWait, NobodyTwice, WaitersHaveCalled, SettledLeavesOne, ForcedAnswersAreOwn,
        CommitIsCurrent

LEMMA InitEstablishes == Init => Inv
  <1> SUFFICES ASSUME Init PROVE Inv
    OBVIOUS
  <1>1. TypeOK
    BY DEF Init, TypeOK, Free, CallerRecords, Steps
  <1>2. \A c \in Callers : caller[c].pc = "idle"
    BY DEF Init, Free
  <1> QED
    BY <1>1, <1>2
    DEF Init, Inv, PendingIsOwned, OnlyOneOwns, QueuesWait, NobodyTwice, WaitersHaveCalled,
        SettledLeavesOne, ForcedAnswersAreOwn, CommitIsCurrent, PastRevalidation

LEMMA StepPreserves == Inv /\ [Next]_vars => Inv'
  <1> SUFFICES ASSUME Inv, [Next]_vars PROVE Inv'
    OBVIOUS
  <1> USE DEF Inv
  <1>1. CASE UNCHANGED vars
    BY <1>1
    DEF vars, worldVars, serviceVars, TypeOK, PendingIsOwned, OnlyOneOwns, QueuesWait,
        NobodyTwice, WaitersHaveCalled, SettledLeavesOne, ForcedAnswersAreOwn,
        CommitIsCurrent, Forced
  <1>2. CASE \E seen \in 0..MaxVersion : FetchCatalogue(seen)
    BY <1>2, Fetches
  <1>3. ASSUME NEW complete \in BOOLEAN, NEW retryable \in BOOLEAN,
               Succeed(complete, retryable)
        PROVE  Inv'
    <2> DEFINE observation == IF complete
                              THEN [ready |-> TRUE, version |-> pending.version,
                                    at |-> pending.at, budget |-> pending.budget]
                              ELSE NotReady
    <2>1. pending \in Pending /\ pending # Nothing /\ Quiet /\ failures \in 0..3
      BY <1>3 DEF Succeed, TypeOK
    <2>2. /\ observation \in Observations
          /\ observation.ready => observation.version = pending.version
                                   /\ observation.budget = pending.budget
      BY <2>1 DEF Observations, Ready, NotReady, Pending
    <2>3. failures' \in 0..3 /\ Settled(observation)
      BY <1>3, <2>1 DEF Succeed, FailOnce
    <2> HIDE DEF observation
    <2> QED BY <2>1, <2>2, <2>3, Settles
  <1>4. CASE Fail
    <2>1. /\ pending # Nothing /\ Quiet /\ Settled(NotReady) /\ failures' \in 0..3
          /\ NotReady \in Observations /\ ~NotReady.ready
      BY <1>4 DEF Fail, TypeOK, FailOnce, Observations, NotReady
    <2> QED BY <2>1, Settles
  <1>5. ASSUME NEW c \in Callers, NEW b \in BudgetsOf[c], Read(c, b)
        PROVE  Inv'
    <2> DEFINE call == Call(c, b)
    <2>1. b \in Budgets /\ world \in Nat
      BY SelectionConstants DEF TypeOK
    <2>2. /\ call \in CallerRecords /\ call.budget \in Budgets /\ call.since <= world
      BY <2>1 DEF Call, CallerRecords, Steps
    <2>3. /\ caller[c].pc = "idle" /\ woken = <<>> /\ woken' = woken
          /\ UNCHANGED worldVars
          /\ \/ Wait(c, call)
             \/ AnswerOrBegin(c, call) /\ UNCHANGED waiters
      BY <1>5 DEF Read, Quiet
    <2> HIDE DEF call
    <2>4. \A i \in 1..Len(waiters) : waiters[i] # c
      BY <2>3 DEF QueuesWait
    <2>5. woken' \in Seq(Callers) /\ 1..Len(woken') = {}
      BY <2>3
    <2> QED BY <2>2, <2>3, <2>4, <2>5, Reads
  <1>6. ASSUME NEW c \in Callers, Wake(c)
        PROVE  Inv'
    <2>1. /\ woken \in Seq(Callers) /\ woken # <<>> /\ c = woken[1] /\ woken' = Tail(woken)
          /\ waiters \in Seq(Callers) /\ UNCHANGED worldVars
      BY <1>6 DEF Wake, TypeOK
    <2>2. /\ Len(woken) \in Nat /\ Len(woken) >= 1 /\ Len(woken') = Len(woken) - 1
          /\ woken' \in Seq(Callers)
          /\ \A i \in 1..Len(woken') : woken'[i] = woken[i + 1] /\ i + 1 \in 1..Len(woken)
      BY <2>1
    <2>3. caller[c].pc = "wait" /\ caller[c] \in CallerRecords
          /\ caller[c].budget \in Budgets /\ caller[c].since <= world
      BY <2>1, <2>2 DEF QueuesWait, WaitersHaveCalled, TypeOK
    <2>4. /\ \A i \in 1..Len(waiters) : waiters[i] # c
          /\ \A i \in 1..Len(woken') :
                woken'[i] # c /\ caller[woken'[i]].pc = "wait"
                /\ \A j \in 1..Len(waiters) : woken'[i] # waiters[j]
          /\ \A i, j \in 1..Len(woken') : woken'[i] = woken'[j] => i = j
      BY <2>1, <2>2 DEF QueuesWait, NobodyTwice
    <2>5. last # Nothing
      BY <2>1 DEF SettledLeavesOne
    <2>6. \/ Wait(c, caller[c])
          \/ AnswerOrBegin(c, caller[c]) /\ UNCHANGED waiters
          \/ /\ ~Forced(c) /\ last # Nothing
             /\ AnswerCurrent(c, caller[c])
             /\ UNCHANGED <<attemptAt, failures, budget, pending, catalogue, waiters>>
      BY <1>6, <2>5 DEF Wake, Joined
    <2> QED BY <2>1, <2>2, <2>3, <2>4, <2>5, <2>6, Reads
  <1>7. ASSUME NEW c \in Callers,
               Observe(c) \/ Revalidate(c) \/ Plan(c) \/ CheckPurchase(c) \/ Done(c)
        PROVE  Inv'
    <2>1. /\ UNCHANGED <<worldVars, serviceVars, waiters, woken>>
          /\ caller[c].pc \notin {"own", "wait"}
          /\ \/ caller' = [caller EXCEPT ![c] = Free]
             \/ Revalidate(c) /\ Verified(c) /\ Goto(c, "plan")
             \/ Plan(c) /\ Plannable(c) /\ Goto(c, "commit")
             \/ caller' = [caller EXCEPT ![c].pc = "sign"]
      BY <1>7 DEF Observe, Revalidate, Plan, CheckPurchase, Done, Leave, Goto
    <2>2. CASE caller' = [caller EXCEPT ![c] = Free]
      <3>1. Free \in CallerRecords /\ Free.pc = "idle"
        BY DEF Free, CallerRecords, Steps
      <3> QED BY <2>1, <2>2, <3>1, MovesAlone DEF PastRevalidation
    <2>3. ASSUME NEW step \in {"plan", "commit", "sign"}, Goto(c, step),
                 step # "sign" =>
                     /\ caller[c].answer.ready
                     /\ caller[c].answer.version >= caller[c].since
                     /\ caller[c].answer.budget = caller[c].budget
          PROVE  Inv'
      <3> DEFINE record == [caller[c] EXCEPT !.pc = step]
      <3>1. /\ record \in CallerRecords /\ record.pc = step
            /\ record.answer = caller[c].answer /\ record.since = caller[c].since
            /\ record.budget = caller[c].budget
        BY <2>3 DEF TypeOK, CallerRecords, Steps
      <3>2. caller' = [caller EXCEPT ![c] = record]
        BY <2>3 DEF Goto
      <3> HIDE DEF record
      <3> QED BY <2>1, <2>3, <3>1, <3>2, MovesAlone DEF PastRevalidation
    <2>4. CASE Revalidate(c) /\ Verified(c) /\ Goto(c, "plan")
      <3>1. caller[c].pc = "got" /\ Forced(c) /\ caller[c].answer.ready
        BY <2>4 DEF Revalidate, Verified, Forced
      <3> QED BY <2>3, <2>4, <3>1 DEF ForcedAnswersAreOwn
    <2>5. CASE Plan(c) /\ Plannable(c) /\ Goto(c, "commit")
      BY <2>3, <2>5 DEF Plan, CommitIsCurrent, PastRevalidation
    <2>6. CASE caller' = [caller EXCEPT ![c].pc = "sign"]
      BY <2>3, <2>6 DEF Goto
    <2> QED BY <2>1, <2>2, <2>4, <2>5, <2>6
  <1>8. CASE Tick \/ WorldChanges
    <2>1. /\ now' \in Nat /\ world' \in Nat /\ world <= world'
          /\ UNCHANGED <<catalogue, last, attemptAt, failures, budget, pending, waiters, woken,
                         caller>>
      BY <1>8 DEF Tick, WorldChanges, serviceVars, TypeOK
    <2>2. \A c \in Callers : caller[c].since \in Nat
      BY CallersType
    <2>3. TypeOK'
      BY <2>1 DEF TypeOK
    <2>4. WaitersHaveCalled'
      BY <2>1, <2>2 DEF WaitersHaveCalled, TypeOK
    <2> QED
      BY <2>1, <2>3, <2>4
      DEF PendingIsOwned, OnlyOneOwns, QueuesWait, NobodyTwice, SettledLeavesOne,
          ForcedAnswersAreOwn, CommitIsCurrent, Forced
  <1> QED
    BY <1>1, <1>2, <1>3, <1>4, <1>5, <1>6, <1>7, <1>8 DEF Next, Provider, CallerStep

-----------------------------------------------------------------------------
(* How a caller's record may change *)

(* An answer that says ready is of data that is fresh as it is given. *)
FreshAnswer(record) ==
    record.pc = "got" /\ (record.answer.ready => Fresh(record.answer.at, MaxDataAge))

(* A signature rests on a route verified for its own amount. *)
OwnRoute(record) == record.answer.ready /\ record.answer.budget = record.budget

(* What one step may turn the record of a caller into. *)
CallerTurn(record, next) ==
    \/ next = record
    \/ next.pc \in {"idle", "wait", "own", "plan", "commit"}
    \/ FreshAnswer(next)
    \/ next.pc = "sign" /\ OwnRoute(next)

LEMMA AgedIsFresh ==
    ASSUME NEW observation \in Observations, Aged(observation).ready
    PROVE  Fresh(Aged(observation).at, MaxDataAge)
  BY DEF Aged, Observations, NotReady

(* A read is answered at once with the current observation, begun, or waits. *)
LEMMA ReadTurns ==
    ASSUME Inv, NEW c \in Callers, NEW call \in CallerRecords, NEW d \in Callers,
           \/ Wait(c, call)
           \/ AnswerOrBegin(c, call)
           \/ AnswerCurrent(c, call) /\ last # Nothing
    PROVE  CallerTurn(caller[d], caller'[d])
  <1>1. /\ caller \in [Callers -> CallerRecords]
        /\ last \in Observations \cup {Nothing}
    BY DEF Inv, TypeOK
  <1>2. CASE Wait(c, call)
    <2>1. caller'[c].pc = "wait" /\ (d # c => caller'[d] = caller[d])
      BY <1>1, <1>2 DEF Wait, CallerRecords
    <2> QED  BY <2>1 DEF CallerTurn
  <1>3. CASE AnswerCurrent(c, call) /\ last # Nothing
    <2>1. /\ caller'[c].pc = "got" /\ caller'[c].answer = Aged(last)
          /\ d # c => caller'[d] = caller[d]
      BY <1>1, <1>3 DEF AnswerCurrent, CallerRecords
    <2>2. last \in Observations
      BY <1>1, <1>3
    <2>3. FreshAnswer(caller'[c])
      BY <2>1, <2>2, AgedIsFresh DEF FreshAnswer
    <2> QED  BY <2>1, <2>3 DEF CallerTurn
  <1>4. CASE Begins(c, call)
    <2>1. caller'[c].pc = "own" /\ (d # c => caller'[d] = caller[d])
      BY <1>1, <1>4 DEF Begins, CallerRecords
    <2> QED  BY <2>1 DEF CallerTurn
  <1> QED  BY <1>2, <1>3, <1>4 DEF AnswerOrBegin, MayAnswerFromCache

(* The pending read is answered with the data it has just been checked to be fresh of. *)
LEMMA OutcomeTurns ==
    ASSUME Inv, NEW d \in Callers, pending # Nothing, NEW observation,
           Settled(observation),
           observation.ready => Fresh(observation.at, MaxDataAge)
    PROVE  CallerTurn(caller[d], caller'[d])
  <1> DEFINE c == pending.by
  <1>1. caller \in [Callers -> CallerRecords] /\ c \in Callers
    BY DEF Inv, TypeOK, Pending
  <1>2. /\ caller'[c].pc = "got" /\ caller'[c].answer = observation
        /\ d # c => caller'[d] = caller[d]
    BY <1>1 DEF Settled, CallerRecords
  <1>3. FreshAnswer(caller'[c])
    BY <1>2 DEF FreshAnswer
  <1> QED  BY <1>2, <1>3 DEF CallerTurn

LEMMA StepsTurn ==
    ASSUME Inv, [Next]_vars, NEW d \in Callers
    PROVE  CallerTurn(caller[d], caller'[d])
  <1>0. caller \in [Callers -> CallerRecords]
    BY DEF Inv, TypeOK
  <1>1. CASE UNCHANGED caller
    BY <1>1 DEF CallerTurn
  <1>2. ASSUME NEW complete \in BOOLEAN, NEW retryable \in BOOLEAN, Succeed(complete, retryable)
        PROVE  CallerTurn(caller[d], caller'[d])
    <2> DEFINE observation == IF complete
                              THEN [ready |-> TRUE, version |-> pending.version,
                                    at |-> pending.at, budget |-> pending.budget]
                              ELSE NotReady
    <2>1. /\ pending # Nothing /\ Settled(observation)
          /\ observation.ready => Fresh(observation.at, MaxDataAge)
      BY <1>2 DEF Succeed, NotReady
    <2> HIDE DEF observation
    <2> QED  BY <2>1, OutcomeTurns
  <1>3. CASE Fail
    <2>1. pending # Nothing /\ Settled(NotReady) /\ ~NotReady.ready
      BY <1>3 DEF Fail, NotReady
    <2> QED  BY <2>1, OutcomeTurns
  <1>4. ASSUME NEW c \in Callers, NEW b \in BudgetsOf[c], Read(c, b)
        PROVE  CallerTurn(caller[d], caller'[d])
    <2> DEFINE call == Call(c, b)
    <2>1. call \in CallerRecords
      BY SelectionConstants DEF Call, CallerRecords, Steps, Inv, TypeOK
    <2>2. Wait(c, call) \/ AnswerOrBegin(c, call)
      BY <1>4 DEF Read
    <2> HIDE DEF call
    <2> QED  BY <2>1, <2>2, ReadTurns
  <1>5. ASSUME NEW c \in Callers, Wake(c)
        PROVE  CallerTurn(caller[d], caller'[d])
    <2>1. woken # <<>> /\ last # Nothing /\ caller[c] \in CallerRecords
      BY <1>0, <1>5 DEF Wake, Inv, SettledLeavesOne
    <2>2. \/ Wait(c, caller[c])
          \/ AnswerOrBegin(c, caller[c])
          \/ AnswerCurrent(c, caller[c]) /\ last # Nothing
      BY <1>5, <2>1 DEF Wake
    <2> QED  BY <2>1, <2>2, ReadTurns
  <1>6. ASSUME NEW c \in Callers,
               Observe(c) \/ Revalidate(c) \/ Plan(c) \/ CheckPurchase(c) \/ Done(c)
        PROVE  CallerTurn(caller[d], caller'[d])
    <2>1. \/ caller' = [caller EXCEPT ![c] = Free]
          \/ caller' = [caller EXCEPT ![c].pc = "plan"]
          \/ caller' = [caller EXCEPT ![c].pc = "commit"]
          \/ CheckPurchase(c) /\ MemberQualifies(c) /\ caller' = [caller EXCEPT ![c].pc = "sign"]
      BY <1>6 DEF Observe, Revalidate, Plan, CheckPurchase, Done, Leave, Goto
    <2>2. CASE caller' = [caller EXCEPT ![c] = Free]
      BY <1>0, <2>2 DEF CallerTurn, Free
    <2>3. CASE \/ caller' = [caller EXCEPT ![c].pc = "plan"]
               \/ caller' = [caller EXCEPT ![c].pc = "commit"]
      BY <1>0, <2>3 DEF CallerTurn, CallerRecords
    <2>4. CASE CheckPurchase(c) /\ MemberQualifies(c) /\ caller' = [caller EXCEPT ![c].pc = "sign"]
      <3>1. /\ caller'[c].pc = "sign" /\ caller'[c].answer = caller[c].answer
            /\ caller'[c].budget = caller[c].budget
            /\ d # c => caller'[d] = caller[d]
        BY <1>0, <2>4 DEF CallerRecords
      <3>2. OwnRoute(caller'[c])
        BY <2>4, <3>1 DEF MemberQualifies, OwnRoute
      <3> QED  BY <3>1, <3>2 DEF CallerTurn
    <2> QED  BY <2>1, <2>2, <2>3, <2>4
  <1>7. CASE (\E seen \in 0..MaxVersion : FetchCatalogue(seen)) \/ Tick \/ WorldChanges \/ UNCHANGED vars
    BY <1>1, <1>7 DEF FetchCatalogue, Tick, WorldChanges, vars
  <1> QED
    BY <1>2, <1>3, <1>4, <1>5, <1>6, <1>7 DEF Next, Provider, CallerStep

-----------------------------------------------------------------------------
(* The theorems *)

(* The variables stay within their types, for any number of callers. *)
THEOREM TypesHold == Spec => []TypeOK
  <1>1. Inv => TypeOK
    BY DEF Inv
  <1> QED BY <1>1, InitEstablishes, StepPreserves, PTL DEF Spec

(* Every round rests on a catalogue that was requested after its commitment had been     *)
(* authorized, ready, and with routes verified for its own leg, however the reads of the *)
(* service are joined, cached and repeated.                                              *)
THEOREM CommitmentsAreCurrent == Spec => []CommitIsCurrent
  <1>1. Inv => CommitIsCurrent
    BY DEF Inv
  <1> QED BY <1>1, InitEstablishes, StepPreserves, PTL DEF Spec

(* No purchase is signed on a route verified for another amount, though a reader that    *)
(* waited may be answered with what another one observed (worker/main.ts:33).            *)
THEOREM SwapsAreRouted == Spec => []SwapsRouteTheirOwnAmount
  <1>1. Init => SwapsRouteTheirOwnAmount
    BY DEF Init, Free, SwapsRouteTheirOwnAmount
  <1>2. Inv /\ SwapsRouteTheirOwnAmount /\ [Next]_vars => SwapsRouteTheirOwnAmount'
    <2> SUFFICES ASSUME Inv, SwapsRouteTheirOwnAmount, [Next]_vars,
                        NEW c \in Callers, caller'[c].pc = "sign"
                 PROVE  OwnRoute(caller'[c])
      BY DEF SwapsRouteTheirOwnAmount, OwnRoute
    <2>1. CallerTurn(caller[c], caller'[c])
      BY StepsTurn
    <2> QED  BY <2>1 DEF CallerTurn, FreshAnswer, OwnRoute, SwapsRouteTheirOwnAmount
  <1> QED  BY <1>1, <1>2, InitEstablishes, StepPreserves, PTL DEF Spec

(* Whoever is told that a selection is ready is told so of fresh data: a cached or joined *)
(* observation is aged before it is handed out (automatic-selection.ts:25-31, 47-54).     *)
THEOREM AnswersAreFresh == Spec => ReadyIsFresh
  <1>1. Inv /\ [Next]_vars =>
            [\A c \in Callers :
                caller'[c].pc = "got" /\ caller[c].pc # "got" /\ caller'[c].answer.ready
                    => Fresh(caller'[c].answer.at, MaxDataAge)]_vars
    <2> SUFFICES ASSUME Inv, [Next]_vars, NEW c \in Callers,
                        caller'[c].pc = "got", caller[c].pc # "got", caller'[c].answer.ready
                 PROVE  Fresh(caller'[c].answer.at, MaxDataAge)
      OBVIOUS
    <2>1. CallerTurn(caller[c], caller'[c])
      BY StepsTurn
    <2> QED  BY <2>1 DEF CallerTurn, FreshAnswer
  <1> QED  BY <1>1, InitEstablishes, StepPreserves, PTL DEF Spec, ReadyIsFresh

-----------------------------------------------------------------------------
(* The basket *)

(* Rows of the catalogue, candidates and members of a saved universe. *)
Reasons == {"conflict", "duplicate", "unsound"}
Copy == [mint : Nat, pool : Nat, value : Nat, sound : BOOLEAN, reasons : SUBSET Reasons]

(* What may be chosen from a set of copies: one that qualifies and no other copy contradicts. *)
Clean(x) == [mint |-> x.mint, pool |-> x.pool, value |-> x.value, sound |-> x.sound, reasons |-> {}]
Agrees(T, x) == x.sound /\ x.value > 0 /\ \A y \in T : y.mint = x.mint => y = x
Agreed(T) == {Clean(x) : x \in {y \in T : Agrees(T, y)}}

(* At most one copy of a mint. *)
OnePerMint(S) == \A x, y \in S : x.mint = y.mint => x = y

(* Keys in lexicographic order, and equal ones by position. *)
Lower(p, q, k, n) == p[k] < p[n] \/ (p[k] = p[n] /\ q[k] < q[n])

LEMMA PositionsOrder ==
  ASSUME NEW P \in SUBSET Int, NEW p, NEW q, NEW R,
         \A n \in P : p[n] \in Int /\ q[n] \in Int,
         \A k, n \in P : <<k, n>> \in R <=> Lower(p, q, k, n) \/ (~Lower(p, q, n, k) /\ k < n)
  PROVE  StrictOrder(R, P)
<1>1. ASSUME NEW x \in P PROVE <<x, x>> \notin R
  BY <1>1 DEF Lower
<1>2. ASSUME NEW x \in P, NEW y \in P, NEW z \in P, <<x, y>> \in R, <<y, z>> \in R
      PROVE  <<x, z>> \in R
  <2>1. /\ Lower(p, q, x, y) \/ (~Lower(p, q, y, x) /\ x < y)
        /\ Lower(p, q, y, z) \/ (~Lower(p, q, z, y) /\ y < z)
    BY <1>2
  <2>2. Lower(p, q, x, z) \/ (~Lower(p, q, z, x) /\ x < z)
    BY <2>1, SMTT(30) DEF Lower
  <2>. QED
    BY <2>2
<1>3. ASSUME NEW x \in P, NEW y \in P PROVE x = y \/ <<x, y>> \in R \/ <<y, x>> \in R
  <2>1. x = y \/ x < y \/ y < x
    OBVIOUS
  <2>2. ~(Lower(p, q, x, y) /\ Lower(p, q, y, x))
    BY SMTT(30) DEF Lower
  <2>. QED
    BY <2>1, <2>2
<1>. QED
  BY <1>1, <1>2, <1>3 DEF StrictOrder

(* The position whose element comes i-th. *)
Place(P, R, i) == CHOOSE n \in P : Cardinality(Below(R, P, n)) = i - 1

LEMMA PlacesAre ==
  ASSUME NEW P, IsFiniteSet(P), NEW R, StrictOrder(R, P)
  PROVE  /\ Cardinality(P) \in Nat
         /\ \A i \in 1..Cardinality(P) : Place(P, R, i) \in P
         /\ \A i, j \in 1..Cardinality(P) : i < j => <<Place(P, R, i), Place(P, R, j)>> \in R
         /\ \A i, j \in 1..Cardinality(P) : Place(P, R, i) = Place(P, R, j) => i = j
         /\ \A k \in P : \E i \in 1..Cardinality(P) : Place(P, R, i) = k
<1>. DEFINE n == Cardinality(P)
            at(i) == Place(P, R, i)
<1>1. /\ n \in Nat
      /\ \A x \in P : Rank(R, P, x) \in 0..(n - 1)
      /\ \A x, y \in P : <<x, y>> \in R => Rank(R, P, x) < Rank(R, P, y)
      /\ \A x, y \in P : Rank(R, P, x) = Rank(R, P, y) => x = y
      /\ \A i \in 0..(n - 1) : \E x \in P : Rank(R, P, x) = i
  BY Ranks
<1>2. \A i : at(i) = CHOOSE k \in P : Rank(R, P, k) = i - 1
  BY DEF Place, Rank
<1>. HIDE DEF n, at
<1>3. ASSUME NEW i \in 1..n PROVE at(i) \in P /\ Rank(R, P, at(i)) = i - 1
  <2>1. i - 1 \in 0..(n - 1)
    BY <1>1
  <2>2. \E k \in P : Rank(R, P, k) = i - 1
    BY <1>1, <2>1
  <2>. QED
    BY <1>2, <2>2
<1>4. ASSUME NEW i \in 1..n, NEW j \in 1..n, i < j PROVE <<at(i), at(j)>> \in R
  <2>1. at(i) \in P /\ at(j) \in P /\ Rank(R, P, at(i)) = i - 1 /\ Rank(R, P, at(j)) = j - 1
    BY <1>3
  <2>2. i \in Int /\ j \in Int
    BY <1>1
  <2>3. at(i) # at(j) /\ ~(Rank(R, P, at(j)) < Rank(R, P, at(i)))
    BY <1>4, <2>1, <2>2
  <2>4. at(i) = at(j) \/ <<at(i), at(j)>> \in R \/ <<at(j), at(i)>> \in R
    BY <2>1 DEF StrictOrder
  <2>. QED
    BY <1>1, <2>1, <2>3, <2>4
<1>5. ASSUME NEW i \in 1..n, NEW j \in 1..n, at(i) = at(j) PROVE i = j
  <2>1. i \in Int /\ j \in Int /\ i - 1 = j - 1
    BY <1>1, <1>3, <1>5
  <2>. QED
    BY <2>1
<1>6. ASSUME NEW k \in P PROVE \E i \in 1..n : at(i) = k
  <2>1. Rank(R, P, k) \in 0..(n - 1)
    BY <1>1
  <2>. DEFINE i == Rank(R, P, k) + 1
  <2>2. i \in 1..n /\ i - 1 = Rank(R, P, k)
    BY <1>1, <2>1
  <2>3. at(i) \in P /\ Rank(R, P, at(i)) = Rank(R, P, k)
    BY <1>3, <2>2
  <2>. QED
    BY <1>1, <2>2, <2>3
<1>. QED
  BY <1>1, <1>3, <1>4, <1>5, <1>6 DEF n, at

Ranking(s, P) == Sorted(s, P, Outranks)

(* r is s at the positions P, each once, in the order at, and by rank. *)
Arranges(r, s, P, at) ==
    /\ at \in [1..Cardinality(P) -> P]
    /\ r = [i \in 1..Cardinality(P) |-> s[at[i]]]
    /\ \A i, j \in 1..Cardinality(P) : i < j => Outranks(r[i], r[j]) \/ ~Outranks(r[j], r[i])
    /\ \A i, j \in 1..Cardinality(P) : at[i] = at[j] => i = j
    /\ \A k \in P : \E i \in 1..Cardinality(P) : at[i] = k

(* Sorting by rank arranges the positions so that the elements come by rank. *)
LEMMA RankingIs ==
  ASSUME NEW P \in SUBSET Int, IsFiniteSet(P), NEW s,
         \A n \in P : s[n].mint \in Int /\ s[n].value \in Int
  PROVE  Cardinality(P) \in Nat /\ \E at : Arranges(Ranking(s, P), s, P, at)
<1>. DEFINE size == Cardinality(P)
            r == Ranking(s, P)
            p == [n \in P |-> 0 - s[n].value]
            q == [n \in P |-> s[n].mint]
            R == {e \in P \X P : \/ Outranks(s[e[1]], s[e[2]])
                                 \/ ~Outranks(s[e[2]], s[e[1]]) /\ e[1] < e[2]}
            at == [i \in 1..size |-> Place(P, R, i)]
<1>1. \A k, n \in P : <<k, n>> \in R <=>
         Outranks(s[k], s[n]) \/ (~Outranks(s[n], s[k]) /\ k < n)
  OBVIOUS
<1>2. \A k, n \in P : Outranks(s[k], s[n]) <=> Lower(p, q, k, n)
  BY DEF Outranks, Lower
<1>3. \A n \in P : p[n] \in Int /\ q[n] \in Int
  OBVIOUS
<1>4. r = [i \in 1..size |-> s[Place(P, R, i)]]
  <2>. DEFINE e(n) == {k \in P : Outranks(s[k], s[n]) \/ (~Outranks(s[n], s[k]) /\ k < n)}
              pl(i) == CHOOSE n \in P : Cardinality(e(n)) = i - 1
  <2>1. \A n \in P : Below(R, P, n) = e(n)
    BY <1>1 DEF Below
  <2>2. r = [i \in 1..size |-> s[pl(i)]]
    <3>. HIDE DEF R, p, q, at
    <3>. QED
      BY Zenon DEF Ranking, Sorted
  <2>. HIDE DEF R, e
  <2>3. \A i : pl(i) = Place(P, R, i)
    BY <2>1 DEF Place
  <2>. HIDE DEF pl, r, size
  <2>. QED
    BY <2>2, <2>3
<1>. HIDE DEF R, p, q
<1>5. StrictOrder(R, P)
  BY <1>1, <1>2, <1>3, PositionsOrder
<1>6. /\ size \in Nat
      /\ \A i \in 1..size : Place(P, R, i) \in P
      /\ \A i, j \in 1..size : i < j => <<Place(P, R, i), Place(P, R, j)>> \in R
      /\ \A i, j \in 1..size : Place(P, R, i) = Place(P, R, j) => i = j
      /\ \A k \in P : \E i \in 1..size : Place(P, R, i) = k
  BY <1>5, PlacesAre
<1>7. /\ at \in [1..size -> P] /\ \A i \in 1..size : at[i] = Place(P, R, i) /\ r[i] = s[at[i]]
      /\ r = [i \in 1..size |-> s[at[i]]]
  BY <1>4, <1>6
<1>. HIDE DEF size, r, at
<1>8. ASSUME NEW i \in 1..size, NEW j \in 1..size, i < j
      PROVE  Outranks(r[i], r[j]) \/ ~Outranks(r[j], r[i])
  <2>1. at[i] \in P /\ at[j] \in P /\ <<at[i], at[j]>> \in R
    BY <1>6, <1>7, <1>8
  <2>2. Outranks(s[at[i]], s[at[j]]) \/ ~Outranks(s[at[j]], s[at[i]])
    BY <1>1, <2>1
  <2>. QED
    BY <1>7, <2>2
<1>9. /\ \A i, j \in 1..size : at[i] = at[j] => i = j
      /\ \A k \in P : \E i \in 1..size : at[i] = k
  BY <1>6, <1>7
<1>10. Arranges(r, s, P, at)
  BY <1>7, <1>8, <1>9 DEF Arranges, size
<1>. QED
  BY <1>6, <1>10 DEF size, r

(* Sorting by mint and pool rearranges. *)
LEMMA OrderedIs ==
  ASSUME NEW c \in Seq(Copy)
  PROVE  /\ DOMAIN Ordered(c) = DOMAIN c
         /\ \E at \in [DOMAIN c -> DOMAIN c] :
               /\ \A i \in DOMAIN c : Ordered(c)[i] = c[at[i]]
               /\ \A n \in DOMAIN c : \E i \in DOMAIN c : at[i] = n
               /\ \A i, j \in DOMAIN c : at[i] = at[j] => i = j
<1>. DEFINE D == DOMAIN c
            p == [n \in D |-> c[n].mint]
            q == [n \in D |-> c[n].pool]
            R == {e \in D \X D : \/ Before(c[e[1]], c[e[2]])
                                 \/ ~Before(c[e[2]], c[e[1]]) /\ e[1] < e[2]}
            at == [i \in D |-> Place(D, R, i)]
<1>1. /\ Len(c) \in Nat /\ D = 1..Len(c)
      /\ \A n \in D : n \in Int /\ c[n].mint \in Int /\ c[n].pool \in Int
  <2>1. Len(c) \in Nat /\ D = 1..Len(c) /\ \A n \in 1..Len(c) : c[n] \in Copy
    OBVIOUS
  <2>. QED
    BY <2>1 DEF Copy
<1>2. IsFiniteSet(D) /\ Cardinality(D) = Len(c)
  <2>1. ASSUME NEW l \in Nat PROVE IsFiniteSet(1..l) /\ Cardinality(1..l) = l
    BY FS_Interval
  <2>2. D = 1..Len(c)
    BY <1>1
  <2>. HIDE DEF D
  <2>. QED
    BY <1>1, <2>1, <2>2
<1>3. \A k, n \in D : <<k, n>> \in R <=> Before(c[k], c[n]) \/ (~Before(c[n], c[k]) /\ k < n)
  OBVIOUS
<1>4. \A k, n \in D : Before(c[k], c[n]) <=> Lower(p, q, k, n)
  BY DEF Before, Lower
<1>5. \A n \in D : p[n] \in Int /\ q[n] \in Int
  BY <1>1
<1>6. Ordered(c) = [i \in 1..Cardinality(D) |-> c[Place(D, R, i)]]
  <2>. DEFINE e(n) == {k \in D : Before(c[k], c[n]) \/ (~Before(c[n], c[k]) /\ k < n)}
              pl(i) == CHOOSE n \in D : Cardinality(e(n)) = i - 1
  <2>1. \A n \in D : Below(R, D, n) = e(n)
    BY <1>3 DEF Below
  <2>2. Ordered(c) = [i \in 1..Cardinality(D) |-> c[pl(i)]]
    <3>. HIDE DEF R, p, q, at
    <3>. QED
      BY Zenon DEF Ordered, Sorted
  <2>. HIDE DEF R, e, D
  <2>3. \A i : pl(i) = Place(D, R, i)
    BY <2>1 DEF Place
  <2>. HIDE DEF pl
  <2>. QED
    BY <2>2, <2>3
<1>. HIDE DEF R, p, q, D
<1>7. D \in SUBSET Int
  BY <1>1
<1>8. StrictOrder(R, D)
  BY <1>3, <1>4, <1>5, <1>7, PositionsOrder
<1>9. 1..Cardinality(D) = D
  BY <1>1, <1>2
<1>10. /\ \A i \in D : Place(D, R, i) \in D
       /\ \A i, j \in D : Place(D, R, i) = Place(D, R, j) => i = j
       /\ \A k \in D : \E i \in D : Place(D, R, i) = k
  <2>1. /\ \A i \in 1..Cardinality(D) : Place(D, R, i) \in D
        /\ \A i, j \in 1..Cardinality(D) : Place(D, R, i) = Place(D, R, j) => i = j
        /\ \A k \in D : \E i \in 1..Cardinality(D) : Place(D, R, i) = k
    BY <1>2, <1>8, PlacesAre
  <2>. QED
    BY <1>9, <2>1
<1>11. /\ at \in [D -> D] /\ \A i \in D : at[i] = Place(D, R, i) /\ Ordered(c)[i] = c[at[i]]
       /\ DOMAIN Ordered(c) = D
  BY <1>6, <1>9, <1>10
<1>. HIDE DEF at
<1>12. /\ \A n \in D : \E i \in D : at[i] = n
       /\ \A i, j \in D : at[i] = at[j] => i = j
  BY <1>10, <1>11
<1>. QED
  BY <1>11, <1>12 DEF D

-----------------------------------------------------------------------------
LEMMA PositionsAre ==
  ASSUME NEW c \in Seq(Copy)
  PROVE  /\ Len(c) \in Nat /\ DOMAIN c = 1..Len(c)
         /\ \A n \in DOMAIN c : c[n] \in Copy
         /\ ToSet(c) = {c[n] : n \in DOMAIN c} /\ ToSet(c) \in SUBSET Copy
BY DEF ToSet

(* A mint conflicts when two of its copies differ, however far apart they are. *)
LEMMA ConflictsAre ==
  ASSUME NEW c \in Seq(Copy), NEW m
  PROVE  m \in Conflicts(c) <=>
            \E x, y \in ToSet(c) : x.mint = m /\ y.mint = m /\ x # y
<1>. DEFINE D == DOMAIN c
<1>1. Len(c) \in Nat /\ D = 1..Len(c) /\ ToSet(c) = {c[n] : n \in D}
  BY PositionsAre
<1>. HIDE DEF D
<1>2. m \in Conflicts(c) <=> \E n \in D : c[n].mint = m /\ \E k \in Prior(c, n) : c[k] # c[n]
  BY DEF Conflicts, D
<1>3. ASSUME m \in Conflicts(c)
      PROVE  \E x, y \in ToSet(c) : x.mint = m /\ y.mint = m /\ x # y
  <2>1. PICK n \in D : c[n].mint = m /\ \E k \in Prior(c, n) : c[k] # c[n]
    BY <1>2, <1>3
  <2>2. PICK k \in Prior(c, n) : c[k] # c[n]
    BY <2>1
  <2>3. k \in D /\ c[k].mint = m
    BY <1>1, <2>1, <2>2 DEF Prior
  <2>. QED
    BY <1>1, <2>1, <2>2, <2>3
<1>4. ASSUME NEW x \in ToSet(c), NEW y \in ToSet(c), x.mint = m, y.mint = m, x # y
      PROVE  m \in Conflicts(c)
  <2>. DEFINE A == {n \in D : c[n].mint = m}
  <2>1. A \in SUBSET (1..Len(c)) /\ \E n, k \in A : c[n] = x /\ c[k] = y
    BY <1>1, <1>4
  <2>2. PICK f \in A : \A n \in A : f <= n
    <3>. HIDE DEF A
    <3>. QED
      BY <1>1, <2>1, ExtremesUpTo
  <2>. DEFINE B == {n \in A : c[n] # c[f]}
  <2>3. B \in SUBSET (1..Len(c)) /\ B # {}
    BY <1>4, <2>1
  <2>4. PICK n \in B : \A k \in B : n <= k
    <3>. HIDE DEF B
    <3>. QED
      BY <1>1, <2>3, ExtremesUpTo
  <2>. DEFINE K == {k \in A : k < n}
  <2>5. n \in D /\ n \in A /\ n \in Int /\ c[n].mint = m /\ c[n] # c[f] /\ f <= n /\ f # n
    BY <2>1, <2>2, <2>4
  <2>6. K \in SUBSET (1..Len(c)) /\ f \in K
    BY <2>1, <2>2, <2>5
  <2>7. PICK k \in K : \A j \in K : j <= k
    <3>. HIDE DEF K
    <3>. QED
      BY <1>1, <2>6, ExtremesUpTo
  <2>8. k \in A /\ k \in 1..Len(c) /\ k < n /\ c[k].mint = m
    BY <2>1, <2>7
  <2>9. c[k] # c[n]
    <3>1. k \notin B
      BY <2>4, <2>5, <2>8
    <3>. QED
      BY <2>5, <2>8, <3>1
  <2>10. k \in Prior(c, n)
    <3>1. \A j \in (k + 1)..(n - 1) : c[j].mint # m
      <4>. SUFFICES ASSUME NEW j \in (k + 1)..(n - 1), c[j].mint = m PROVE FALSE
        OBVIOUS
      <4>1. j \in D /\ j < n /\ ~(j <= k)
        BY <1>1, <2>5, <2>8
      <4>. QED
        BY <2>7, <4>1
    <3>2. k \in 1..(n - 1)
      BY <2>5, <2>8
    <3>. QED
      BY <2>5, <2>8, <3>1, <3>2 DEF Prior
  <2>. QED
    BY <1>2, <2>5, <2>9, <2>10
<1>. QED
  BY <1>3, <1>4

(* Whatever the order and the repetitions, one candidate is left without a reason for *)
(* each mint that qualifies and all of whose copies agree.                            *)
LEMMA EligibleAre ==
  ASSUME NEW c \in Seq(Copy)
  PROVE  LET u == Universe(c)
             eligible == {n \in DOMAIN u : u[n].reasons = {}}
             S == Agreed(ToSet(c))
         IN  /\ eligible \in SUBSET Int /\ IsFiniteSet(eligible)
             /\ \A n \in eligible : u[n] \in S
             /\ \A i, j \in eligible : u[i].mint = u[j].mint => i = j
             /\ \A x \in S : \E n \in eligible : u[n] = x
<1>. DEFINE D == DOMAIN c
            o == Ordered(c)
            why(n) == (IF o[n].mint \in Conflicts(c) THEN {"conflict"} ELSE {})
                      \cup (IF Prior(o, n) # {} THEN {"duplicate"} ELSE {})
                      \cup (IF o[n].sound /\ o[n].value > 0 THEN {} ELSE {"unsound"})
            u == Universe(c)
            E == {n \in DOMAIN u : u[n].reasons = {}}
            S == Agreed(ToSet(c))
<1>1. /\ Len(c) \in Nat /\ D = 1..Len(c) /\ \A n \in D : c[n] \in Copy
      /\ ToSet(c) = {c[n] : n \in D} /\ ToSet(c) \in SUBSET Copy
  BY PositionsAre
<1>2. DOMAIN o = D
  BY OrderedIs
<1>3. PICK p \in [D -> D] : /\ \A i \in D : o[i] = c[p[i]]
                            /\ \A n \in D : \E i \in D : p[i] = n
  BY OrderedIs
<1>4. u = [n \in D |-> [o[n] EXCEPT !.reasons = why(n)]]
  BY <1>2 DEF Universe
<1>5. \A n \in D : why(n) = {} <=> /\ o[n].mint \notin Conflicts(c) /\ Prior(o, n) = {}
                                 /\ o[n].sound /\ o[n].value > 0
  OBVIOUS
<1>6. E = {n \in D : u[n].reasons = {}}
  BY <1>4
<1>7. \A z : z \in S <=> \E x \in ToSet(c) : Agrees(ToSet(c), x) /\ z = Clean(x)
  BY DEF Agreed
<1>. HIDE DEF D, o, u, why, E, S
<1>8. \A n \in D : o[n] \in Copy /\ o[n] \in ToSet(c)
  BY <1>1, <1>3
<1>9. ASSUME NEW n \in D
      PROVE  /\ u[n].reasons = why(n) /\ u[n].mint = o[n].mint
             /\ why(n) = {} => u[n] = Clean(o[n])
  <2>1. u[n] = [o[n] EXCEPT !.reasons = why(n)] /\ o[n] \in Copy
    BY <1>4, <1>8
  <2>. QED
    BY <2>1 DEF Copy, Clean
<1>10. ASSUME NEW n \in E PROVE n \in D /\ why(n) = {} /\ u[n].mint = o[n].mint
  BY <1>6, <1>9
<1>11. ASSUME NEW n \in E PROVE u[n] \in S
  <2>1. n \in D /\ why(n) = {} /\ u[n] = Clean(o[n])
    BY <1>9, <1>10
  <2>2. o[n].mint \notin Conflicts(c) /\ o[n].sound /\ o[n].value > 0
    BY <1>5, <2>1
  <2>3. Agrees(ToSet(c), o[n])
    BY <1>8, <2>1, <2>2, ConflictsAre DEF Agrees
  <2>. QED
    BY <1>7, <1>8, <2>1, <2>3
<1>12. ASSUME NEW i \in E, NEW j \in E, u[i].mint = u[j].mint, i < j PROVE FALSE
  <2>1. i \in 1..Len(c) /\ j \in 1..Len(c) /\ o[i].mint = o[j].mint /\ Prior(o, j) = {}
    BY <1>1, <1>5, <1>10, <1>12
  <2>. DEFINE K == {k \in 1..(j - 1) : o[k].mint = o[j].mint}
  <2>2. K \in SUBSET (1..Len(c)) /\ i \in K
    BY <1>1, <1>12, <2>1
  <2>3. PICK k \in K : \A l \in K : l <= k
    <3>. HIDE DEF K
    <3>. QED
      BY <1>1, <2>2, ExtremesUpTo
  <2>4. k \in 1..(j - 1) /\ o[k].mint = o[j].mint
    BY <2>3
  <2>5. ASSUME NEW l \in (k + 1)..(j - 1) PROVE o[l].mint # o[j].mint
    <3>1. l \in 1..(j - 1) /\ ~(l <= k)
      BY <2>1, <2>4
    <3>. QED
      BY <2>3, <3>1
  <2>. QED
    BY <2>1, <2>4, <2>5 DEF Prior
<1>13. ASSUME NEW x \in ToSet(c), Agrees(ToSet(c), x)
       PROVE  \E n \in E : u[n] = Clean(x)
  <2>. DEFINE A == {n \in D : o[n].mint = x.mint}
  <2>1. PICK k \in D : c[k] = x
    BY <1>1
  <2>2. PICK i \in D : p[i] = k
    BY <1>3
  <2>3. A \in SUBSET (1..Len(c)) /\ i \in A
    BY <1>1, <1>3, <2>1, <2>2
  <2>4. PICK n \in A : \A j \in A : n <= j
    <3>. HIDE DEF A
    <3>. QED
      BY <1>1, <2>3, ExtremesUpTo
  <2>5. n \in D /\ n \in 1..Len(c) /\ o[n].mint = x.mint
    BY <2>3, <2>4
  <2>6. o[n] = x
    BY <1>8, <1>13, <2>5 DEF Agrees
  <2>7. Prior(o, n) = {}
    <3>. SUFFICES ASSUME NEW j \in Prior(o, n) PROVE FALSE
      OBVIOUS
    <3>1. j \in 1..(n - 1) /\ o[j].mint = x.mint
      BY <2>5 DEF Prior
    <3>2. j \in A /\ ~(n <= j)
      BY <1>1, <2>5, <3>1
    <3>. QED
      BY <2>4, <3>2
  <2>8. o[n].mint \notin Conflicts(c)
    BY <1>13, <2>5, ConflictsAre DEF Agrees
  <2>9. why(n) = {}
    BY <1>5, <1>13, <2>5, <2>6, <2>7, <2>8 DEF Agrees
  <2>. QED
    BY <1>6, <1>9, <2>5, <2>6, <2>9
<1>14. E \in SUBSET (1..Len(c)) /\ E \in SUBSET Int
  BY <1>1, <1>6
<1>15. IsFiniteSet(E)
  <2>1. ASSUME NEW l \in Nat PROVE IsFiniteSet(1..l)
    BY FS_Interval
  <2>. QED
    BY <1>1, <1>14, <2>1, FS_Subset
<1>16. \A i, j \in E : u[i].mint = u[j].mint => i = j
  <2>. SUFFICES ASSUME NEW i \in E, NEW j \in E, u[i].mint = u[j].mint PROVE i = j
    OBVIOUS
  <2>1. i = j \/ i < j \/ j < i
    BY <1>14
  <2>. QED
    BY <1>12, <2>1
<1>17. \A x \in S : \E n \in E : u[n] = x
  BY <1>7, <1>13
<1>. QED
  BY <1>11, <1>14, <1>15, <1>16, <1>17 DEF u, E, S
(* What may be chosen is finitely much, one candidate of a mint. *)
LEMMA AgreedIs ==
  ASSUME NEW c \in Seq(Copy)
  PROVE  /\ IsFiniteSet(ToSet(c)) /\ IsFiniteSet(Agreed(ToSet(c)))
         /\ Agreed(ToSet(c)) \in SUBSET Copy
         /\ OnePerMint(Agreed(ToSet(c)))
         /\ \A x \in Agreed(ToSet(c)) : x.mint \in Int /\ x.value \in Int
<1>. DEFINE D == DOMAIN c
            T == ToSet(c)
            A == {y \in T : Agrees(T, y)}
            S == Agreed(T)
            f == [n \in D |-> c[n]]
            g == [x \in A |-> Clean(x)]
<1>1. Len(c) \in Nat /\ D = 1..Len(c) /\ T = {c[n] : n \in D} /\ T \in SUBSET Copy
  BY PositionsAre
<1>2. f \in Surjection(D, T)
  BY <1>1 DEF Surjection
<1>3. g \in Surjection(A, S)
  BY DEF Surjection, Agreed
<1>4. S = {Clean(x) : x \in A}
  BY DEF Agreed
<1>5. A \in SUBSET T
  OBVIOUS
<1>6. \A x, y \in A : x.mint = y.mint => x = y
  BY DEF Agrees
<1>. HIDE DEF D, T, A, S, f, g
<1>7. IsFiniteSet(D)
  <2>1. ASSUME NEW l \in Nat PROVE IsFiniteSet(1..l)
    BY FS_Interval
  <2>. QED
    BY <1>1, <2>1
<1>8. IsFiniteSet(T)
  BY <1>2, <1>7, FS_Surjection
<1>9. IsFiniteSet(A)
  BY <1>5, <1>8, FS_Subset
<1>10. IsFiniteSet(S)
  BY <1>3, <1>9, FS_Surjection
<1>11. \A x \in A : Clean(x) \in Copy /\ Clean(x).mint = x.mint
  BY <1>1, <1>5 DEF Clean, Copy
<1>12. S \in SUBSET Copy
  BY <1>4, <1>11
<1>13. OnePerMint(S)
  BY <1>4, <1>6, <1>11 DEF OnePerMint
<1>14. \A x \in S : x.mint \in Int /\ x.value \in Int
  BY <1>12 DEF Copy
<1>. QED
  BY <1>8, <1>10, <1>12, <1>13, <1>14 DEF S, T

(* A ranking of S: its members, each once, the first by rank first. *)
InRank(r, S) ==
    /\ r \in Seq(S) /\ Len(r) = Cardinality(S)
    /\ \A i, j \in 1..Cardinality(S) : i < j => Outranks(r[i], r[j])
    /\ \A x \in S : \E i \in 1..Cardinality(S) : r[i] = x

LEMMA RankingIsOne ==
  ASSUME NEW S \in SUBSET Copy, IsFiniteSet(S), NEW r, NEW q, InRank(r, S), InRank(q, S)
  PROVE  r = q
<1>. DEFINE n == Cardinality(S)
            D == {i \in 1..n : r[i] # q[i]}
<1>1. n \in Nat
  BY FS_CardinalityType
<1>2. /\ r \in Seq(S) /\ Len(r) = n /\ q \in Seq(S) /\ Len(q) = n
      /\ \A i, j \in 1..n : i < j => Outranks(r[i], r[j]) /\ Outranks(q[i], q[j])
      /\ \A x \in S : (\E i \in 1..n : r[i] = x) /\ (\E i \in 1..n : q[i] = x)
  BY DEF InRank
<1>. HIDE DEF n
<1>3. \A i \in 1..n : r[i] \in S /\ q[i] \in S
  BY <1>1, <1>2
<1>4. \A x, y \in S : ~(Outranks(x, y) /\ Outranks(y, x))
  <2>1. \A x \in S : x.value \in Int /\ x.mint \in Int
    BY DEF Copy
  <2>. QED
    BY <2>1 DEF Outranks
<1>5. D = {}
  <2>. SUFFICES ASSUME D # {} PROVE FALSE
    OBVIOUS
  <2>1. D \in SUBSET (1..n)
    OBVIOUS
  <2>2. PICK i \in D : \A j \in D : i <= j
    <3>. HIDE DEF D
    <3>. QED
      BY <1>1, <2>1, ExtremesUpTo
  <2>3. i \in 1..n /\ r[i] # q[i]
    OBVIOUS
  <2>4. \A j \in 1..n : j < i => r[j] = q[j]
    <3>. SUFFICES ASSUME NEW j \in 1..n, j < i PROVE j \notin D
      OBVIOUS
    <3>. QED
      BY <1>1, <2>2, <2>3
  <2>5. PICK j \in 1..n : q[j] = r[i]
    BY <1>2, <1>3, <2>3
  <2>6. PICK k \in 1..n : r[k] = q[i]
    BY <1>2, <1>3, <2>3
  <2>7. i < j
    <3>1. j # i
      BY <2>3, <2>5
    <3>2. ASSUME j < i PROVE FALSE
      <4>1. r[j] = r[i]
        BY <2>4, <2>5, <3>2
      <4>2. Outranks(r[j], r[i])
        BY <1>2, <2>3, <3>2
      <4>. QED
        BY <1>3, <1>4, <2>3, <4>1, <4>2
    <3>. QED
      BY <1>1, <2>3, <3>1, <3>2
  <2>8. i < k
    <3>1. k # i
      BY <2>3, <2>6
    <3>2. ASSUME k < i PROVE FALSE
      <4>1. q[k] = q[i]
        BY <2>4, <2>6, <3>2
      <4>2. Outranks(q[k], q[i])
        BY <1>2, <2>3, <3>2
      <4>. QED
        BY <1>3, <1>4, <2>3, <4>1, <4>2
    <3>. QED
      BY <1>1, <2>3, <3>1, <3>2
  <2>9. Outranks(q[i], r[i])
    BY <1>2, <2>3, <2>5, <2>7
  <2>10. Outranks(r[i], q[i])
    BY <1>2, <2>3, <2>6, <2>8
  <2>. QED
    BY <1>3, <1>4, <2>3, <2>9, <2>10
<1>6. \A i \in 1..Len(r) : r[i] = q[i]
  BY <1>2, <1>5
<1>. HIDE DEF D
<1>. QED
  BY <1>2, <1>6, SeqEqual

(* The basket is the head of the ranking of what may be chosen. *)
Size(S) == IF Cardinality(S) < Members THEN Cardinality(S) ELSE Members

LEMMA BasketIs ==
  ASSUME NEW c \in Seq(Copy)
  PROVE  LET S == Agreed(ToSet(c)) IN
         \E r : InRank(r, S) /\ SelectBasket(c) = SubSeq(r, 1, Size(S))
<1>. DEFINE S == Agreed(ToSet(c))
            u == Universe(c)
            E == {n \in DOMAIN u : u[n].reasons = {}}
            r == Ranking(u, E)
            size == Cardinality(E)
            f == [n \in E |-> u[n]]
<1>1. /\ IsFiniteSet(S) /\ S \in SUBSET Copy /\ OnePerMint(S)
      /\ \A x \in S : x.mint \in Int /\ x.value \in Int
  BY AgreedIs
<1>2. /\ E \in SUBSET Int /\ IsFiniteSet(E)
      /\ \A n \in E : u[n] \in S
      /\ \A i, j \in E : u[i].mint = u[j].mint => i = j
      /\ \A x \in S : \E n \in E : u[n] = x
  BY EligibleAre
<1>3. SelectBasket(c) = SubSeq(r, 1, IF Len(r) < Members THEN Len(r) ELSE Members)
  BY DEF SelectBasket, Ranking
<1>. HIDE DEF S, u, E, r
<1>4. size = Cardinality(S)
  <2>1. \A i, j \in E : f[i] = f[j] => i = j
    BY <1>2
  <2>2. f \in [E -> S] /\ \A x \in S : \E n \in E : f[n] = x
    BY <1>2
  <2>. HIDE DEF f
  <2>3. f \in Bijection(E, S)
    BY <2>1, <2>2 DEF Bijection, Injection, Surjection, IsInjective
  <2>. QED
    BY <1>2, <2>3, FS_Bijection DEF ExistsBijection
<1>5. \A n \in E : u[n].mint \in Int /\ u[n].value \in Int
  BY <1>1, <1>2
<1>6. size \in Nat
  BY <1>2, <1>5, RankingIs
<1>7. PICK at : Arranges(r, u, E, at)
  BY <1>2, <1>5, RankingIs DEF r
<1>8. /\ at \in [1..size -> E] /\ r = [i \in 1..size |-> u[at[i]]]
      /\ \A i, j \in 1..size : i < j => Outranks(r[i], r[j]) \/ ~Outranks(r[j], r[i])
      /\ \A i, j \in 1..size : at[i] = at[j] => i = j
      /\ \A k \in E : \E i \in 1..size : at[i] = k
  BY <1>7 DEF Arranges
<1>. HIDE DEF size
<1>9. \A i \in 1..size : r[i] \in S /\ at[i] \in E /\ r[i] = u[at[i]]
  BY <1>2, <1>8
<1>10. r \in Seq(S) /\ Len(r) = size
  <2>1. r \in [1..size -> S]
    BY <1>8, <1>9
  <2>. QED
    BY <1>6, <2>1
<1>11. ASSUME NEW i \in 1..size, NEW j \in 1..size, i < j PROVE Outranks(r[i], r[j])
  <2>1. at[i] # at[j]
    BY <1>6, <1>8, <1>11
  <2>2. r[i].mint # r[j].mint
    <3>1. /\ at[i] \in E /\ at[j] \in E /\ r[i] = u[at[i]] /\ r[j] = u[at[j]]
      BY <1>8, <1>9
    <3>2. u[at[i]].mint # u[at[j]].mint
      BY <1>2, <2>1, <3>1
    <3>. QED
      BY <3>1, <3>2
  <2>3. /\ r[i].mint \in Int /\ r[i].value \in Int /\ r[j].mint \in Int /\ r[j].value \in Int
        /\ Outranks(r[i], r[j]) \/ ~Outranks(r[j], r[i])
    BY <1>1, <1>8, <1>9, <1>11
  <2>. QED
    BY <2>2, <2>3 DEF Outranks
<1>12. \A x \in S : \E i \in 1..size : r[i] = x
  BY <1>2, <1>8
<1>13. InRank(r, S)
  BY <1>4, <1>10, <1>11, <1>12 DEF InRank
<1>14. SelectBasket(c) = SubSeq(r, 1, Size(S))
  BY <1>3, <1>4, <1>10 DEF Size
<1>. QED
  BY <1>13, <1>14 DEF S

(* Its mints are those of the ranking. *)
LEMMA MintsAre ==
  ASSUME NEW S \in SUBSET Copy, IsFiniteSet(S), NEW r, InRank(r, S)
  PROVE  LET mints == Mints(SubSeq(r, 1, Size(S))) IN
         /\ Size(S) \in Nat /\ Size(S) <= Cardinality(S) /\ Cardinality(S) \in Nat
         /\ mints \in Seq(Nat) /\ Len(mints) = Size(S)
         /\ \A i \in 1..Size(S) : mints[i] = r[i].mint
<1>. DEFINE k == Size(S)
            b == SubSeq(r, 1, k)
<1>1. Cardinality(S) \in Nat
  BY FS_CardinalityType
<1>2. r \in Seq(S) /\ Len(r) = Cardinality(S)
  BY DEF InRank
<1>3. k \in Nat /\ k <= Cardinality(S)
  BY <1>1, BasketIsSized DEF Size
<1>4. \A i \in 1..Cardinality(S) : r[i] \in S
  BY <1>1, <1>2
<1>. HIDE DEF k
<1>5. \A i \in 1..k : r[i] \in S
  BY <1>1, <1>3, <1>4
<1>6. b \in Seq(S) /\ Len(b) = k /\ \A i \in 1..k : b[i] = r[i]
  <2>1. /\ b \in Seq(S) /\ Len(b) = IF 1 <= k THEN k - 1 + 1 ELSE 0
        /\ \A i \in 1..(k - 1 + 1) : b[i] = r[1 + i - 1]
    BY <1>3, <1>5, SubSeqProperties
  <2>. QED
    BY <1>3, <2>1
<1>. HIDE DEF b
<1>7. DOMAIN b = 1..k /\ \A i \in 1..k : b[i] = r[i] /\ b[i].mint \in Nat
  BY <1>3, <1>5, <1>6 DEF Copy
<1>8. Mints(b) \in [1..k -> Nat] /\ \A i \in 1..k : Mints(b)[i] = r[i].mint
  BY <1>7 DEF Mints
<1>9. Mints(b) \in Seq(Nat) /\ Len(Mints(b)) = k
  BY <1>3, <1>8
<1>. QED
  BY <1>1, <1>3, <1>8, <1>9 DEF k, b

(* A basket depends on what may be chosen only. *)
LEMMA BasketOfAgreed ==
  ASSUME NEW c \in Seq(Copy), NEW d \in Seq(Copy), Agreed(ToSet(c)) = Agreed(ToSet(d))
  PROVE  SelectBasket(c) = SelectBasket(d)
<1>. DEFINE S == Agreed(ToSet(c))
<1>1. IsFiniteSet(S) /\ S \in SUBSET Copy
  BY AgreedIs
<1>2. PICK r : InRank(r, S) /\ SelectBasket(c) = SubSeq(r, 1, Size(S))
  BY BasketIs
<1>3. PICK q : InRank(q, S) /\ SelectBasket(d) = SubSeq(q, 1, Size(S))
  BY BasketIs
<1>. HIDE DEF S
<1>4. r = q
  BY <1>1, <1>2, <1>3, RankingIsOne
<1>. QED
  BY <1>2, <1>3, <1>4

(* The unanimous mints are those of what may be chosen, and rank as it does. *)
LEMMA UnanimousAre ==
  ASSUME NEW c \in Seq(Copy)
  PROVE  LET row(m) == c[CHOOSE n \in DOMAIN c : c[n].mint = m] IN
         /\ Unanimous(c) = {x.mint : x \in Agreed(ToSet(c))}
         /\ \A x \in Agreed(ToSet(c)) : row(x.mint).mint = x.mint /\ row(x.mint).value = x.value
<1>. DEFINE D == DOMAIN c
            T == ToSet(c)
            S == Agreed(T)
            row(m) == c[CHOOSE n \in D : c[n].mint = m]
<1>1. T = {c[n] : n \in D} /\ T \in SUBSET Copy
  BY PositionsAre
<1>2. \A z : z \in S <=> \E x \in T : Agrees(T, x) /\ z = Clean(x)
  BY DEF Agreed
<1>3. \A x : Clean(x).mint = x.mint /\ Clean(x).value = x.value
  BY DEF Clean
<1>4. \A m : m \in Unanimous(c) <=>
         /\ \E n \in D : c[n].mint = m
         /\ \A n, k \in D : c[n].mint = m /\ c[k].mint = m =>
                c[n] = c[k] /\ c[n].sound /\ c[n].value > 0
  BY DEF Unanimous, Copies
<1>. HIDE DEF D, T, S
<1>5. \A m : m \in Unanimous(c) <=> \E x \in T : x.mint = m /\ Agrees(T, x)
  BY <1>1, <1>4 DEF Agrees
<1>6. Unanimous(c) = {x.mint : x \in S}
  BY <1>2, <1>3, <1>5
<1>7. ASSUME NEW x \in S
      PROVE  row(x.mint).mint = x.mint /\ row(x.mint).value = x.value
  <2>1. PICK y \in T : Agrees(T, y) /\ x = Clean(y)
    BY <1>2
  <2>2. PICK n \in D : c[n] = y
    BY <1>1
  <2>3. x.mint = y.mint /\ x.value = y.value
    BY <1>3, <2>1
  <2>. DEFINE k == CHOOSE k \in D : c[k].mint = x.mint
  <2>4. k \in D /\ c[k].mint = x.mint
    BY <2>2, <2>3
  <2>5. c[k] = y
    BY <1>1, <2>1, <2>3, <2>4 DEF Agrees
  <2>. QED
    BY <2>3, <2>5
<1>. QED
  BY <1>6, <1>7 DEF D, T, S

LEMMA BasketIsTop ==
  ASSUME NEW c \in Seq(Copy)
  PROVE  IsTop(c, Mints(SelectBasket(c)))
<1>. DEFINE S == Agreed(ToSet(c))
            k == Size(S)
            n == Cardinality(S)
            mints == Mints(SelectBasket(c))
            row(m) == c[CHOOSE i \in DOMAIN c : c[i].mint = m]
<1>0. PICK r : InRank(r, S) /\ SelectBasket(c) = SubSeq(r, 1, k)
  BY BasketIs
<1>1. /\ k \in Nat /\ k <= n /\ n \in Nat
      /\ mints \in Seq(Nat) /\ Len(mints) = k
      /\ \A i \in 1..k : mints[i] = r[i].mint
  <2>1. IsFiniteSet(S) /\ S \in SUBSET Copy
    BY AgreedIs
  <2>. HIDE DEF S
  <2>. QED
    BY <1>0, <2>1, MintsAre
<1>2. /\ \A i \in 1..n : r[i] \in S
      /\ \A i, j \in 1..n : i < j => Outranks(r[i], r[j])
      /\ \A x \in S : \E i \in 1..n : r[i] = x
  <2>1. r \in Seq(S) /\ Len(r) = n
    BY <1>0 DEF InRank
  <2>2. /\ \A i, j \in 1..n : i < j => Outranks(r[i], r[j])
        /\ \A x \in S : \E i \in 1..n : r[i] = x
    BY <1>0 DEF InRank
  <2>. HIDE DEF S, n
  <2>. QED
    BY <1>1, <2>1, <2>2
<1>3. S \in SUBSET Copy
  BY AgreedIs
<1>4. /\ Unanimous(c) = {x.mint : x \in S}
      /\ \A x \in S : row(x.mint).mint = x.mint /\ row(x.mint).value = x.value
  BY UnanimousAre
<1>5. k = n \/ k = Members
  BY DEF Size
<1>6. k <= Members
  BY <1>1, BasketIsSized DEF Size
<1>7. ToSet(mints) = {mints[i] : i \in DOMAIN mints}
  BY DEF ToSet
<1>. HIDE DEF S, k, n, mints
<1>8. \A x, y \in S : Outranks(x, y) => Outranks(row(x.mint), row(y.mint))
  BY <1>4 DEF Outranks
<1>9. DOMAIN mints = 1..k /\ \A i \in 1..k : i \in 1..n /\ i \in Int
  BY <1>1
<1>10. ToSet(mints) \subseteq Unanimous(c)
  BY <1>1, <1>2, <1>4, <1>7, <1>9
<1>11. \A m \in Unanimous(c) : \E j \in 1..n : m = r[j].mint
  BY <1>2, <1>4
<1>12. Len(mints) = Members \/ ToSet(mints) = Unanimous(c)
  <2>1. CASE k = Members
    BY <1>1, <2>1
  <2>2. CASE k = n
    <3>1. \A j \in 1..n : r[j].mint \in ToSet(mints)
      BY <1>1, <1>7, <1>9, <2>2
    <3>. QED
      BY <1>10, <1>11, <3>1
  <2>. QED
    BY <1>5, <2>1, <2>2
<1>13. ASSUME NEW i \in DOMAIN mints, NEW j \in 1..n, i < j
       PROVE  Outranks(row(mints[i]), row(r[j].mint))
  <2>1. mints[i] = r[i].mint /\ r[i] \in S /\ r[j] \in S /\ Outranks(r[i], r[j])
    BY <1>1, <1>2, <1>9, <1>13
  <2>2. Outranks(row(r[i].mint), row(r[j].mint))
    BY <1>8, <2>1
  <2>. HIDE DEF row
  <2>. QED
    BY <2>1, <2>2
<1>14. \A i, j \in DOMAIN mints : i < j => Outranks(row(mints[i]), row(mints[j]))
  <2>. SUFFICES ASSUME NEW i \in DOMAIN mints, NEW j \in DOMAIN mints, i < j
                PROVE  Outranks(row(mints[i]), row(mints[j]))
    OBVIOUS
  <2>1. j \in 1..n /\ mints[j] = r[j].mint
    BY <1>1, <1>9
  <2>2. Outranks(row(mints[i]), row(r[j].mint))
    BY <1>13, <2>1
  <2>. HIDE DEF row
  <2>. QED
    BY <2>1, <2>2
<1>15. ASSUME NEW m \in Unanimous(c) \ ToSet(mints), NEW i \in DOMAIN mints
       PROVE  Outranks(row(mints[i]), row(m))
  <2>1. PICK j \in 1..n : m = r[j].mint
    BY <1>11
  <2>2. j \notin 1..k
    BY <1>1, <1>7, <1>9, <2>1
  <2>3. i < j
    BY <1>1, <1>9, <2>2
  <2>4. Outranks(row(mints[i]), row(r[j].mint))
    BY <1>13, <2>3
  <2>. HIDE DEF row
  <2>. QED
    BY <2>1, <2>4
<1>16. Len(mints) <= Members
  BY <1>1, <1>6
<1>17. IsTop(c, mints)
  BY <1>10, <1>12, <1>14, <1>15, <1>16 DEF IsTop
<1>. QED
  BY <1>17 DEF mints


-----------------------------------------------------------------------------
LEMMA OneMember ==
  ASSUME NEW S, IsFiniteSet(S), NEW a \in S
  PROVE  Cardinality(S) = 1 <=> \A q \in S : q = a
<1>1. Cardinality(S) = 1 <=> \E p : S = {p}
  BY FS_Singleton
<1>2. (\A q \in S : q = a) => S = {a}
  OBVIOUS
<1>. QED
  BY <1>1, <1>2

(* A market stands for a row when all rows of the mint agree with it and qualify, and for *)
(* nothing otherwise.                                                                     *)
LEMMA MarketIs ==
  ASSUME NEW c \in Seq(Copy), \A x \in ToSet(c) : x.reasons = {}, NEW y \in ToSet(c)
  PROVE  LET x == Market(c, y.mint) IN
         /\ x.mint = y.mint /\ x.pool \in Nat /\ x.value \in Nat /\ x.sound \in BOOLEAN
         /\ x.sound /\ x.value > 0 <=> Agrees(ToSet(c), y)
         /\ Agrees(ToSet(c), y) => Clean(x) = y
<1>. DEFINE T == ToSet(c)
            m == y.mint
            C == {c[n] : n \in Copies(c, m)}
            pools == {r.pool : r \in C}
            values == {r.value : r \in C}
            low == CHOOSE r \in C : \A s \in C : r.pool <= s.pool
            conflict == Cardinality(pools) # 1 \/ Cardinality(values) # 1
            x == Market(c, m)
<1>. SUFFICES /\ x.mint = m /\ x.pool \in Nat /\ x.value \in Nat /\ x.sound \in BOOLEAN
              /\ x.sound /\ x.value > 0 <=> Agrees(T, y)
              /\ Agrees(T, y) => Clean(x) = y
  OBVIOUS
<1>1. T = {c[n] : n \in DOMAIN c} /\ T \in SUBSET Copy /\ IsFiniteSet(T)
  BY PositionsAre, AgreedIs
<1>2. x = [mint |-> m, pool |-> low.pool, value |-> IF conflict THEN 0 ELSE low.value,
           sound |-> ~conflict /\ \A r \in C : r.sound]
  BY DEF Market
<1>3. C = {r \in T : r.mint = m}
  BY <1>1 DEF Copies
<1>4. /\ [r \in C |-> r.pool] \in Surjection(C, pools)
      /\ [r \in C |-> r.value] \in Surjection(C, values)
  BY DEF Surjection
<1>5. /\ pools = {r.pool : r \in C} /\ values = {r.value : r \in C}
      /\ low = CHOOSE r \in C : \A s \in C : r.pool <= s.pool
      /\ conflict <=> Cardinality(pools) # 1 \/ Cardinality(values) # 1
  OBVIOUS
<1>. HIDE DEF T, C, pools, values, low, conflict, x
<1>6. y \in C /\ C \in SUBSET Copy /\ IsFiniteSet(C)
  BY <1>1, <1>3, FS_Subset DEF T
<1>7. IsFiniteSet(pools) /\ IsFiniteSet(values)
  BY <1>4, <1>6, FS_Surjection
<1>8. \A r \in C : /\ r.mint = m /\ r.pool \in Nat /\ r.value \in Nat /\ r.sound \in BOOLEAN
                  /\ r.reasons = {}
                  /\ r = [mint |-> r.mint, pool |-> r.pool, value |-> r.value,
                          sound |-> r.sound, reasons |-> r.reasons]
  BY <1>3, <1>6 DEF Copy, T
<1>9. low \in C
  <2>1. pools \in SUBSET Int /\ pools # {}
    BY <1>5, <1>6, <1>8
  <2>2. PICK p \in pools : \A q \in pools : p <= q
    BY <1>7, <2>1, Extremes
  <2>3. \E r \in C : \A s \in C : r.pool <= s.pool
    BY <1>5, <2>2
  <2>. QED
    BY <1>5, <2>3
<1>10. ~conflict <=> \A r \in C : r.pool = y.pool /\ r.value = y.value
  <2>1. y.pool \in pools /\ y.value \in values
    BY <1>5, <1>6
  <2>2. /\ Cardinality(pools) = 1 <=> \A q \in pools : q = y.pool
        /\ Cardinality(values) = 1 <=> \A q \in values : q = y.value
    BY <1>7, <2>1, OneMember
  <2>3. /\ (\A q \in pools : q = y.pool) <=> \A r \in C : r.pool = y.pool
        /\ (\A q \in values : q = y.value) <=> \A r \in C : r.value = y.value
    BY <1>5
  <2>. QED
    BY <1>5, <2>2, <2>3
<1>11. /\ x.mint = m /\ x.pool = low.pool /\ x.value = (IF conflict THEN 0 ELSE low.value)
       /\ x.sound \in BOOLEAN
       /\ x.sound <=> ~conflict /\ \A r \in C : r.sound
  BY <1>2
<1>12. x.pool \in Nat /\ x.value \in Nat
  BY <1>8, <1>9, <1>11
<1>13. ASSUME x.sound, x.value > 0 PROVE Agrees(T, y)
  <2>1. ~conflict /\ (\A r \in C : r.sound) /\ low.value > 0
    BY <1>11, <1>13
  <2>2. y.sound /\ y.value = low.value
    BY <1>6, <1>9, <1>10, <2>1
  <2>3. ASSUME NEW r \in C PROVE r = y
    <3>1. r.pool = y.pool /\ r.value = y.value /\ r.sound = TRUE /\ y.sound = TRUE
      BY <1>6, <1>8, <1>10, <2>1
    <3>. QED
      BY <1>6, <1>8, <3>1
  <2>. QED
    BY <1>3, <2>1, <2>2, <2>3 DEF Agrees
<1>14. ASSUME Agrees(T, y) PROVE x.sound /\ x.value > 0 /\ Clean(x) = y
  <2>1. y.sound /\ y.value > 0 /\ \A r \in C : r = y
    BY <1>3, <1>14 DEF Agrees
  <2>2. ~conflict /\ low = y
    BY <1>9, <1>10, <2>1
  <2>3. x.sound /\ x.value = y.value /\ x.pool = y.pool /\ y.sound = TRUE /\ x.sound = TRUE
    BY <1>6, <1>8, <1>11, <2>1, <2>2
  <2>4. y = [mint |-> m, pool |-> y.pool, value |-> y.value, sound |-> y.sound, reasons |-> {}]
    BY <1>6, <1>8
  <2>. QED
    BY <1>11, <2>1, <2>3, <2>4 DEF Clean
<1>15. x.sound /\ x.value > 0 <=> Agrees(T, y)
  BY <1>13, <1>14
<1>16. Agrees(T, y) => Clean(x) = y
  BY <1>14
<1>. QED
  BY <1>11, <1>12, <1>15, <1>16

(* Collapsing the rows of the catalogue changes nothing of what may be chosen. *)
LEMMA CandidatesAre ==
  ASSUME NEW c \in Seq(Copy), \A x \in ToSet(c) : x.reasons = {}
  PROVE  LET d == Candidates(c) IN
         /\ d \in Seq(Copy)
         /\ \A i, j \in DOMAIN d : d[i].mint = d[j].mint => i = j
         /\ Agreed(ToSet(d)) = Agreed(ToSet(c))
<1>. DEFINE T == ToSet(c)
            K == {c[i].mint : i \in DOMAIN c}
            market == [m \in K |-> Market(c, m)]
            r == Ranking(market, K)
            n == Cardinality(K)
            d == Candidates(c)
            f == [y \in T |-> y.mint]
<1>1. T = {c[i] : i \in DOMAIN c} /\ IsFiniteSet(T)
  BY PositionsAre, AgreedIs
<1>2. K = {y.mint : y \in T}
  BY <1>1
<1>3. f \in Surjection(T, K)
  BY <1>2 DEF Surjection
<1>4. d = [i \in DOMAIN r |-> Clean(r[i])]
  BY DEF Candidates, Ranking, Clean
<1>5. \A y \in T : LET x == Market(c, y.mint) IN
         /\ x.mint = y.mint /\ x.pool \in Nat /\ x.value \in Nat /\ x.sound \in BOOLEAN
         /\ x.sound /\ x.value > 0 <=> Agrees(T, y)
         /\ Agrees(T, y) => Clean(x) = y
  BY MarketIs
<1>6. \A z : z \in Agreed(T) <=> \E y \in T : Agrees(T, y) /\ z = Clean(y)
  BY DEF Agreed
<1>7. \A m \in K : market[m] = Market(c, m)
  OBVIOUS
<1>. HIDE DEF T, K, market, r, n, d, f
<1>8. ASSUME NEW m \in K
      PROVE  /\ m \in Int /\ market[m].mint = m /\ market[m].value \in Int
             /\ Clean(market[m]) \in Copy
  <2>1. T \in SUBSET Copy
    BY PositionsAre DEF T
  <2>2. PICK y \in T : m = y.mint
    BY <1>2
  <2>3. y.mint \in Nat
    BY <2>1 DEF Copy
  <2>4. /\ market[m].mint = y.mint /\ market[m].pool \in Nat /\ market[m].value \in Nat
        /\ market[m].sound \in BOOLEAN
    BY <1>5, <1>7, <2>2
  <2>. QED
    BY <2>2, <2>3, <2>4 DEF Clean, Copy
<1>9. n \in Nat /\ \E at : Arranges(r, market, K, at)
  <2>1. IsFiniteSet(K)
    BY <1>1, <1>3, FS_Surjection
  <2>2. K \in SUBSET Int /\ \A m \in K : market[m].mint \in Int /\ market[m].value \in Int
    BY <1>8
  <2>. QED
    BY <2>1, <2>2, RankingIs DEF r, n
<1>10. PICK at : /\ at \in [1..n -> K] /\ r = [i \in 1..n |-> market[at[i]]]
                 /\ \A i, j \in 1..n : at[i] = at[j] => i = j
                 /\ \A k \in K : \E i \in 1..n : at[i] = k
  BY <1>9 DEF Arranges, n
<1>11. /\ DOMAIN d = 1..n
       /\ \A i \in 1..n : /\ at[i] \in K /\ r[i] = market[at[i]]
                          /\ d[i] = Clean(r[i]) /\ d[i] \in Copy
  <2>1. DOMAIN r = 1..n
    BY <1>10
  <2>2. \A i \in 1..n : at[i] \in K /\ r[i] = market[at[i]]
    BY <1>10
  <2>. QED
    BY <1>4, <1>8, <2>1, <2>2
<1>12. d \in Seq(Copy)
  <2>1. d \in [1..n -> Copy]
    BY <1>4, <1>11
  <2>. QED
    BY <1>9, <2>1
<1>13. \A x : Clean(x).mint = x.mint /\ Clean(x).value = x.value /\ Clean(x).sound = x.sound
             /\ Clean(Clean(x)) = Clean(x)
  BY DEF Clean
<1>14. ASSUME NEW i \in DOMAIN d, NEW j \in DOMAIN d, d[i].mint = d[j].mint
       PROVE  i = j
  <2>1. i \in 1..n /\ j \in 1..n /\ market[at[i]].mint = market[at[j]].mint
    BY <1>11, <1>13, <1>14
  <2>2. at[i] = at[j]
    BY <1>8, <1>11, <2>1
  <2>. QED
    BY <1>10, <2>1, <2>2
<1>15. ToSet(d) = {d[i] : i \in 1..n}
  BY <1>11 DEF ToSet
<1>16. \A z : z \in Agreed(ToSet(d)) <=>
          \E x \in ToSet(d) : Agrees(ToSet(d), x) /\ z = Clean(x)
  BY DEF Agreed
<1>17. \A x \in ToSet(d) : Agrees(ToSet(d), x) <=> x.sound /\ x.value > 0
  BY <1>11, <1>14, <1>15 DEF Agrees
<1>18. ASSUME NEW z \in Agreed(ToSet(d)) PROVE z \in Agreed(T)
  <2>0. PICK x \in ToSet(d) : Agrees(ToSet(d), x) /\ z = Clean(x)
    BY <1>16
  <2>1. PICK i \in 1..n : d[i].sound /\ d[i].value > 0 /\ z = Clean(d[i])
    BY <1>15, <1>17, <2>0
  <2>2. PICK y \in T : r[i] = Market(c, y.mint)
    BY <1>2, <1>7, <1>11
  <2>3. r[i].sound /\ r[i].value > 0 /\ z = Clean(r[i])
    BY <1>11, <1>13, <2>1
  <2>4. Agrees(T, y) /\ Clean(r[i]) = y
    BY <1>5, <2>2, <2>3
  <2>5. z = Clean(y)
    BY <1>13, <2>3, <2>4
  <2>. QED
    BY <1>6, <2>4, <2>5
<1>19. ASSUME NEW y \in T, Agrees(T, y) PROVE Clean(y) \in Agreed(ToSet(d))
  <2>. DEFINE x == Market(c, y.mint)
  <2>1. y.mint \in K /\ x = market[y.mint] /\ x.sound /\ x.value > 0 /\ Clean(x) = y
    BY <1>2, <1>5, <1>7, <1>19
  <2>. HIDE DEF x
  <2>2. PICK i \in 1..n : r[i] = x
    BY <1>10, <2>1
  <2>3. d[i] = y
    BY <1>11, <2>1, <2>2
  <2>4. y \in ToSet(d) /\ y.sound /\ y.value > 0
    BY <1>15, <1>19, <2>3 DEF Agrees
  <2>. QED
    BY <1>16, <1>17, <2>4
<1>20. Agreed(ToSet(d)) = Agreed(T)
  BY <1>6, <1>18, <1>19
<1>. QED
  BY <1>12, <1>14, <1>20 DEF d, T

(* Selecting again from a saved universe of distinct mints changes nothing of what may *)
(* be chosen.                                                                          *)
LEMMA SavedAre ==
  ASSUME NEW c \in Seq(Copy), \A i, j \in DOMAIN c : c[i].mint = c[j].mint => i = j
  PROVE  Universe(c) \in Seq(Copy) /\ Agreed(ToSet(Universe(c))) = Agreed(ToSet(c))
<1>. DEFINE D == DOMAIN c
            o == Ordered(c)
            u == Universe(c)
            why(n) == (IF o[n].mint \in Conflicts(c) THEN {"conflict"} ELSE {})
                      \cup (IF Prior(o, n) # {} THEN {"duplicate"} ELSE {})
                      \cup (IF o[n].sound /\ o[n].value > 0 THEN {} ELSE {"unsound"})
<1>1. /\ Len(c) \in Nat /\ D = 1..Len(c) /\ \A n \in D : c[n] \in Copy
      /\ ToSet(c) = {c[n] : n \in D}
  BY PositionsAre
<1>2. DOMAIN o = D
  BY OrderedIs
<1>3. PICK p \in [D -> D] : /\ \A i \in D : o[i] = c[p[i]]
                            /\ \A n \in D : \E i \in D : p[i] = n
                            /\ \A i, j \in D : p[i] = p[j] => i = j
  BY OrderedIs
<1>4. u = [n \in D |-> [o[n] EXCEPT !.reasons = why(n)]]
  BY <1>2 DEF Universe
<1>5. /\ \A n \in D : why(n) \in SUBSET Reasons
      /\ \A i, j \in D : c[i].mint = c[j].mint => i = j
  BY DEF Reasons
<1>. HIDE DEF D, o, u, why
<1>6. ASSUME NEW n \in D
      PROVE  u[n] \in Copy /\ u[n].mint = o[n].mint /\ Clean(u[n]) = Clean(o[n])
  <2>1. o[n] \in Copy
    <3>1. p[n] \in D /\ o[n] = c[p[n]]
      BY <1>3
    <3>. QED
      BY <1>1, <3>1
  <2>2. u[n] = [o[n] EXCEPT !.reasons = why(n)]
    BY <1>4
  <2>. QED
    BY <1>5, <2>1, <2>2 DEF Copy, Clean
<1>7. u \in Seq(Copy)
  <2>1. u \in [1..Len(c) -> Copy]
    BY <1>1, <1>4, <1>6
  <2>. QED
    BY <1>1, <2>1
<1>8. ToSet(u) = {u[n] : n \in D}
  BY <1>4 DEF ToSet
<1>9. \A x : Clean(x).sound = x.sound /\ Clean(x).value = x.value
  BY DEF Clean
<1>10. \A i, j \in D : u[i].mint = u[j].mint => i = j
  BY <1>3, <1>5, <1>6
<1>11. \A n \in D : Agrees(ToSet(u), u[n]) <=> u[n].sound /\ u[n].value > 0
  BY <1>8, <1>10 DEF Agrees
<1>12. \A n \in D : Agrees(ToSet(c), c[n]) <=> c[n].sound /\ c[n].value > 0
  BY <1>1, <1>5 DEF Agrees
<1>13. \A z : z \in Agreed(ToSet(u)) <=> \E n \in D : Agrees(ToSet(u), u[n]) /\ z = Clean(u[n])
  BY <1>8 DEF Agreed
<1>14. \A z : z \in Agreed(ToSet(c)) <=> \E n \in D : Agrees(ToSet(c), c[n]) /\ z = Clean(c[n])
  <2>1. \A z : z \in Agreed(ToSet(c)) <=> \E x \in ToSet(c) : Agrees(ToSet(c), x) /\ z = Clean(x)
    BY DEF Agreed
  <2>2. ToSet(c) = {c[n] : n \in D}
    BY <1>1
  <2>3. ASSUME NEW z \in Agreed(ToSet(c))
        PROVE  \E n \in D : Agrees(ToSet(c), c[n]) /\ z = Clean(c[n])
    <3>1. PICK x \in ToSet(c) : Agrees(ToSet(c), x) /\ z = Clean(x)
      BY <2>1
    <3>2. PICK n \in D : x = c[n]
      BY <2>2
    <3>. QED
      BY <3>1, <3>2
  <2>4. ASSUME NEW n \in D, Agrees(ToSet(c), c[n])
        PROVE  Clean(c[n]) \in Agreed(ToSet(c))
    <3>1. c[n] \in ToSet(c)
      BY <2>2
    <3>. QED
      BY <2>1, <2>4, <3>1
  <2>. QED
    BY <2>3, <2>4
<1>15. ASSUME NEW n \in D
       PROVE  /\ Clean(u[n]) = Clean(c[p[n]])
              /\ Agrees(ToSet(u), u[n]) <=> Agrees(ToSet(c), c[p[n]])
  <2>1. p[n] \in D /\ Clean(u[n]) = Clean(c[p[n]])
    BY <1>3, <1>6
  <2>2. u[n].sound = c[p[n]].sound /\ u[n].value = c[p[n]].value
    BY <1>9, <2>1
  <2>. QED
    BY <1>11, <1>12, <2>1, <2>2
<1>16. \A z : z \in Agreed(ToSet(u)) => z \in Agreed(ToSet(c))
  BY <1>3, <1>13, <1>14, <1>15
<1>17. \A z : z \in Agreed(ToSet(c)) => z \in Agreed(ToSet(u))
  <2>. SUFFICES ASSUME NEW z, z \in Agreed(ToSet(c)) PROVE z \in Agreed(ToSet(u))
    OBVIOUS
  <2>1. PICK k \in D : Agrees(ToSet(c), c[k]) /\ z = Clean(c[k])
    BY <1>14
  <2>2. PICK i \in D : p[i] = k
    BY <1>3
  <2>3. Agrees(ToSet(u), u[i]) /\ z = Clean(u[i])
    BY <1>15, <2>1, <2>2
  <2>. QED
    BY <1>13, <2>3
<1>. QED
  BY <1>7, <1>16, <1>17 DEF u


(* Exchanging neighbours leaves the same rows. *)
LEMMA SwappedIs ==
  ASSUME NEW c \in Seq(Copy), NEW n \in 1..(Len(c) - 1)
  PROVE  Swapped(c, n) \in Seq(Copy) /\ ToSet(Swapped(c, n)) = ToSet(c)
<1>. DEFINE D == DOMAIN c
            s == Swapped(c, n)
<1>1. Len(c) \in Nat /\ D = 1..Len(c) /\ ToSet(c) = {c[i] : i \in D}
  BY PositionsAre
<1>2. \A i \in D : c[i] \in Copy
  BY PositionsAre
<1>3. n \in D /\ n + 1 \in D
  BY <1>1
<1>4. /\ s = [i \in D |-> s[i]]
      /\ \A i \in D : s[i] = IF i = n + 1 THEN c[n] ELSE IF i = n THEN c[n + 1] ELSE c[i]
  BY <1>3 DEF Swapped
<1>5. n # n + 1
  BY <1>1
<1>. HIDE DEF D, s
<1>6. \A i \in D : s[i] \in Copy
  BY <1>2, <1>3, <1>4
<1>7. s \in Seq(Copy)
  <2>1. s \in [1..Len(c) -> Copy]
    BY <1>1, <1>4, <1>6
  <2>. QED
    BY <1>1, <2>1
<1>8. ToSet(s) = {s[i] : i \in D}
  BY <1>4 DEF ToSet
<1>9. ASSUME NEW i \in D PROVE s[i] \in ToSet(c)
  BY <1>1, <1>3, <1>4
<1>10. ASSUME NEW i \in D PROVE \E j \in D : s[j] = c[i]
  <2>1. CASE i = n
    BY <1>3, <1>4, <2>1
  <2>2. CASE i = n + 1
    BY <1>3, <1>4, <1>5, <2>2
  <2>3. CASE i # n /\ i # n + 1
    BY <1>4, <2>3
  <2>. QED
    BY <2>1, <2>2, <2>3
<1>11. \A x \in ToSet(s) : x \in ToSet(c)
  BY <1>8, <1>9
<1>12. \A x \in ToSet(c) : x \in ToSet(s)
  <2>. SUFFICES ASSUME NEW x \in ToSet(c) PROVE x \in ToSet(s)
    OBVIOUS
  <2>1. PICK i \in D : c[i] = x
    BY <1>1
  <2>. QED
    BY <1>8, <1>10, <2>1
<1>. QED
  BY <1>7, <1>11, <1>12 DEF s

(* Neither the order in which observations come nor how often each comes is a choice of the *)
(* basket: the same observations select the same members (selection.ts:9-37).               *)
THEOREM BasketOfSet ==
  ASSUME NEW c \in Seq(Copy), NEW d \in Seq(Copy), ToSet(c) = ToSet(d)
  PROVE  SelectBasket(c) = SelectBasket(d)
BY BasketOfAgreed

(* Whatever is observed, the basket is the head of what all observations agree on and      *)
(* qualify, in any order, through the collapsed catalogue, and again from what it saved    *)
(* (selection.ts:9-37, market-data.ts:41-95, provenance.ts:94-119, engine.ts:53-54).       *)
THEOREM SelectionsAreFair == Inputs => []SelectionIsFair
<1>. DEFINE Seen == observed \in Seq(Copy) /\ \A x \in ToSet(observed) : x.reasons = {}
            Typed == observed \in Seq(Rows)
<1>1. Inputs => []Typed
  <2>1. NoInputs => Typed
    BY DEF NoInputs
  <2>2. Typed /\ [MoreInputs]_inputs => Typed'
    <3>. SUFFICES ASSUME Typed, [MoreInputs]_inputs PROVE Typed'
      OBVIOUS
    <3>1. CASE AddRow
      BY <3>1 DEF AddRow
    <3>2. CASE UNCHANGED observed
      BY <3>2
    <3>. QED
      BY <3>1, <3>2 DEF MoreInputs, inputs, AddAccount, AcquireMore, FundMore, CostMore
  <2>. QED
    BY <2>1, <2>2, PTL DEF Inputs
<1>2. Typed => Seen
  <2>1. Rows \in SUBSET Copy /\ \A x \in Rows : x.reasons = {}
    BY InputsAreBounded DEF Rows, Copy
  <2>2. ASSUME Typed PROVE Seen
    <3>1. \A n \in DOMAIN observed : observed[n] \in Rows
      BY <2>2
    <3>2. observed \in Seq(Copy)
      BY <2>1, <2>2
    <3>. QED
      BY <2>1, <3>1, <3>2 DEF ToSet
  <2>. QED
    BY <2>2
<1>3. Seen => SelectionIsFair
  <2>. SUFFICES ASSUME Seen PROVE SelectionIsFair
    OBVIOUS
  <2>. DEFINE chosen == SelectBasket(observed)
              d == Candidates(observed)
  <2>1. IsTop(observed, Mints(chosen))
    BY BasketIsTop
  <2>2. \A n \in 1..(Len(observed) - 1) : SelectBasket(Swapped(observed, n)) = chosen
    BY SwappedIs, BasketOfSet
  <2>3. /\ d \in Seq(Copy) /\ \A i, j \in DOMAIN d : d[i].mint = d[j].mint => i = j
        /\ Agreed(ToSet(d)) = Agreed(ToSet(observed))
    BY CandidatesAre
  <2>. HIDE DEF d
  <2>4. SelectBasket(d) = chosen
    BY <2>3, BasketOfAgreed
  <2>5. Universe(d) \in Seq(Copy) /\ Agreed(ToSet(Universe(d))) = Agreed(ToSet(d))
    BY <2>3, SavedAre
  <2>6. SelectBasket(Universe(d)) = chosen
    BY <2>3, <2>5, BasketOfAgreed
  <2>. QED
    BY <2>1, <2>2, <2>4, <2>6 DEF SelectionIsFair, d
<1>. QED
  BY <1>1, <1>2, <1>3, PTL
=============================================================================
