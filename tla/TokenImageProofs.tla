--------------------------- MODULE TokenImageProofs ---------------------------
(***************************************************************************)
(* Proofs about TokenImage: what is served is listed at that moment, never *)
(* more loads are in flight than there are slots (two small invariants     *)
(* that do not depend on the cache), and the cache's account is exact.     *)
(***************************************************************************)
EXTENDS TokenImage, Sums

RequestTyped == request \in [Requests -> {Idle} \cup [step : Steps, image : Images]]

(* The index is that of the last good observation whenever it is taken for it. *)
IndexIsCurrent == indexed => sources = lastGood

IndexInv == RequestTyped /\ IndexIsCurrent

(* One request moves, to a place it may be at. *)
LEMMA GotoTyped ==
    ASSUME NEW r \in Requests, NEW step \in Steps, NEW i \in Images, RequestTyped,
           Goto(r, step, i)
    PROVE  RequestTyped'
  BY DEF Goto, RequestTyped, At

LEMMA RefuseTyped ==
    ASSUME NEW r \in Requests, RequestTyped, Refuse(r)
    PROVE  RequestTyped'
  BY DEF Refuse, RequestTyped

(* A request that is somewhere is so for an image. *)
LEMMA ImageTyped ==
    ASSUME NEW r \in Requests, RequestTyped, NEW step \in Steps, request[r].step = step
    PROVE  request[r].image \in Images
  <1>1. request[r] \in {Idle} \cup [step : Steps, image : Images]
    BY DEF RequestTyped
  <1>2. Idle.step = "idle" /\ "idle" \notin Steps
    BY DEF Idle, Steps
  <1>3. request[r] # Idle
    BY <1>2
  <1> QED
    BY <1>1, <1>3

LEMMA LookupIsCurrent ==
    ASSUME IndexIsCurrent, Lookup, UNCHANGED lastGood
    PROVE  IndexIsCurrent' /\ Listing = lastGood
  BY DEF Lookup, Listing, IndexIsCurrent

LEMMA StartRefreshKeeps ==
    ASSUME StartRefresh
    PROVE  UNCHANGED lastGood
  BY DEF StartRefresh, marketVars

LEMMA AuthorizeKeeps ==
    ASSUME NEW r \in Requests, NEW i \in Images, NEW granted \in Steps, NEW waiting \in Steps,
           IndexInv, Authorize(r, i, granted, waiting)
    PROVE  IndexInv'
  <1>1. UNCHANGED lastGood
    BY StartRefreshKeeps DEF Authorize
  <1>2. IndexIsCurrent'
    BY <1>1, LookupIsCurrent DEF Authorize, IndexInv
  <1>3. \/ Goto(r, granted, i)
        \/ Goto(r, waiting, i)
        \/ Refuse(r)
    BY DEF Authorize
  <1>4. RequestTyped'
    BY <1>3, GotoTyped, RefuseTyped DEF IndexInv
  <1> QED
    BY <1>2, <1>4 DEF IndexInv

LEMMA AfterRefreshKeeps ==
    ASSUME NEW r \in Requests, NEW granted \in Steps, IndexInv, request[r].image \in Images,
           AfterRefresh(r, granted), UNCHANGED lastGood
    PROVE  IndexInv'
  <1>1. IndexIsCurrent'
    BY LookupIsCurrent DEF AfterRefresh, IndexInv
  <1>2. Goto(r, granted, request[r].image) \/ Refuse(r)
    BY DEF AfterRefresh
  <1>3. RequestTyped'
    BY <1>2, GotoTyped, RefuseTyped DEF IndexInv
  <1> QED
    BY <1>1, <1>3 DEF IndexInv

LEMMA ResumedTyped ==
    ASSUME RequestTyped, request' = Resumed
    PROVE  RequestTyped'
  <1>1. ASSUME NEW r \in Requests
        PROVE  Resumed[r] \in {Idle} \cup [step : Steps, image : Images]
    <2>1. CASE request[r].step = "refresh"
      BY <2>1, ImageTyped DEF Resumed, At, Steps
    <2>2. CASE request[r].step = "refresh again"
      BY <2>2, ImageTyped DEF Resumed, At, Steps
    <2>3. CASE request[r].step \notin {"refresh", "refresh again"}
      BY <2>3 DEF Resumed, RequestTyped
    <2> QED
      BY <2>1, <2>2, <2>3
  <1> QED
    BY <1>1 DEF RequestTyped, Resumed

LEMMA LoadedTyped ==
    ASSUME RequestTyped, NEW i \in Images,
           NEW next \in {Idle} \cup [step : Steps, image : Images],
           request' = Loaded(i, next)
    PROVE  RequestTyped'
  BY DEF RequestTyped, Loaded

-----------------------------------------------------------------------------
LEMMA IndexInit == Init => IndexInv
  BY DEF Init, IndexInv, RequestTyped, IndexIsCurrent

LEMMA IndexStep == IndexInv /\ [Next]_vars => IndexInv'
  <1> SUFFICES ASSUME IndexInv, [Next]_vars
               PROVE  IndexInv'
    OBVIOUS
  <1> USE DEF IndexInv
  <1>1. CASE FallsDue \/ UNCHANGED vars
    BY <1>1 DEF FallsDue, vars, marketVars, indexVars, RequestTyped, IndexIsCurrent
  <1>2. CASE RefreshSucceeds
    BY <1>2, ResumedTyped DEF RefreshSucceeds, IndexIsCurrent
  <1>3. CASE RefreshFails
    BY <1>3, ResumedTyped DEF RefreshFails, indexVars, IndexIsCurrent
  <1>4. ASSUME NEW r \in Requests, NEW i \in Images, Ask(r, i)
        PROVE  IndexInv'
    BY <1>4, AuthorizeKeeps DEF Ask, Steps
  <1>5. ASSUME NEW r \in Requests, Refreshed(r)
        PROVE  IndexInv'
    <2>1. request[r].image \in Images
      BY <1>5, ImageTyped DEF Refreshed, Steps
    <2> QED
      BY <1>5, <2>1, AfterRefreshKeeps DEF Refreshed, marketVars, Steps
  <1>6. ASSUME NEW r \in Requests, Hit(r) \/ AfterLoad(r)
        PROVE  IndexInv'
    <2>1. request[r].image \in Images
      BY <1>6, ImageTyped DEF Hit, AfterLoad, Steps
    <2> QED
      BY <1>6, <2>1, AuthorizeKeeps DEF Hit, AfterLoad, Recheck, Steps
  <1>7. ASSUME NEW r \in Requests, Miss(r)
        PROVE  IndexInv'
    <2>1. request[r].image \in Images
      BY <1>7, ImageTyped DEF Miss, Steps
    <2>2. Goto(r, "load", request[r].image) \/ Refuse(r)
      BY <1>7 DEF Miss
    <2>3. RequestTyped'
      BY <2>1, <2>2, GotoTyped, RefuseTyped DEF Steps
    <2> QED
      BY <1>7, <2>3 DEF Miss, marketVars, indexVars, IndexIsCurrent
  <1>8. ASSUME NEW r \in Requests, Expires(r) \/ Leave(r)
        PROVE  IndexInv'
    <2>1. Refuse(r) /\ UNCHANGED <<lastGood, sources, indexed>>
      BY <1>8 DEF Expires, Leave, marketVars, indexVars
    <2> QED
      BY <2>1, RefuseTyped DEF IndexIsCurrent
  <1>9. ASSUME NEW i \in Images, LoadSettles(i)
        PROVE  IndexInv'
    <2>1. At("loaded", i) \in [step : Steps, image : Images]
      BY DEF At, Steps
    <2>2. RequestTyped'
      BY <1>9, <2>1, LoadedTyped DEF LoadSettles, LoadSucceeds, LoadFails
    <2> QED
      BY <1>9, <2>2 DEF LoadSettles, LoadSucceeds, LoadFails, marketVars, indexVars,
                        IndexIsCurrent
  <1>10. ASSUME NEW i \in Images, DayPasses(i)
         PROVE  IndexInv'
    BY <1>10 DEF DayPasses, marketVars, indexVars, RequestTyped, IndexIsCurrent
  <1> QED
    BY <1>1, <1>2, <1>3, <1>4, <1>5, <1>6, <1>7, <1>8, <1>9, <1>10
    DEF Next, RefreshSettles, RequestStep

-----------------------------------------------------------------------------
(* What the action property says of one step. *)
ServedNow ==
    \A r \in Requests :
        request'[r].step = "served" /\ request'[r] # request[r] =>
            request'[r].image \in lastGood

LEMMA GotoServes ==
    ASSUME NEW r \in Requests, NEW step \in Steps, NEW i \in Images, RequestTyped,
           Goto(r, step, i), step = "served" => i \in lastGood
    PROVE  ServedNow
  BY DEF Goto, At, RequestTyped, ServedNow

LEMMA RefuseServes ==
    ASSUME NEW r \in Requests, RequestTyped, Refuse(r)
    PROVE  ServedNow
  BY DEF Refuse, Idle, RequestTyped, ServedNow

LEMMA AuthorizeServes ==
    ASSUME NEW r \in Requests, NEW i \in Images, NEW granted \in Steps,
           NEW waiting \in Steps \ {"served"}, IndexInv, Authorize(r, i, granted, waiting)
    PROVE  ServedNow
  <1>1. UNCHANGED lastGood
    BY StartRefreshKeeps DEF Authorize
  <1>2. Listing = lastGood
    BY <1>1, LookupIsCurrent DEF Authorize, IndexInv
  <1>3. \/ Goto(r, granted, i) /\ i \in lastGood
        \/ Goto(r, waiting, i)
        \/ Refuse(r)
    BY <1>2 DEF Authorize
  <1> QED
    BY <1>3, GotoServes, RefuseServes DEF IndexInv

LEMMA AfterRefreshServes ==
    ASSUME NEW r \in Requests, NEW granted \in Steps, IndexInv, request[r].image \in Images,
           AfterRefresh(r, granted), UNCHANGED lastGood
    PROVE  ServedNow
  <1>1. Listing = lastGood
    BY LookupIsCurrent DEF AfterRefresh, IndexInv
  <1>2. \/ Goto(r, granted, request[r].image) /\ request[r].image \in lastGood
        \/ Refuse(r)
    BY <1>1 DEF AfterRefresh
  <1> QED
    BY <1>2, GotoServes, RefuseServes DEF IndexInv

LEMMA ServingStep == IndexInv /\ [Next]_vars => ServedNow
  <1> SUFFICES ASSUME IndexInv, [Next]_vars
               PROVE  ServedNow
    OBVIOUS
  <1>1. CASE FallsDue \/ UNCHANGED vars
    BY <1>1 DEF FallsDue, vars, ServedNow
  <1>2. CASE RefreshSettles
    <2>1. request' = Resumed
      BY <1>2 DEF RefreshSettles, RefreshSucceeds, RefreshFails
    <2> QED
      BY <2>1 DEF Resumed, At, ServedNow
  <1>3. ASSUME NEW r \in Requests, NEW i \in Images, Ask(r, i)
        PROVE  ServedNow
    BY <1>3, AuthorizeServes DEF Ask, Steps
  <1>4. ASSUME NEW r \in Requests, Refreshed(r)
        PROVE  ServedNow
    <2>1. request[r].image \in Images
      BY <1>4, ImageTyped DEF Refreshed, Steps, IndexInv
    <2> QED
      BY <1>4, <2>1, AfterRefreshServes DEF Refreshed, marketVars, Steps
  <1>5. ASSUME NEW r \in Requests, Hit(r) \/ AfterLoad(r)
        PROVE  ServedNow
    <2>1. request[r].image \in Images
      BY <1>5, ImageTyped DEF Hit, AfterLoad, Steps, IndexInv
    <2> QED
      BY <1>5, <2>1, AuthorizeServes DEF Hit, AfterLoad, Recheck, Steps
  <1>6. ASSUME NEW r \in Requests, Miss(r)
        PROVE  ServedNow
    <2>1. request[r].image \in Images
      BY <1>6, ImageTyped DEF Miss, Steps, IndexInv
    <2>2. Goto(r, "load", request[r].image) \/ Refuse(r)
      BY <1>6 DEF Miss
    <2> QED
      BY <2>1, <2>2, GotoServes, RefuseServes DEF Steps, IndexInv
  <1>7. ASSUME NEW r \in Requests, Expires(r) \/ Leave(r)
        PROVE  ServedNow
    BY <1>7, RefuseServes DEF Expires, Leave, IndexInv
  <1>8. ASSUME NEW i \in Images, LoadSettles(i)
        PROVE  ServedNow
    BY <1>8 DEF LoadSettles, LoadSucceeds, LoadFails, Loaded, At, Idle, ServedNow
  <1>9. ASSUME NEW i \in Images, DayPasses(i)
        PROVE  ServedNow
    BY <1>9 DEF DayPasses, ServedNow
  <1> QED
    BY <1>1, <1>2, <1>3, <1>4, <1>5, <1>6, <1>7, <1>8, <1>9 DEF Next, RequestStep

(* Whatever was authorized, cached or loaded before, an image is served only while the   *)
(* last good catalogue lists it (token-image.ts:94-117, catalogue.ts:13-26).             *)
THEOREM ServesWhatIsListed == Spec => ServedWhileListed
  <1>1. IndexInv /\ [Next]_vars => [ServedNow]_vars
    BY ServingStep
  <1>2. [ServedNow]_vars <=>
            [\A r \in Requests :
                request'[r].step = "served" /\ request'[r] # request[r] =>
                    request'[r].image \in lastGood]_vars
    BY DEF ServedNow
  <1> QED
    BY <1>1, <1>2, IndexInit, IndexStep, PTL DEF Spec, ServedWhileListed

-----------------------------------------------------------------------------
SlotsInv == IsFiniteSet(pending) /\ Cardinality(pending) <= MaxConcurrent

(* There are never more loads in flight than slots, however many requests miss at once   *)
(* (token-image.ts:104-113).                                                             *)
THEOREM LoadsAreBounded == Spec => [](Cardinality(pending) <= MaxConcurrent)
  <1>1. Init => SlotsInv
    BY FS_EmptySet, ImageConstants DEF Init, SlotsInv
  <1>2. ASSUME SlotsInv, [Next]_vars
        PROVE  SlotsInv'
    <2> USE DEF SlotsInv
    <2>1. ASSUME NEW r \in Requests, Miss(r)
          PROVE  SlotsInv'
      <3>1. CASE UNCHANGED pending
        BY <1>2, <3>1
      <3>2. CASE /\ request[r].image \notin pending
                 /\ Cardinality(pending) < MaxConcurrent
                 /\ pending' = pending \cup {request[r].image}
        <4>1. /\ IsFiniteSet(pending')
              /\ Cardinality(pending') = Cardinality(pending) + 1
          BY <1>2, <3>2, FS_AddElement
        <4>2. Cardinality(pending) \in Nat
          BY <1>2, FS_CardinalityType
        <4> QED
          BY <4>1, <4>2, <3>2, ImageConstants
      <3>3. \/ UNCHANGED pending
            \/ /\ request[r].image \notin pending
               /\ Cardinality(pending) < MaxConcurrent
               /\ pending' = pending \cup {request[r].image}
        <4>1. CASE request[r].image \in pending
          BY <2>1, <4>1, Zenon DEF Miss
        <4>2. CASE request[r].image \notin pending
          BY <2>1, <4>2, Zenon DEF Miss
        <4> QED
          BY <4>1, <4>2
      <3> QED
        BY <3>1, <3>2, <3>3
    <2>2. ASSUME NEW i \in Images, LoadSettles(i)
          PROVE  SlotsInv'
      <3>1. pending' = pending \ {i} /\ i \in pending
        BY <2>2 DEF LoadSettles, LoadSucceeds, LoadFails
      <3>2. /\ IsFiniteSet(pending \ {i})
            /\ Cardinality(pending \ {i}) = Cardinality(pending) - 1
        BY <1>2, <3>1, FS_RemoveElement
      <3>3. Cardinality(pending) \in Nat
        BY <1>2, FS_CardinalityType
      <3>4. Cardinality(pending) - 1 <= MaxConcurrent
        BY <1>2, <3>3, ImageConstants
      <3> QED
        BY <3>1, <3>2, <3>4
    <2>3. CASE UNCHANGED pending
      BY <1>2, <2>3
    <2> QED
      BY <1>2, <2>1, <2>2, <2>3
      DEF Next, RefreshSettles, RequestStep, FallsDue, RefreshSucceeds, RefreshFails, Ask,
          Refreshed, Hit, AfterLoad, Leave, Expires, DayPasses, vars
  <1> QED
    BY <1>1, <1>2, PTL DEF Spec, SlotsInv

-----------------------------------------------------------------------------
(* The cache *)

(* A list of images without repetition. *)
Keys == {s \in Seq(Images) : \A p, q \in 1..Len(s) : s[p] = s[q] => p = q}

(* No image is cached twice, or cached while it is loaded, and the count is that of the list. *)
CacheInv ==
    /\ cache \in Keys
    /\ cacheBytes = Bytes(cache) /\ cacheBytes <= MaxBytes /\ Len(cache) <= MaxEntries
    /\ Cached \cap pending = {}
    /\ RequestTyped

LEMMA KeysAre ==
    ASSUME NEW s \in Keys
    PROVE  /\ s \in Seq(Images) /\ Len(s) \in Nat /\ DOMAIN s = 1..Len(s)
           /\ \A p \in 1..Len(s) : s[p] \in Images
           /\ \A p, q \in 1..Len(s) : s[p] = s[q] => p = q
           /\ \A i : i \in ToSet(s) <=> \E p \in 1..Len(s) : s[p] = i
  BY DEF Keys, ToSet

(* The bytes of a list are the sum over the set of its images. *)
LEMMA BytesAre ==
    ASSUME NEW s \in Keys
    PROVE  /\ IsFiniteSet(ToSet(s)) /\ \A i \in ToSet(s) : Size[i] \in Nat
           /\ Bytes(s) = SumFunctionOnSet(Size, ToSet(s))
           /\ Bytes(s) \in Nat
  <1> DEFINE D == 1..Len(s)
             f == [p \in D |-> Size[s[p]]]
  <1>1. /\ IsFiniteSet(D) /\ DOMAIN s = D /\ \A p, q \in D : s[p] = s[q] => p = q
        /\ \A p \in D : s[p] \in Images
    BY KeysAre, FS_Interval
  <1>2. \A i \in Images : Size[i] \in Nat
    BY ImageConstants
  <1>3. \A p \in D : Size[s[p]] \in Int /\ f[p] = Size[s[p]]
    BY <1>1, <1>2
  <1>4. DOMAIN f = D /\ Bytes(s) = SumFunction(f)
    BY <1>1 DEF Bytes
  <1>5. ToSet(s) = {s[p] : p \in D}
    BY <1>1 DEF ToSet
  <1>6. IsFiniteSet(ToSet(s))
    <2> DEFINE c == [p \in D |-> s[p]]
               I == ToSet(s)
    <2>1. c \in Surjection(D, I)
      BY <1>5 DEF Surjection
    <2> HIDE DEF c, D, I
    <2>2. IsFiniteSet(I)
      BY <1>1, <2>1, FS_Surjection
    <2> QED  BY <2>2 DEF I
  <1>7. \A i \in ToSet(s) : Size[i] \in Nat
    BY <1>1, <1>2, <1>5
  <1> HIDE DEF f, D
  <1>8. SumFunction(f) = SumFunctionOnSet(f, D)
    BY <1>4, Zenon DEF SumFunction
  <1>9. SumFunctionOnSet(f, D) = SumFunctionOnSet(Size, {s[p] : p \in D})
    BY <1>1, <1>3, SumRename
  <1>10. Bytes(s) = SumFunctionOnSet(Size, ToSet(s))
    BY <1>4, <1>5, <1>8, <1>9
  <1>11. SumFunctionOnSet(Size, ToSet(s)) \in Nat
    BY <1>6, <1>7, SumNat
  <1> QED  BY <1>6, <1>7, <1>10, <1>11

(* The first n images and the others. *)
LEMMA KeysSplit ==
    ASSUME NEW s \in Keys, NEW n \in 0..Len(s)
    PROVE  LET first == SubSeq(s, 1, n)
               rest == SubSeq(s, n + 1, Len(s))
           IN  /\ first \in Keys /\ rest \in Keys /\ Len(rest) = Len(s) - n
               /\ ToSet(rest) \in SUBSET ToSet(s)
               /\ Bytes(s) = Bytes(first) + Bytes(rest)
  <1> DEFINE first == SubSeq(s, 1, n)
             rest == SubSeq(s, n + 1, Len(s))
  <1>1. /\ s \in Seq(Images) /\ Len(s) \in Nat /\ n \in Nat /\ n <= Len(s)
        /\ \A p \in 1..Len(s) : s[p] \in Images
        /\ \A p, q \in 1..Len(s) : s[p] = s[q] => p = q
        /\ \A i : i \in ToSet(s) <=> \E p \in 1..Len(s) : s[p] = i
    BY KeysAre
  <1>2. /\ first \in Seq(Images) /\ Len(first) = n
        /\ \A p \in 1..n : first[p] = s[p] /\ p \in 1..Len(s)
    BY <1>1
  <1>3. /\ rest \in Seq(Images) /\ Len(rest) = Len(s) - n
        /\ \A p \in 1..(Len(s) - n) : rest[p] = s[p + n] /\ p + n \in 1..Len(s)
    BY <1>1
  <1>4. first \in Keys
    BY <1>1, <1>2 DEF Keys
  <1>5. rest \in Keys
    <2>1. ASSUME NEW p \in 1..Len(rest), NEW q \in 1..Len(rest), rest[p] = rest[q]
          PROVE  p = q
      <3>1. p + n \in 1..Len(s) /\ q + n \in 1..Len(s) /\ s[p + n] = s[q + n]
        BY <1>3, <2>1
      <3>2. p + n = q + n
        BY <1>1, <3>1
      <3> QED  BY <1>1, <1>3, <3>2
    <2> HIDE DEF rest
    <2> QED  BY <1>3, <2>1 DEF Keys
  <1> HIDE DEF first, rest
  <1>6. ASSUME NEW i
        PROVE  /\ i \in ToSet(first) <=> \E p \in 1..n : s[p] = i
               /\ i \in ToSet(rest) <=> \E p \in (n + 1)..Len(s) : s[p] = i
    <2>1. i \in ToSet(first) <=> \E p \in 1..n : s[p] = i
      BY <1>2, <1>4, KeysAre
    <2>2. i \in ToSet(rest) <=> \E p \in 1..(Len(s) - n) : s[p + n] = i
      BY <1>3, <1>5, KeysAre
    <2>3. ASSUME NEW p \in (n + 1)..Len(s) PROVE \E q \in 1..(Len(s) - n) : q + n = p
      <3>1. p - n \in 1..(Len(s) - n) /\ (p - n) + n = p
        BY <1>1
      <3> QED  BY <3>1
    <2>4. \A q \in 1..(Len(s) - n) : q + n \in (n + 1)..Len(s)
      BY <1>1
    <2> QED  BY <2>1, <2>2, <2>3, <2>4
  <1>7. /\ ToSet(first) \in SUBSET ToSet(s) /\ ToSet(rest) \in SUBSET ToSet(s)
        /\ ToSet(s) \ ToSet(first) = ToSet(rest)
    <2>1. ASSUME NEW i \in ToSet(first) PROVE i \in ToSet(s) /\ i \notin ToSet(rest)
      BY <1>1, <1>6
    <2>2. ASSUME NEW i \in ToSet(rest) PROVE i \in ToSet(s)
      BY <1>1, <1>6
    <2>3. ASSUME NEW i \in ToSet(s) PROVE i \in ToSet(first) \/ i \in ToSet(rest)
      BY <1>1, <1>6
    <2> QED  BY <2>1, <2>2, <2>3
  <1>8. Bytes(s) = Bytes(first) + Bytes(rest)
    <2> DEFINE all == ToSet(s)
               part == ToSet(first)
    <2>1. IsFiniteSet(all) /\ (\A i \in all : Size[i] \in Int) /\ part \in SUBSET all
      BY <1>7, BytesAre
    <2>2. Bytes(s) = SumFunctionOnSet(Size, all) /\ Bytes(first) = SumFunctionOnSet(Size, part)
          /\ Bytes(rest) = SumFunctionOnSet(Size, all \ part)
      BY <1>4, <1>5, <1>7, BytesAre
    <2> HIDE DEF all, part
    <2>3. SumFunctionOnSet(Size, all) = SumFunctionOnSet(Size, part) + SumFunctionOnSet(Size, all \ part)
      BY <2>1, SumSplit
    <2> QED  BY <2>2, <2>3
  <1> USE DEF first, rest
  <1> QED  BY <1>3, <1>4, <1>5, <1>7, <1>8

(* One more image at the end. *)
LEMMA KeysAppend ==
    ASSUME NEW s \in Keys, NEW i \in Images, i \notin ToSet(s)
    PROVE  LET longer == Append(s, i)
           IN  /\ longer \in Keys /\ Len(longer) = Len(s) + 1
               /\ ToSet(longer) = ToSet(s) \cup {i}
               /\ Bytes(longer) = Bytes(s) + Size[i]
  <1> DEFINE longer == Append(s, i)
  <1>1. /\ s \in Seq(Images) /\ Len(s) \in Nat
        /\ \A p \in 1..Len(s) : s[p] # i
        /\ \A p, q \in 1..Len(s) : s[p] = s[q] => p = q
        /\ \A j : j \in ToSet(s) <=> \E p \in 1..Len(s) : s[p] = j
    BY KeysAre
  <1>2. /\ longer \in Seq(Images) /\ Len(longer) = Len(s) + 1 /\ longer[Len(s) + 1] = i
        /\ \A p \in 1..Len(s) : longer[p] = s[p]
    BY <1>1
  <1>3. \A p \in 1..(Len(s) + 1) : p \in 1..Len(s) \/ p = Len(s) + 1
    BY <1>1
  <1> HIDE DEF longer
  <1>4. longer \in Keys
    BY <1>1, <1>2, <1>3 DEF Keys
  <1>5. ToSet(longer) = ToSet(s) \cup {i}
    <2>1. \A j : j \in ToSet(longer) <=> \E p \in 1..(Len(s) + 1) : longer[p] = j
      BY <1>2, <1>4, KeysAre
    <2>2. Len(s) + 1 \in 1..(Len(s) + 1) /\ 1..Len(s) \subseteq 1..(Len(s) + 1)
      BY <1>1
    <2> QED  BY <1>1, <1>2, <1>3, <2>1, <2>2
  <1>6. Bytes(longer) = Bytes(s) + Size[i]
    <2> DEFINE all == ToSet(longer)
               old == ToSet(s)
    <2>1. IsFiniteSet(all) /\ (\A j \in all : Size[j] \in Int) /\ i \in all /\ all \ {i} = old
      BY <1>4, <1>5, BytesAre
    <2>2. Bytes(longer) = SumFunctionOnSet(Size, all) /\ Bytes(s) = SumFunctionOnSet(Size, old)
          /\ Bytes(s) \in Nat
      BY <1>4, BytesAre
    <2> HIDE DEF all, old
    <2>3. SumFunctionOnSet(Size, all) = Size[i] + SumFunctionOnSet(Size, old)
      BY <2>1, SumRemove
    <2>4. Size[i] \in Int
      BY <2>1
    <2> QED  BY <2>2, <2>3, <2>4
  <1> USE DEF longer
  <1> QED  BY <1>2, <1>4, <1>5, <1>6

(* One image fewer, wherever it is in the list. *)
LEMMA KeysRemove ==
    ASSUME NEW s \in Keys, NEW n \in 1..Len(s)
    PROVE  LET fewer == RemoveAt(s, n)
           IN  /\ fewer \in Keys /\ Len(fewer) = Len(s) - 1
               /\ ToSet(fewer) = ToSet(s) \ {s[n]}
               /\ Bytes(fewer) = Bytes(s) - Size[s[n]]
  <1> DEFINE fewer == RemoveAt(s, n)
             size == Len(s)
             from == [p \in 1..(size - 1) |-> IF p < n THEN p ELSE p + 1]
  <1>1. /\ s \in Seq(Images) /\ size \in Nat /\ n \in 1..size
        /\ \A p, q \in 1..size : s[p] = s[q] => p = q
        /\ \A j : j \in ToSet(s) <=> \E p \in 1..size : s[p] = j
    BY KeysAre
  <1>2. /\ fewer \in Seq(Images) /\ Len(fewer) = size - 1
        /\ \A p \in 1..(size - 1) : fewer[p] = IF p < n THEN s[p] ELSE s[p + 1]
    <2> DEFINE a == SubSeq(s, 1, n - 1)
               b == SubSeq(s, n + 1, size)
    <2>1. /\ a \in Seq(Images) /\ Len(a) = n - 1 /\ \A p \in 1..(n - 1) : a[p] = s[p]
      BY <1>1
    <2>2. /\ b \in Seq(Images) /\ Len(b) = size - n /\ \A p \in 1..(size - n) : b[p] = s[p + n]
      BY <1>1
    <2>3. fewer = a \o b
      BY DEF RemoveAt
    <2> HIDE DEF a, b, fewer
    <2>4. /\ fewer \in Seq(Images) /\ Len(fewer) = Len(a) + Len(b)
          /\ \A p \in 1..(Len(a) + Len(b)) :
                fewer[p] = IF p <= Len(a) THEN a[p] ELSE b[p - Len(a)]
      <3>1. a \in Seq(Images) /\ b \in Seq(Images)
        BY <2>1, <2>2
      <3> QED  BY <2>3, <3>1
    <2> HIDE DEF size
    <2>5. Len(a) + Len(b) = size - 1
      BY <1>1, <2>1, <2>2
    <2>6. ASSUME NEW p \in 1..(size - 1)
          PROVE  fewer[p] = IF p < n THEN s[p] ELSE s[p + 1]
      <3>1. fewer[p] = IF p <= n - 1 THEN a[p] ELSE b[p - (n - 1)]
        BY <2>1, <2>4, <2>5
      <3>2. CASE p < n
        BY <1>1, <2>1, <3>1, <3>2
      <3>3. CASE ~(p < n)
        <4>1. p - (n - 1) \in 1..(size - n) /\ (p - (n - 1)) + n = p + 1
          BY <1>1, <3>3
        <4>2. fewer[p] = b[p - (n - 1)]
          BY <1>1, <3>1, <3>3
        <4> QED  BY <2>2, <3>3, <4>1, <4>2
      <3> QED  BY <3>2, <3>3
    <2> QED  BY <2>4, <2>5, <2>6
  <1>3. /\ \A p \in 1..(size - 1) : from[p] \in 1..size /\ from[p] # n
        /\ \A p, q \in 1..(size - 1) : from[p] = from[q] => p = q
        /\ \A q \in 1..size : q # n => \E p \in 1..(size - 1) : from[p] = q
    <2> HIDE DEF size
    <2>1. ASSUME NEW q \in 1..size, q # n PROVE \E p \in 1..(size - 1) : from[p] = q
      <3>1. CASE q < n
        <4>1. q \in 1..(size - 1)
          BY <1>1, <3>1
        <4> QED  BY <3>1, <4>1
      <3>2. CASE ~(q < n)
        <4>1. q - 1 \in 1..(size - 1) /\ ~(q - 1 < n) /\ (q - 1) + 1 = q
          BY <1>1, <2>1, <3>2
        <4> QED  BY <4>1
      <3> QED  BY <3>1, <3>2
    <2>2. \A p \in 1..(size - 1) : from[p] \in 1..size /\ from[p] # n
      BY <1>1
    <2>3. \A p, q \in 1..(size - 1) : from[p] = from[q] => p = q
      BY <1>1
    <2> QED  BY <2>1, <2>2, <2>3
  <1>4. \A p \in 1..(size - 1) : fewer[p] = s[from[p]]
    BY <1>2
  <1> HIDE DEF fewer, from
  <1>5. fewer \in Keys
    BY <1>1, <1>2, <1>3, <1>4 DEF Keys
  <1>6. ToSet(fewer) = ToSet(s) \ {s[n]}
    <2>1. \A j : j \in ToSet(fewer) <=> \E p \in 1..(size - 1) : fewer[p] = j
      BY <1>2, <1>5, KeysAre
    <2> HIDE DEF size
    <2>2. ASSUME NEW j \in ToSet(fewer) PROVE j \in ToSet(s) /\ j # s[n]
      <3>1. PICK p \in 1..(size - 1) : s[from[p]] = j
        BY <1>4, <2>1, <2>2
      <3> QED  BY <1>1, <1>3, <3>1
    <2>3. ASSUME NEW j \in ToSet(s), j # s[n] PROVE j \in ToSet(fewer)
      <3>1. PICK q \in 1..size : s[q] = j
        BY <1>1, <2>3
      <3>2. PICK p \in 1..(size - 1) : from[p] = q
        BY <1>3, <2>3, <3>1
      <3> QED  BY <1>4, <2>1, <3>1, <3>2
    <2> QED  BY <2>2, <2>3
  <1>7. Bytes(fewer) = Bytes(s) - Size[s[n]]
    <2> DEFINE all == ToSet(s)
               i == s[n]
    <2>1. IsFiniteSet(all) /\ (\A j \in all : Size[j] \in Int) /\ i \in all
      BY <1>1, BytesAre
    <2>2. Bytes(s) = SumFunctionOnSet(Size, all) /\ Bytes(fewer) = SumFunctionOnSet(Size, all \ {i})
          /\ Bytes(fewer) \in Nat /\ Size[i] \in Int
      BY <1>5, <1>6, <2>1, BytesAre
    <2> HIDE DEF all, i
    <2>3. SumFunctionOnSet(Size, all) = Size[i] + SumFunctionOnSet(Size, all \ {i})
      BY <2>1, SumRemove
    <2>4. Bytes(fewer) = Bytes(s) - Size[i]
      BY <2>2, <2>3
    <2> QED  BY <2>4 DEF i
  <1> USE DEF fewer
  <1> QED  BY <1>2, <1>5, <1>6, <1>7

(* Eviction stops: at the latest when nothing is left. *)
LEMMA EvictionFits ==
    ASSUME NEW i, Len(cache) \in Nat
    PROVE  /\ Evicted(i) \in 0..Len(cache)
           /\ \/ Evicted(i) = Len(cache)
              \/ /\ Len(cache) - Evicted(i) < MaxEntries
                 /\ cacheBytes - Bytes(SubSeq(cache, 1, Evicted(i))) + Size[i] <= MaxBytes
  <1> DEFINE fits(m) ==
                 \/ m = Len(cache)
                 \/ /\ Len(cache) - m < MaxEntries
                    /\ cacheBytes - Bytes(SubSeq(cache, 1, m)) + Size[i] <= MaxBytes
             S == {m \in 0..Len(cache) : fits(m)}
             R == {x \in Int \X Int : x[1] > x[2]}
  <1>1. Len(cache) \in S
    OBVIOUS
  <1>2. IsFiniteSet(S) /\ S \subseteq 0..Len(cache)
    <2>1. S \subseteq 0..Len(cache)
      OBVIOUS
    <2> HIDE DEF S
    <2>2. IsFiniteSet(0..Len(cache))
      BY FS_Interval
    <2> QED  BY <2>1, <2>2, FS_Subset
  <1>3. \A x, y \in Int : <<x, y>> \in R <=> x > y
    OBVIOUS
  <1>4. \A m \in S : m \in Int
    BY <1>2
  <1>5. StrictOrder(R, S)
    <2> HIDE DEF R, S
    <2> QED  BY <1>3, <1>4 DEF StrictOrder
  <1>6. \E n \in S : \A m \in S \ {n} : <<m, n>> \in R
    <2> HIDE DEF R, S
    <2> QED  BY <1>1, <1>2, <1>5, LastElement
  <1>7. \E n \in 0..Len(cache) : fits(n) /\ \A m \in 0..(n - 1) : ~fits(m)
    <2>1. PICK n \in S : \A m \in S \ {n} : <<m, n>> \in R
      BY <1>6
    <2>2. n \in 0..Len(cache) /\ fits(n)
      OBVIOUS
    <2> HIDE DEF fits, R
    <2>3. ASSUME NEW m \in 0..(n - 1), fits(m) PROVE FALSE
      <3>1. m \in S \ {n} /\ m \in Int /\ n \in Int /\ ~(m > n)
        BY <2>2, <2>3
      <3> QED  BY <1>3, <2>1, <3>1
    <2> QED  BY <2>2, <2>3
  <1>8. Evicted(i) = CHOOSE n \in 0..Len(cache) : fits(n) /\ \A m \in 0..(n - 1) : ~fits(m)
    BY DEF Evicted
  <1> HIDE DEF fits
  <1>9. Evicted(i) \in 0..Len(cache) /\ fits(Evicted(i))
    BY <1>7, <1>8
  <1> USE DEF fits
  <1> QED  BY <1>9

LEMMA StoreKeeps ==
    ASSUME NEW i \in Images, CacheInv, i \notin Cached, Store(i)
    PROVE  /\ cache' \in Keys /\ cacheBytes' = Bytes(cache') /\ cacheBytes' <= MaxBytes
           /\ Len(cache') <= MaxEntries /\ ToSet(cache') \subseteq ToSet(cache) \cup {i}
  <1> DEFINE n == Evicted(i)
             first == SubSeq(cache, 1, n)
             rest == SubSeq(cache, n + 1, Len(cache))
             longer == Append(rest, i)
  <1>1. cache \in Keys /\ Len(cache) \in Nat /\ cacheBytes = Bytes(cache)
    BY KeysAre DEF CacheInv
  <1>2. n \in 0..Len(cache) /\ \/ n = Len(cache)
                               \/ /\ Len(cache) - n < MaxEntries
                                  /\ cacheBytes - Bytes(first) + Size[i] <= MaxBytes
    BY <1>1, EvictionFits
  <1>3. /\ first \in Keys /\ rest \in Keys /\ Len(rest) = Len(cache) - n
        /\ ToSet(rest) \in SUBSET ToSet(cache)
        /\ Bytes(cache) = Bytes(first) + Bytes(rest)
    BY <1>1, <1>2, KeysSplit
  <1>4. cache' = longer /\ cacheBytes' = cacheBytes - Bytes(first) + Size[i]
    BY DEF Store
  <1>5. i \notin ToSet(rest)
    BY <1>3 DEF Cached
  <1> HIDE DEF n, first, rest
  <1>6. /\ longer \in Keys /\ Len(longer) = Len(rest) + 1
        /\ ToSet(longer) = ToSet(rest) \cup {i} /\ Bytes(longer) = Bytes(rest) + Size[i]
    BY <1>3, <1>5, KeysAppend
  <1>7. Bytes(first) \in Nat /\ Bytes(rest) \in Nat /\ Size[i] \in Nat /\ Size[i] <= MaxBytes
        /\ MaxBytes \in Nat /\ MaxEntries \in Nat /\ MaxEntries >= 1
    BY <1>3, BytesAre, ImageConstants
  <1>8. n = Len(cache) => Bytes(rest) = 0
    <2>1. n = Len(cache) => DOMAIN rest = {}
      BY <1>1, <1>3, KeysAre
    <2>2. n = Len(cache) => ToSet(rest) = {}
      BY <2>1 DEF ToSet
    <2> QED  BY <1>3, <2>2, BytesAre, SumEmpty
  <1> HIDE DEF longer
  <1>9. cacheBytes' = Bytes(longer)
    BY <1>1, <1>3, <1>4, <1>6, <1>7
  <1>10. cacheBytes' <= MaxBytes /\ Len(longer) <= MaxEntries
    <2>1. CASE n = Len(cache)
      BY <1>1, <1>3, <1>6, <1>7, <1>8, <1>9, <2>1
    <2>2. CASE n # Len(cache)
      <3>1. Len(rest) + 1 <= MaxEntries
        BY <1>1, <1>2, <1>3, <1>7, <2>2
      <3> QED  BY <1>2, <1>4, <1>6, <2>2, <3>1
    <2> QED  BY <2>1, <2>2
  <1>11. ToSet(longer) \subseteq ToSet(cache) \cup {i}
    BY <1>3, <1>6
  <1> QED  BY <1>4, <1>6, <1>9, <1>10, <1>11

LEMMA ForgetKeeps ==
    ASSUME NEW i \in Images, CacheInv, Forget(i)
    PROVE  /\ cache' \in Keys /\ cacheBytes' = Bytes(cache') /\ cacheBytes' <= MaxBytes
           /\ Len(cache') <= MaxEntries /\ ToSet(cache') = ToSet(cache) \ {i}
  <1>1. /\ cache \in Keys /\ Len(cache) \in Nat /\ DOMAIN cache = 1..Len(cache)
        /\ cacheBytes = Bytes(cache)
        /\ cacheBytes <= MaxBytes /\ Len(cache) <= MaxEntries
        /\ MaxBytes \in Nat /\ MaxEntries \in Nat
    BY KeysAre, ImageConstants DEF CacheInv
  <1>2. CASE i \in Cached
    <2> DEFINE n == CHOOSE p \in DOMAIN cache : cache[p] = i
               fewer == RemoveAt(cache, n)
    <2>1. \E p \in DOMAIN cache : cache[p] = i
      BY <1>1, <1>2, KeysAre DEF Cached
    <2>2. n \in 1..Len(cache) /\ cache[n] = i
      BY <1>1, <2>1
    <2>3. cache' = fewer /\ cacheBytes' = cacheBytes - Size[i]
      BY <1>2 DEF Forget, Removed
    <2> HIDE DEF n
    <2>4. /\ fewer \in Keys /\ Len(fewer) = Len(cache) - 1
          /\ ToSet(fewer) = ToSet(cache) \ {cache[n]}
          /\ Bytes(fewer) = Bytes(cache) - Size[cache[n]]
      BY <1>1, <2>2, KeysRemove
    <2>5. Size[i] \in Nat /\ Bytes(cache) \in Nat
      BY <1>1, BytesAre, ImageConstants
    <2> HIDE DEF fewer
    <2>6. cacheBytes' = Bytes(fewer) /\ cacheBytes' <= MaxBytes /\ Len(fewer) <= MaxEntries
      BY <1>1, <2>2, <2>3, <2>4, <2>5
    <2> QED  BY <2>2, <2>3, <2>4, <2>6
  <1>3. CASE i \notin Cached
    BY <1>1, <1>3 DEF Forget, cacheVars, Cached
  <1> QED  BY <1>2, <1>3

LEMMA CacheStarts == ASSUME Init PROVE CacheInv
  <1>1. cache = <<>> /\ cacheBytes = 0 /\ pending = {} /\ Len(cache) = 0
    BY DEF Init
  <1>2. cache \in Keys
    BY <1>1 DEF Keys
  <1>3. ToSet(cache) = {}
    BY <1>1 DEF ToSet
  <1>4. Bytes(cache) = 0
    BY <1>2, <1>3, BytesAre, SumEmpty
  <1> QED
    BY <1>1, <1>2, <1>4, ImageConstants, IndexInit DEF CacheInv, IndexInv

LEMMA CacheHolds == ASSUME CacheInv, IndexInv, [Next]_vars PROVE CacheInv'
  <1>0. RequestTyped'
    BY IndexStep DEF IndexInv
  <1>1. CASE UNCHANGED <<cache, cacheBytes, pending>>
    BY <1>0, <1>1 DEF CacheInv, Keys, Cached, ToSet, Bytes
  <1>2. ASSUME NEW r \in Requests, Miss(r)
        PROVE  CacheInv'
    <2> DEFINE i == request[r].image
    <2>1. i \in Images
      BY <1>2, ImageTyped DEF Miss, Steps, CacheInv
    <2>2. Forget(i) /\ (pending' = pending \/ pending' = pending \cup {i})
      BY <1>2 DEF Miss
    <2>3. /\ cache' \in Keys /\ cacheBytes' = Bytes(cache') /\ cacheBytes' <= MaxBytes
          /\ Len(cache') <= MaxEntries /\ ToSet(cache') = ToSet(cache) \ {i}
      BY <2>1, <2>2, ForgetKeeps
    <2>4. Bytes(cache') = Bytes(cache)' /\ ToSet(cache') = Cached'
      BY DEF Bytes, Cached
    <2>5. Cached' \cap pending' = {}
      BY <2>2, <2>3, <2>4 DEF CacheInv, Cached
    <2> QED  BY <1>0, <2>3, <2>4, <2>5 DEF CacheInv, Keys
  <1>3. ASSUME NEW i \in Images, LoadSucceeds(i)
        PROVE  CacheInv'
    <2>1. i \in pending /\ Store(i) /\ pending' = pending \ {i} /\ i \notin Cached
      BY <1>3 DEF LoadSucceeds, CacheInv
    <2>2. /\ cache' \in Keys /\ cacheBytes' = Bytes(cache') /\ cacheBytes' <= MaxBytes
          /\ Len(cache') <= MaxEntries /\ ToSet(cache') \subseteq ToSet(cache) \cup {i}
      BY <2>1, StoreKeeps
    <2>3. Bytes(cache') = Bytes(cache)' /\ ToSet(cache') = Cached'
      BY DEF Bytes, Cached
    <2>4. Cached' \cap pending' = {}
      BY <2>1, <2>2, <2>3 DEF CacheInv, Cached
    <2> QED  BY <1>0, <2>2, <2>3, <2>4 DEF CacheInv, Keys
  <1>4. ASSUME NEW i \in Images, LoadFails(i)
        PROVE  CacheInv'
    <2>1. UNCHANGED <<cache, cacheBytes>> /\ pending' \subseteq pending
      BY <1>4 DEF LoadFails, cacheVars
    <2> QED  BY <1>0, <2>1 DEF CacheInv, Keys, Cached, ToSet, Bytes
  <1> QED
    BY <1>1, <1>2, <1>3, <1>4
    DEF Next, RefreshSettles, RequestStep, FallsDue, RefreshSucceeds, RefreshFails, Ask,
        Refreshed, Hit, AfterLoad, Leave, Expires, DayPasses, LoadSettles, vars, cacheVars

(* The cache's account is exact and within its bounds, whatever is hit, coalesced, evicted *)
(* or expired meanwhile (token-image.ts:41-45, 105-112).                                   *)
THEOREM CacheAddsUp == Spec => []CacheIsAccounted
  <1>1. Init => CacheInv /\ IndexInv
    BY CacheStarts, IndexInit
  <1>2. CacheInv /\ IndexInv /\ [Next]_vars => CacheInv' /\ IndexInv'
    BY CacheHolds, IndexStep
  <1>3. CacheInv /\ Cardinality(pending) <= MaxConcurrent => CacheIsAccounted
    BY KeysAre DEF CacheInv, CacheIsAccounted, IsInjective
  <1> QED  BY <1>1, <1>2, <1>3, LoadsAreBounded, PTL DEF Spec
==============================================================================
