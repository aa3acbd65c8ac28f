----------------------------- MODULE TokenImage -----------------------------
(***************************************************************************)
(* Token images: the relay (apps/api/token-image.ts), which fetches each   *)
(* image at most once at a time and keeps a bounded cache, behind the      *)
(* authorizer (apps/api/catalogue.ts), which serves only what the last     *)
(* good observation of MarketDataService (packages/integrations/           *)
(* market-data.ts) lists.                                                  *)
(*                                                                         *)
(* An action is what happens between two awaits.  A catalogue is the set   *)
(* of the images it lists: before the first observation it is empty, since *)
(* none and an empty one refuse alike.  Times are abstracted to what they  *)
(* bring about: a deadline may pass whenever its request waits, a cached   *)
(* image may expire, and the next refresh falls due some time after the    *)
(* last (45 seconds, up to 300 after failures).                            *)
(***************************************************************************)
EXTENDS Integers, Sequences, FiniteSets, SequencesExt

CONSTANTS
    Requests,
    Images,        \* content IDs, or URLs of images without one
    Catalogues,    \* what an observation may list
    Size,          \* bytes of each thumbnail
    MaxBytes,      \* MAX_CACHE_BYTES
    MaxEntries,    \* MAX_CACHE_ENTRIES
    MaxConcurrent  \* MAX_CONCURRENT_IMAGES

ASSUME ImageConstants ==
    /\ MaxBytes \in Nat /\ MaxEntries \in Nat \ {0} /\ MaxConcurrent \in Nat
    /\ Size \in [Images -> 0..MaxBytes]
    /\ Catalogues \subseteq SUBSET Images

VARIABLES
    (* MarketDataService *)
    lastGood, refreshing, due,
    (* the authorizer: sources is the index, indexed that it is lastGood's *)
    sources, indexed,
    (* the relay *)
    cache,         \* keys in the order of their insertion
    expired,       \* cached more than a day ago
    cacheBytes, pending,
    (* the requests: where each is, and for which image *)
    request

marketVars == <<lastGood, refreshing, due>>
indexVars == <<sources, indexed>>
cacheVars == <<cache, expired, cacheBytes>>
vars == <<marketVars, indexVars, cacheVars, pending, request>>

Steps == {"refresh", "refreshed", "admitted", "load", "loaded",
          "refresh again", "refreshed again", "served"}

Idle == [step |-> "idle"]
At(step, i) == [step |-> step, image |-> i]
Goto(r, step, i) == request' = [request EXCEPT ![r] = At(step, i)]
Refuse(r) == request' = [request EXCEPT ![r] = Idle]       \* 404, 502 or 503

-----------------------------------------------------------------------------
(* MarketDataService.read(), up to its await. *)

StartRefresh ==
    IF due /\ ~refreshing
    THEN refreshing' = TRUE /\ due' = FALSE /\ UNCHANGED lastGood
    ELSE UNCHANGED marketVars

FallsDue ==
    /\ ~due /\ ~refreshing
    /\ due' = TRUE
    /\ UNCHANGED <<lastGood, refreshing, indexVars, cacheVars, pending, request>>

(* Everyone who awaits the refresh goes on, whether it succeeded or not. *)
ResumedBeforeTheImage ==
    [r \in Requests |->
        IF request[r].step = "refresh" THEN At("refreshed", request[r].image) ELSE request[r]]

Resumed ==
    [r \in Requests |->
        CASE request[r].step = "refresh" -> At("refreshed", request[r].image)
          [] request[r].step = "refresh again" -> At("refreshed again", request[r].image)
          [] OTHER -> request[r]]

RefreshSucceeds ==
    /\ refreshing
    /\ \E listed \in Catalogues : lastGood' = listed
    /\ refreshing' = FALSE
    /\ indexed' = FALSE                            \* another object
    /\ request' = Resumed
    /\ UNCHANGED <<due, sources, cacheVars, pending>>

RefreshFails ==
    /\ refreshing
    /\ refreshing' = FALSE
    /\ request' = Resumed
    /\ UNCHANGED <<lastGood, due, indexVars, cacheVars, pending>>

-----------------------------------------------------------------------------
(* The authorizer *)

ListingOnceIndexed == IF sources # {} THEN sources ELSE lastGood
Listing == IF indexed THEN sources ELSE lastGood

(* lookup() indexes the last good observation when it is another than the indexed one. *)
Lookup == sources' = Listing /\ indexed' = TRUE

(* What the last good observation lists is admitted without waiting for the refresh it   *)
(* may start; anything else awaits one that is due or under way.                         *)
Authorize(r, i, granted, waiting) ==
    /\ Lookup
    /\ StartRefresh
    /\ CASE i \in Listing                             -> Goto(r, granted, i)
         [] i \notin Listing /\ (due \/ refreshing)    -> Goto(r, waiting, i)
         [] i \notin Listing /\ ~(due \/ refreshing)   -> Refuse(r)

AfterRefresh(r, granted) ==
    /\ Lookup
    /\ LET i == request[r].image IN
          IF i \in Listing THEN Goto(r, granted, i) ELSE Refuse(r)

Ask(r, i) ==
    /\ request[r].step = "idle"
    /\ Authorize(r, i, "admitted", "refresh")
    /\ UNCHANGED <<cacheVars, pending>>

Refreshed(r) ==
    /\ \/ request[r].step = "refreshed" /\ AfterRefresh(r, "admitted")
       \/ request[r].step = "refreshed again" /\ AfterRefresh(r, "served")
    /\ UNCHANGED <<marketVars, cacheVars, pending>>

-----------------------------------------------------------------------------
(* The relay *)

Cached == ToSet(cache)
Bytes(keys) == SumFunction([p \in DOMAIN keys |-> Size[keys[p]]])

(* The membership is checked again once the image is there, since a refresh may have     *)
(* removed it meanwhile.                                                                 *)
Recheck(r) == Authorize(r, request[r].image, "served", "refresh again")

Hit(r) ==
    /\ request[r].step = "admitted"
    /\ request[r].image \in Cached \ expired
    /\ Recheck(r)
    /\ UNCHANGED <<cacheVars, pending>>

(* forget(): the key leaves the order, wherever it is in it. *)
Removed(i) == RemoveAt(cache, CHOOSE p \in DOMAIN cache : cache[p] = i)

ForgetKeepingBytes(i) ==
    IF i \in Cached
    THEN /\ cache' = Removed(i)
         /\ expired' = expired \ {i}
         /\ UNCHANGED cacheBytes
    ELSE UNCHANGED cacheVars

Forget(i) ==
    IF i \in Cached
    THEN /\ cache' = Removed(i)
         /\ expired' = expired \ {i}
         /\ cacheBytes' = cacheBytes - Size[i]
    ELSE UNCHANGED cacheVars

(* No valid copy: the image is loaded once for everyone who wants it, if there is a slot. *)
Miss(r) ==
    LET i == request[r].image IN
    /\ request[r].step = "admitted"
    /\ i \notin Cached \ expired
    /\ Forget(i)
    /\ \/ i \in pending /\ Goto(r, "load", i) /\ UNCHANGED pending
       \/ /\ i \notin pending /\ Cardinality(pending) < MaxConcurrent
          /\ pending' = pending \cup {i}
          /\ Goto(r, "load", i)
       \/ /\ i \notin pending /\ Cardinality(pending) >= MaxConcurrent
          /\ Refuse(r)
          /\ UNCHANGED pending
    /\ UNCHANGED <<marketVars, indexVars>>

(* The oldest entries make room: as many as the while loop forgets. *)
Evicted(i) ==
    CHOOSE n \in 0..Len(cache) :
        LET fits(m) ==
                \/ m = Len(cache)
                \/ /\ Len(cache) - m < MaxEntries
                   /\ cacheBytes - Bytes(SubSeq(cache, 1, m)) + Size[i] <= MaxBytes
        IN  fits(n) /\ \A m \in 0..(n - 1) : ~fits(m)

Store(i) ==
    LET n == Evicted(i) IN
    /\ cache' = Append(SubSeq(cache, n + 1, Len(cache)), i)
    /\ expired' = expired \ ToSet(SubSeq(cache, 1, n))
    /\ cacheBytes' = cacheBytes - Bytes(SubSeq(cache, 1, n)) + Size[i]

(* The requests that wait for i and are still there. *)
Loaded(i, next) ==
    [r \in Requests |-> IF request[r] = At("load", i) THEN next ELSE request[r]]

LoadSucceeds(i) ==
    /\ i \in pending
    /\ Store(i)
    /\ pending' = pending \ {i}
    /\ request' = Loaded(i, At("loaded", i))
    /\ UNCHANGED <<marketVars, indexVars>>

(* No gateway has the image, or the deadline of the first request for it has passed. *)
LoadFails(i) ==
    /\ i \in pending
    /\ pending' = pending \ {i}
    /\ request' = Loaded(i, Idle)
    /\ UNCHANGED <<marketVars, indexVars, cacheVars>>

AfterLoad(r) ==
    /\ request[r].step = "loaded"
    /\ Recheck(r)
    /\ UNCHANGED <<cacheVars, pending>>

(* The caller's deadline, or its abort: the refresh and the load go on for the others. *)
Expires(r) ==
    /\ request[r].step \in {"refresh", "load", "refresh again"}
    /\ Refuse(r)
    /\ UNCHANGED <<marketVars, indexVars, cacheVars, pending>>

Leave(r) ==
    /\ request[r].step = "served"
    /\ Refuse(r)
    /\ UNCHANGED <<marketVars, indexVars, cacheVars, pending>>

DayPasses(i) ==
    /\ i \in Cached \ expired
    /\ expired' = expired \cup {i}
    /\ UNCHANGED <<marketVars, indexVars, cache, cacheBytes, pending, request>>

-----------------------------------------------------------------------------
Init ==
    /\ lastGood = {} /\ refreshing = FALSE /\ due = TRUE
    /\ sources = {} /\ indexed = FALSE
    /\ cache = <<>> /\ expired = {} /\ cacheBytes = 0 /\ pending = {}
    /\ request = [r \in Requests |-> Idle]

RequestStep(r) == Refreshed(r) \/ Hit(r) \/ Miss(r) \/ AfterLoad(r) \/ Leave(r)
RefreshSettles == RefreshSucceeds \/ RefreshFails
LoadSettles(i) == LoadSucceeds(i) \/ LoadFails(i)

Next ==
    \/ FallsDue \/ RefreshSettles
    \/ \E r \in Requests :
          \/ \E i \in Images : Ask(r, i)
          \/ RequestStep(r)
          \/ Expires(r)
    \/ \E i \in Images : LoadSettles(i) \/ DayPasses(i)

Spec == Init /\ [][Next]_vars

(* Every fetch has a timeout, every load the deadline of the request that started it,    *)
(* and a promise's continuations run.                                                    *)
FairSpec ==
    /\ Spec
    /\ WF_vars(RefreshSettles)
    /\ \A i \in Images : WF_vars(LoadSettles(i))
    /\ \A r \in Requests : WF_vars(RequestStep(r))

-----------------------------------------------------------------------------
(* The variables stay within their types. *)
TypeOK ==
    /\ lastGood \subseteq Images /\ refreshing \in BOOLEAN /\ due \in BOOLEAN
    /\ sources \subseteq Images /\ indexed \in BOOLEAN
    /\ cache \in Seq(Images) /\ expired \subseteq Cached
    /\ cacheBytes \in Int /\ pending \subseteq Images
    /\ request \in [Requests -> {Idle} \cup [step : Steps, image : Images]]

(* Whatever is hit, coalesced, evicted or expired meanwhile, the cache's account of its  *)
(* bytes is exact and within its bounds, no image is in it twice or loaded while it is   *)
(* there, and no more loads are in flight than allowed (token-image.ts:41-45, 105-112).  *)
CacheIsAccounted ==
    /\ cacheBytes = Bytes(cache)
    /\ cacheBytes <= MaxBytes /\ Len(cache) <= MaxEntries
    /\ IsInjective(cache) /\ Cached \cap pending = {}
    /\ Cardinality(pending) <= MaxConcurrent

(* No image is served that the last good catalogue does not list at that moment, however *)
(* long ago it was authorized, loaded or cached (token-image.ts:94-117,                  *)
(* catalogue.ts:13-26).                                                                  *)
ServedWhileListed ==
    [][\A r \in Requests :
          request'[r].step = "served" /\ request'[r] # request[r] =>
              request'[r].image \in lastGood]_vars

(* Every request is answered, even without its own deadline: no refresh and no load      *)
(* forgets who awaits it, and no chain of refreshes and loads keeps a request for ever    *)
(* (token-image.ts:85-117, catalogue.ts:27-43).                                           *)
RequestsAreAnswered == \A r \in Requests : request[r] # Idle ~> request[r] = Idle
=============================================================================
