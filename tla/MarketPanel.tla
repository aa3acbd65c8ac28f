----------------------------- MODULE MarketPanel -----------------------------
(***************************************************************************)
(* The market panel of the web interface (apps/web/market.tsx) inside the  *)
(* App that polls the overview for it (apps/web/src.tsx).  The user        *)
(* changes view and query, asks for more rows or for a fresh list, while   *)
(* requests and polls are answered in any order, late, or not at all.      *)
(*                                                                         *)
(* The API is several instances, each with the last observation it made of *)
(* the catalogue (apps/api/catalogue.ts:4-6, hosted.ts:56), and any of     *)
(* them may answer: a later answer may be of an older observation, and     *)
(* nothing in the client compares their times.                             *)
(*                                                                         *)
(* A list is what the panel shows: the rows of one or more pages of an     *)
(* observation of the catalogue.  A row stands for a page of rows, and is  *)
(* named by the list, observation and offset it belongs to; asked is when  *)
(* the request for the list was made.  A version is an identity no request *)
(* holds: the counter in the code never repeats.                           *)
(* How many of the loaded rows are revealed (limit) and the wording of     *)
(* errors are left out.                                                    *)
(***************************************************************************)
EXTENDS Integers, Sequences, FiniteSets

CONSTANTS
    Queries, Blank,   \* what the user may type; nothing typed
    Pages,            \* how many pages each list has
    MaxCached,        \* 12 in the code
    Screens,          \* bound: the views with queries the user goes to
    MaxFlight,        \* bound: requests in flight, or about to be, when the user acts
    MaxObservation    \* bound: observations the API's instances make

Views == {"ranking", "selection", "funded"}
Keys == {"all", "selection"} \X Queries
KeyOf(v, q) == <<IF v = "selection" THEN "selection" ELSE "all", q>>
IsDefault(v, q) == v = "ranking" /\ q = Blank

ASSUME PanelConstants ==
    /\ Blank \in Queries /\ Screens \subseteq Views \X Queries
    /\ Pages \in [Keys -> Nat \ {0}]
    /\ MaxCached \in Nat \ {0} /\ MaxFlight \in Nat \ {0} /\ MaxObservation \in Nat \ {0}

VARIABLES
    latest,                   \* the newest observation of any instance: the time
    data, error,              \* the App: its overview, whether its last request failed
    reloading, since,         \* its request, and when it was made
    view, query, page, cache, \* the panel: cache is in the order of insertion
    version, active, timer,   \* requestVersion, activeRequest's version, the 300 ms timer's
    flight                    \* the panel's requests that are not answered yet

appVars == <<data, error, reloading, since>>
inputVars == <<view, query>>
requestVars == <<version, active>>
vars == <<latest, appVars, inputVars, page, cache, requestVars, timer, flight>>

NoList == [key |-> <<>>, obs |-> 0, asked |-> 0, last |-> 0, rows |-> <<>>, stale |-> FALSE]
Page(k, obs, asked, offset) ==
    [key |-> k, obs |-> obs, asked |-> asked, last |-> offset,
     rows |-> <<<<k, obs, offset>>>>, stale |-> FALSE]

Shows(k, list) == [key |-> k, list |-> list, busy |-> FALSE, error |-> FALSE, notice |-> FALSE]
NoPage == Shows(<<>>, NoList)

-----------------------------------------------------------------------------
(* What a render derives from the state. *)

Key == KeyOf(view, query)
Default == IsDefault(view, query)
Matching == page.key = Key
MatchingList == IF Matching THEN page.list ELSE NoList
CachedList(k) ==
    IF \E n \in DOMAIN cache : cache[n].key = k
    THEN cache[CHOOSE n \in DOMAIN cache : cache[n].key = k]
    ELSE NoList

(* current, pending *)
Shown ==
    IF view = "funded" THEN data
    ELSE IF MatchingList # NoList THEN MatchingList
    ELSE IF Default THEN data ELSE CachedList(Key)
Busy == Matching /\ page.busy
Pending ==
    /\ view # "funded"
    /\ IF Default THEN reloading \/ Busy ELSE ~Matching \/ Busy

(* remember() *)
Remembered(list) ==
    IF \E n \in DOMAIN cache : cache[n].key = list.key
    THEN [n \in DOMAIN cache |-> IF cache[n].key = list.key THEN list ELSE cache[n]]
    ELSE Append(IF Len(cache) >= MaxCached THEN Tail(cache) ELSE cache, list)

(* invalidateRequest(), startRequest() *)
Unheld == (1..(MaxFlight + 3)) \ ({m.version : m \in flight} \cup {timer})
Fresh == CHOOSE v \in Unheld : TRUE
Invalidate == Unheld # {} /\ version' = Fresh /\ active' = 0
StartRequest == Unheld # {} /\ version' = Fresh /\ active' = Fresh

(* A list that grows is still the list that was asked for with its first page. *)
Request(kind, v, base, offset) ==
    [kind |-> kind, version |-> v, key |-> Key, base |-> base, offset |-> offset,
     asked |-> IF kind = "page" THEN base.asked ELSE latest]

MayAct == Cardinality(flight) + (IF timer = 0 THEN 0 ELSE 1) < MaxFlight

-----------------------------------------------------------------------------
(* The user *)

(* The effect on [requestKey, view], after the clean-up of the one before. *)
Change(v, q) ==
    /\ <<v, q>> # <<view, query>>
    /\ MayAct
    /\ view' = v /\ query' = q
    /\ LET k == KeyOf(v, q) IN
       IF v = "funded" \/ IsDefault(v, q)
       THEN /\ Invalidate
            /\ page' = Shows(k, data)
            /\ timer' = 0
       ELSE /\ StartRequest
            /\ page' = [Shows(k, CachedList(k)) EXCEPT !.busy = TRUE]
            /\ timer' = Fresh
    /\ UNCHANGED <<latest, appVars, cache, flight>>

(* The timer asks for the first page, with the request it was set for: aborted or not. *)
TimerFires ==
    /\ timer # 0
    /\ flight' = flight \cup {Request("list", timer, NoList, 0)}
    /\ timer' = 0
    /\ UNCHANGED <<latest, appVars, inputVars, page, cache, requestVars>>

(* "Show more markets" *)
More ==
    /\ view = "ranking" /\ ~Pending /\ MayAct
    /\ Shown # NoList /\ Shown.last + 1 < Pages[Shown.key]
    /\ active = 0
    /\ StartRequest
    /\ flight' = flight \cup {Request("page", Fresh, Shown, Shown.last + 1)}
    /\ page' = [Shows(Key, Shown) EXCEPT !.busy = TRUE, !.notice = Matching /\ page.notice]
    /\ UNCHANGED <<latest, appVars, inputVars, cache, timer>>

(* reload() *)
Reload ==
    IF reloading THEN UNCHANGED appVars
    ELSE reloading' = TRUE /\ since' = latest /\ UNCHANGED <<data, error>>

(* "Refresh list", "Retry", "Try again": on a notice, when the request of the list or the *)
(* App's first one failed, or when the observation shown is of an unavailable catalogue,  *)
(* as any may be.                                                                         *)
Offered ==
    \/ Matching /\ (page.notice \/ page.error)
    \/ Shown = NoList /\ Default /\ error
    \/ Shown # NoList /\ ~Pending

RetryRequest ==
    /\ view # "funded" /\ MayAct
    /\ Offered
    /\ \/ /\ Default
          /\ Invalidate
          /\ page' = NoPage
          /\ Reload
          /\ UNCHANGED flight
       \/ /\ ~Default
          /\ StartRequest
          /\ flight' = flight \cup {Request("retry", Fresh, Shown, 0)}
          /\ page' = [Shows(Key, Shown) EXCEPT !.busy = TRUE]
          /\ UNCHANGED appVars
    /\ UNCHANGED <<latest, inputVars, cache, timer>>

-----------------------------------------------------------------------------
(* The answers to the panel's requests *)

(* mergeMarketPages(): NoList when the pages do not belong together. *)
MergedWhatever(base, next) ==
    [next EXCEPT !.rows = base.rows \o next.rows]

Merged(base, next) ==
    IF next.obs = base.obs /\ next.key = base.key /\ next.last = base.last + 1
    THEN [next EXCEPT !.rows = base.rows \o next.rows]
    ELSE NoList

PreviousNotice(k) == page.key = k /\ page.notice

(* An answer to the request of the current version is shown; any other is dropped. *)
CurrentAnyVersion(m) == m.key = Key

Current(m) == m.version = version

Display(m, list) ==
    /\ page' = [Shows(m.key, list) EXCEPT !.notice = m.kind = "page" /\ PreviousNotice(m.key)]
    /\ cache' = Remembered(list)

Answer(m) ==
    /\ flight' = flight \ {m}
    /\ active' = IF active = m.version THEN 0 ELSE active
    /\ \E obs \in 1..latest :
          LET next == Page(m.key, obs, m.asked, m.offset)
              merged == Merged(m.base, next)
          IN  \/ ~Current(m) /\ UNCHANGED <<page, cache>>
              \/ Current(m) /\ m.kind # "page" /\ Display(m, next)
              \/ Current(m) /\ m.kind = "page" /\ merged # NoList /\ Display(m, merged)
              \/ /\ Current(m) /\ m.kind = "page" /\ merged = NoList
                 /\ page' = [Shows(m.key, m.base) EXCEPT !.notice = TRUE]
                 /\ UNCHANGED cache
    /\ UNCHANGED <<latest, appVars, inputVars, version, timer>>

(* Refused, timed out, aborted or unreadable: what was shown is kept. *)
Kept(m) ==
    IF m.kind # "list" THEN m.base
    ELSE IF page.key = m.key THEN page.list ELSE NoList

FailHoldingActive(m) ==
    /\ flight' = flight \ {m}
    /\ page' = IF Current(m)
               THEN [Shows(m.key, Kept(m)) EXCEPT !.error = TRUE,
                        !.notice = m.kind = "page" /\ PreviousNotice(m.key)]
               ELSE page
    /\ UNCHANGED <<latest, appVars, inputVars, cache, version, active, timer>>

Fail(m) ==
    /\ flight' = flight \ {m}
    /\ active' = IF active = m.version THEN 0 ELSE active
    /\ page' = IF Current(m)
               THEN [Shows(m.key, Kept(m)) EXCEPT !.error = TRUE,
                        !.notice = m.kind = "page" /\ PreviousNotice(m.key)]
               ELSE page
    /\ UNCHANGED <<latest, appVars, inputVars, cache, version, timer>>

-----------------------------------------------------------------------------
(* The App's poll, every 45 seconds, and the panel's effect on [data] *)

DiffersInStatus(list) == list.stale # data'.stale

Differs(list) == list.obs # data'.obs \/ list.stale # data'.stale

(* On the default view the overview replaces a list that is not longer. *)
Replaced == Default /\ Len(MatchingList.rows) <= Len(data'.rows)

DataEffect ==
    \/ view = "funded" /\ UNCHANGED <<page, requestVars>>
    \/ view # "funded" /\ Replaced /\ Invalidate /\ page' = Shows(Key, data')
    \/ /\ view # "funded" /\ ~Replaced
       /\ page' = IF MatchingList # NoList /\ Differs(MatchingList)
                  THEN [page EXCEPT !.notice = TRUE]
                  ELSE page
       /\ UNCHANGED requestVars

Poll ==
    /\ ~reloading
    /\ Reload
    /\ UNCHANGED <<latest, inputVars, page, cache, requestVars, timer, flight>>

PollAnswered ==
    /\ reloading /\ reloading' = FALSE
    /\ \E obs \in 1..latest : data' = Page(<<"all", Blank>>, obs, since, 0)
    /\ error' = FALSE /\ since' = 0
    /\ DataEffect
    /\ UNCHANGED <<latest, inputVars, cache, timer, flight>>

(* The overview the App has is kept, marked stale. *)
PollFails ==
    /\ reloading /\ reloading' = FALSE
    /\ error' = TRUE /\ since' = 0
    /\ \/ /\ data # NoList
          /\ data' = [data EXCEPT !.stale = TRUE]
          /\ DataEffect
       \/ data = NoList /\ UNCHANGED <<data, page, requestVars>>
    /\ UNCHANGED <<latest, inputVars, cache, timer, flight>>

(* An instance of the API observes the catalogue again. *)
Observe ==
    /\ latest < MaxObservation
    /\ latest' = latest + 1
    /\ UNCHANGED <<appVars, inputVars, page, cache, requestVars, timer, flight>>

-----------------------------------------------------------------------------
Init ==
    /\ latest = 1
    /\ data = NoList /\ error = FALSE /\ reloading = TRUE /\ since = 1
    /\ view = "ranking" /\ query = Blank
    /\ page = Shows(KeyOf("ranking", Blank), NoList) /\ cache = <<>>
    /\ version = 1 /\ active = 0 /\ timer = 0 /\ flight = {}

PollSettles == PollAnswered \/ PollFails
Settles(m) == Answer(m) \/ Fail(m)

Next ==
    \/ \E s \in Screens : Change(s[1], s[2])
    \/ TimerFires \/ More \/ RetryRequest
    \/ \E m \in flight : Settles(m)
    \/ Poll \/ PollSettles
    \/ Observe

Spec == Init /\ [][Next]_vars

(* The App polls on an interval, and its request ends, by its timeout at the latest. *)
FairSpec == Spec /\ WF_vars(Poll) /\ WF_vars(PollSettles)

-----------------------------------------------------------------------------
(* The variables stay within their types. *)
TypeOK ==
    /\ latest \in 1..MaxObservation
    /\ error \in BOOLEAN /\ reloading \in BOOLEAN /\ since \in 0..latest
    /\ view \in Views /\ query \in Queries
    /\ version \in Nat /\ active \in {0, version} /\ timer \in Nat
    /\ \A m \in flight : m.key \in Keys /\ m.asked \in 1..latest

(* Whatever list is shown or kept for later holds the pages of one list of one           *)
(* observation, from the first one on without a gap or a repetition, and it is the list  *)
(* of the shown view and query (market.tsx:51-53, 62-65, 87-93, 114-132;                 *)
(* view-model.ts:94-105).                                                                *)
IsOneList(list) ==
    list.rows = [n \in 1..(list.last + 1) |-> <<list.key, list.obs, n - 1>>]

ListsAreWhole ==
    /\ Shown # NoList => IsOneList(Shown)
    /\ view # "funded" /\ Shown # NoList => Shown.key = Key
    /\ \A n \in DOMAIN cache : IsOneList(cache[n])

(* The panel says it is busy exactly while a request of its current version will still   *)
(* be answered: it never waits for an answer it would drop, and never refuses to load    *)
(* more because of a request that is over (market.tsx:66-76, 94, 116, 131, 150).         *)
BusyIsAwaited ==
    /\ Busy <=> active # 0
    /\ active # 0 => \/ timer = version
                     \/ \E m \in flight : m.version = version

(* While the user stays with a view and query, the list shown there is never taken away,  *)
(* and never replaced by the answer to a request that was made before its own, in         *)
(* whatever order requests and polls are answered or fail (market.tsx:87-94, 103-107,     *)
(* 118-131, 142-150).  The list that replaces it may be of an older observation: another  *)
(* instance may have answered, and the client does not compare times.                     *)
ListIsRetained ==
    [][UNCHANGED inputVars /\ Shown # NoList =>
          Shown' # NoList /\ Shown'.asked >= Shown.asked]_vars

(* A retained list that is older than the App's observation does not stay so unannounced: *)
(* the user is offered a fresh one, whether the next polls succeed or fail                *)
(* (market.tsx:99-112, src.tsx:23-32).                                                    *)
OlderUnannounced ==
    /\ view # "funded" /\ ~Busy
    /\ Shown # NoList /\ Shown.obs < data.obs
    /\ ~page.notice

OlderIsAnnounced == []<>~OlderUnannounced
=============================================================================
