-------------------------- MODULE MarketPanelProofs --------------------------
(***************************************************************************)
(* Proofs about MarketPanel, for any queries, pages, cache and number of   *)
(* requests in flight.  BusyInv says what the panel waits for and is       *)
(* inductive by itself; ListInv ties every list the panel shows, keeps or  *)
(* has sent along with a request to the shown view and query and to the    *)
(* time its request was made, and is inductive together with it.  Nothing  *)
(* is assumed of the observations the answers are of.                      *)
(***************************************************************************)
EXTENDS MarketPanel, SequenceTheorems, TLAPS

-----------------------------------------------------------------------------
(* What the panel waits for *)

(* The page is of the shown view and query, or of none. *)
PageIsCurrent ==
    /\ page = [key |-> page.key, list |-> page.list, busy |-> page.busy,
               error |-> page.error, notice |-> page.notice]
    /\ page.busy \in BOOLEAN
    /\ page.key = Key \/ page.key = <<>>

(* A version is a positive number, and an answer the panel would show is for the *)
(* view and query that are shown. *)
VersionsArePositive == version \in Nat \ {0} /\ timer \in Nat
CurrentIsForKey == \A m \in flight : m.version = version => m.key = Key
ActiveIsCurrent == active \in {0, version}

BusyInv ==
    /\ PageIsCurrent /\ VersionsArePositive /\ CurrentIsForKey /\ ActiveIsCurrent
    /\ BusyIsAwaited

LEMMA FreshIsUnheld ==
    ASSUME Unheld # {}
    PROVE  /\ Fresh \in Nat \ {0}
           /\ Fresh # timer
           /\ \A m \in flight : m.version # Fresh
<1>1. Fresh \in Unheld
    BY DEF Fresh
<1>2. MaxFlight \in Nat
    BY PanelConstants
<1> QED
    BY <1>1, <1>2 DEF Unheld

LEMMA KeysAreNotEmpty == \A v, q : KeyOf(v, q) # <<>>
BY DEF KeyOf

LEMMA RequestFields ==
    ASSUME NEW kind, NEW v, NEW base, NEW offset,
           NEW m, m = Request(kind, v, base, offset)
    PROVE  /\ m.kind = kind /\ m.version = v /\ m.key = Key /\ m.base = base
           /\ m.offset = offset
           /\ m.asked = IF kind = "page" THEN base.asked ELSE latest
BY DEF Request

LEMMA BusyInit == Init => BusyInv
BY DEF Init, BusyInv, PageIsCurrent, VersionsArePositive, CurrentIsForKey, ActiveIsCurrent,
       BusyIsAwaited, Busy, Matching, Shows, Key, KeyOf, NoList

(* A step by which no request starts or ends and the page keeps its key and its spinner. *)
LEMMA BusyKept ==
    ASSUME BusyInv,
           UNCHANGED <<inputVars, requestVars, timer, flight>>,
           \/ page' = page
           \/ page' = [page EXCEPT !.notice = TRUE]
    PROVE  BusyInv'
<1>1. page'.key = page.key /\ page'.busy = page.busy /\
      page' = [key |-> page'.key, list |-> page'.list, busy |-> page'.busy,
               error |-> page'.error, notice |-> page'.notice]
    BY DEF BusyInv, PageIsCurrent
<1>2. Key' = Key
    BY DEF Key, inputVars
<1> QED
    BY <1>1, <1>2 DEF BusyInv, PageIsCurrent, VersionsArePositive, CurrentIsForKey,
       ActiveIsCurrent, BusyIsAwaited, Busy, Matching, requestVars

(* A step that ends what the panel waits for, and shows an idle page. *)
LEMMA BusyEnded ==
    ASSUME BusyInv, Invalidate, UNCHANGED flight, timer' \in {0, timer},
           NEW list, page' = Shows(Key', list) \/ page' = NoPage
    PROVE  BusyInv'
<1>1. Fresh \in Nat \ {0} /\ \A m \in flight : m.version # Fresh
    BY FreshIsUnheld DEF Invalidate
<1>2. /\ page'.busy = FALSE /\ page'.key \in {Key', <<>>}
      /\ page' = [key |-> page'.key, list |-> page'.list, busy |-> page'.busy,
                  error |-> page'.error, notice |-> page'.notice]
    BY DEF Shows, NoPage
<1>3. version' = Fresh /\ active' = 0
    BY DEF Invalidate
<1>4. PageIsCurrent'
    BY <1>2 DEF PageIsCurrent
<1>5. VersionsArePositive' /\ ActiveIsCurrent'
    BY <1>1, <1>3 DEF BusyInv, VersionsArePositive, ActiveIsCurrent
<1>6. CurrentIsForKey'
    BY <1>1, <1>3 DEF CurrentIsForKey
<1>7. BusyIsAwaited'
    BY <1>2, <1>3 DEF BusyIsAwaited, Busy
<1> QED
    BY <1>4, <1>5, <1>6, <1>7 DEF BusyInv

(* A step that starts a request, at once or by the timer, and shows a busy page. *)
LEMMA BusyStarted ==
    ASSUME BusyInv, StartRequest,
           page'.busy = TRUE, page'.key = Key',
           page' = [key |-> page'.key, list |-> page'.list, busy |-> page'.busy,
                    error |-> page'.error, notice |-> page'.notice],
           \/ timer' = Fresh /\ UNCHANGED flight
           \/ /\ timer' = timer
              /\ \E m : m.version = Fresh /\ m.key = Key' /\ flight' = flight \cup {m}
    PROVE  BusyInv'
<1>1. Fresh \in Nat \ {0} /\ \A m \in flight : m.version # Fresh
    BY FreshIsUnheld DEF StartRequest
<1> QED
    BY <1>1 DEF BusyInv, PageIsCurrent, VersionsArePositive, CurrentIsForKey,
       ActiveIsCurrent, BusyIsAwaited, Busy, Matching, StartRequest

(* A step by which a request ends: the page is idle when it was the current one. *)
LEMMA BusySettled ==
    ASSUME BusyInv, NEW m \in flight, flight' = flight \ {m},
           UNCHANGED <<inputVars, version, timer>>,
           active' = IF active = m.version THEN 0 ELSE active,
           \/ m.version # version /\ page' = page
           \/ /\ m.version = version
              /\ page'.busy = FALSE /\ page'.key = m.key
              /\ page' = [key |-> page'.key, list |-> page'.list, busy |-> page'.busy,
                          error |-> page'.error, notice |-> page'.notice]
    PROVE  BusyInv'
<1>1. Key' = Key
    BY DEF Key, inputVars
<1>2. CASE m.version # version
    BY <1>1, <1>2 DEF BusyInv, PageIsCurrent, VersionsArePositive, CurrentIsForKey,
       ActiveIsCurrent, BusyIsAwaited, Busy, Matching
<1>3. CASE m.version = version
    BY <1>1, <1>3 DEF BusyInv, PageIsCurrent, VersionsArePositive, CurrentIsForKey,
       ActiveIsCurrent, BusyIsAwaited, Busy, Matching
<1> QED
    BY <1>2, <1>3

LEMMA BusyNext == BusyInv /\ [Next]_vars => BusyInv'
<1> SUFFICES ASSUME BusyInv, [Next]_vars
             PROVE  BusyInv'
    OBVIOUS
<1>1. ASSUME NEW v, NEW q, Change(v, q)
      PROVE  BusyInv'
    <2>1. Key' = KeyOf(v, q)
        BY <1>1 DEF Change, Key
    <2>2. CASE v = "funded" \/ IsDefault(v, q)
        BY <1>1, <2>1, <2>2, BusyEnded DEF Change
    <2>3. CASE ~(v = "funded" \/ IsDefault(v, q))
        BY <1>1, <2>1, <2>3, BusyStarted DEF Change, Shows
    <2> QED
        BY <2>2, <2>3
<1>2. CASE TimerFires
    <2>1. Key' = Key /\ page' = page
        BY <1>2 DEF TimerFires, Key, inputVars
    <2>2. PICK m : m.version = timer /\ m.key = Key /\ flight' = flight \cup {m}
        BY <1>2, RequestFields DEF TimerFires
    <2>3. UNCHANGED requestVars /\ timer' = 0
        BY <1>2 DEF TimerFires
    <2>4. PageIsCurrent' /\ VersionsArePositive' /\ ActiveIsCurrent'
        BY <2>1, <2>3 DEF BusyInv, PageIsCurrent, VersionsArePositive, ActiveIsCurrent,
           requestVars
    <2>5. CurrentIsForKey'
        BY <2>1, <2>2, <2>3 DEF BusyInv, CurrentIsForKey, requestVars
    <2>6. BusyIsAwaited'
        BY <2>1, <2>2, <2>3 DEF BusyInv, BusyIsAwaited, Busy, Matching, requestVars
    <2> QED
        BY <2>4, <2>5, <2>6 DEF BusyInv
<1>3. CASE More
    <2>1. Key' = Key
        BY <1>3 DEF More, Key, inputVars
    <2>2. \E m : m.version = Fresh /\ m.key = Key /\ flight' = flight \cup {m}
        BY <1>3, RequestFields DEF More
    <2> QED
        BY <1>3, <2>1, <2>2, BusyStarted DEF More, Shows
<1>4. CASE RetryRequest
    <2>1. Key' = Key
        BY <1>4 DEF RetryRequest, Key, inputVars
    <2>2. CASE Default
        BY <1>4, <2>2, BusyEnded DEF RetryRequest
    <2>3. CASE ~Default
        <3>1. \E m : m.version = Fresh /\ m.key = Key /\ flight' = flight \cup {m}
            BY <1>4, <2>3, RequestFields DEF RetryRequest
        <3> QED
            BY <1>4, <2>1, <2>3, <3>1, BusyStarted DEF RetryRequest, Shows
    <2> QED
        BY <2>2, <2>3
<1>5. ASSUME NEW m \in flight, Answer(m)
      PROVE  BusyInv'
    BY <1>5, BusySettled DEF Answer, Current, Display, Shows
<1>6. ASSUME NEW m \in flight, Fail(m)
      PROVE  BusyInv'
    BY <1>6, BusySettled DEF Fail, Current, Shows
<1>7. ASSUME DataEffect, UNCHANGED <<inputVars, timer, flight>>
      PROVE  BusyInv'
    <2>1. Key' = Key
        BY <1>7 DEF Key, inputVars
    <2>2. CASE view = "funded"
        BY <1>7, <2>2, BusyKept DEF DataEffect
    <2>3. CASE Replaced /\ Invalidate /\ page' = Shows(Key, data')
        BY <1>7, <2>1, <2>3, BusyEnded
    <2>4. CASE ~Replaced /\ page' \in {page, [page EXCEPT !.notice = TRUE]} /\ UNCHANGED requestVars
        BY <1>7, <2>4, BusyKept
    <2> QED
        BY <1>7, <2>2, <2>3, <2>4 DEF DataEffect
<1>8. CASE Poll \/ Observe \/ UNCHANGED vars
    BY <1>8, BusyKept DEF Poll, Observe, vars, requestVars, inputVars
<1>9. CASE PollSettles
    <2>1. CASE PollAnswered
        BY <1>7, <2>1 DEF PollAnswered
    <2>2. CASE PollFails
        BY <1>7, <2>2, BusyKept DEF PollFails
    <2> QED
        BY <1>9, <2>1, <2>2 DEF PollSettles
<1> QED
    BY <1>1, <1>2, <1>3, <1>4, <1>5, <1>6, <1>8, <1>9 DEF Next, Settles

(* BusyIsAwaited: the panel is busy exactly while the timer or a request in flight of     *)
(* the current version will still be answered (market.tsx:66-76, 94, 116, 131, 150).      *)
THEOREM SpinnerIsAwaited == Spec => []BusyIsAwaited
<1>1. BusyInv => BusyIsAwaited
    BY DEF BusyInv
<1> QED
    BY <1>1, BusyInit, BusyNext, PTL DEF Spec
-----------------------------------------------------------------------------
(* Lists: what is shown, kept or asked for. *)

Rows == Keys \X Nat \X Nat
Lists == {l \in [key : Keys, obs : Nat \ {0}, asked : Nat \ {0}, last : Nat, rows : Seq(Rows),
                  stale : BOOLEAN] :
             IsOneList(l)}
ListOrNone == Lists \cup {NoList}

Requests == [kind : {"list", "page", "retry"}, version : Nat, key : Keys,
             base : ListOrNone, offset : Nat, asked : Nat \ {0}]

TypesInv ==
    /\ latest \in Nat \ {0} /\ view \in Views /\ query \in Queries
    /\ data \in ListOrNone /\ reloading \in BOOLEAN /\ since \in Nat
    /\ page.list \in ListOrNone /\ cache \in Seq(Lists)
    /\ flight \subseteq Requests

(* Every list and request was asked for by now, and the App's overview before the one it *)
(* asks for.                                                                             *)
AskedByNow ==
    /\ data.asked <= latest /\ page.list.asked <= latest
    /\ \A n \in DOMAIN cache : cache[n].asked <= latest
    /\ \A m \in flight : m.asked <= latest
    /\ reloading => data.asked <= since /\ since <= latest /\ since # 0

(* The page is one of the shown view and query; on the default view it was not asked for *)
(* after the App's overview.                                                             *)
PageIsOfKey ==
    /\ data # NoList => data.key = <<"all", Blank>>
    /\ view # "funded" /\ page.list # NoList => page.list.key = page.key
    /\ page.key = Key \/ Default
    /\ Default => page.list.asked <= data.asked

(* Versions tell requests apart, and an answer the panel would show belongs to what it *)
(* shows now.                                                                          *)
VersionsAreDistinct ==
    /\ \A m, n \in flight : m.version = n.version => m = n
    /\ timer # 0 => \A m \in flight : m.version # timer

TimerIsOfPage == timer = version => view # "funded" /\ ~Default /\ page.key = Key

Continues(m) ==
    /\ view # "funded" /\ page.key = Key
    /\ Shown.asked <= m.asked
    /\ IF m.kind = "list" THEN TRUE ELSE m.base = Shown
    /\ IF m.kind = "page" THEN m.base # NoList /\ m.asked = m.base.asked
       ELSE ~Default /\ m.offset = 0

RequestsContinue == \A m \in flight : m.version = version => Continues(m)
ListInv ==
    /\ TypesInv /\ AskedByNow /\ PageIsOfKey
    /\ VersionsAreDistinct /\ TimerIsOfPage /\ RequestsContinue

PanelInv == BusyInv /\ ListInv

-----------------------------------------------------------------------------
(* Facts about lists *)

LEMMA KeysAreTyped ==
    ASSUME view \in Views, query \in Queries
    PROVE  Key \in Keys /\ (Default => Key = <<"all", Blank>>)
BY DEF Key, KeyOf, Keys, Default, IsDefault, Views

LEMMA DefaultKeyIsTyped == <<"all", Blank>> \in Keys
BY PanelConstants DEF Keys

LEMMA IntervalsDiffer ==
    ASSUME NEW x \in Nat, NEW y \in Nat \ {0}, 1..x = 1..y
    PROVE  x = y
<1>1. y \in 1..y
    OBVIOUS
<1>2. y \in 1..x
    BY <1>1
<1>3. x \in 1..x
    BY <1>2
<1>4. x \in 1..y
    BY <1>3
<1> QED
    BY <1>2, <1>4

LEMMA ListFacts ==
    /\ \A l \in Lists : /\ l.key \in Keys /\ l.obs \in Nat \ {0} /\ l.last \in Nat
                        /\ l.asked \in Nat \ {0}
                        /\ Len(l.rows) = l.last + 1 /\ l # NoList
    /\ NoList.asked = 0 /\ Len(NoList.rows) = 0
    /\ NoList \notin Lists
<1>1. ASSUME NEW l \in Lists
      PROVE  /\ l.key \in Keys /\ l.obs \in Nat \ {0} /\ l.last \in Nat /\ l # NoList
             /\ l.asked \in Nat \ {0}
    BY DEF Lists, NoList
<1>2. ASSUME NEW l \in Lists
      PROVE  Len(l.rows) = l.last + 1
    <2>1. l.rows \in Seq(Rows) /\ DOMAIN l.rows = 1..(l.last + 1)
        BY DEF Lists, IsOneList
    <2>2. DOMAIN l.rows = 1..Len(l.rows) /\ Len(l.rows) \in Nat
        BY <2>1
    <2>3. l.last \in Nat
        BY <1>1
    <2> DEFINE x == Len(l.rows)
               y == l.last + 1
    <2>4. 1..x = 1..y /\ x \in Nat /\ y \in Nat \ {0}
        BY <2>1, <2>2, <2>3
    <2> HIDE DEF x, y
    <2>5. x = y
        BY <2>4, IntervalsDiffer
    <2> QED
        BY <2>5 DEF x, y
<1>3. NoList.asked = 0 /\ Len(NoList.rows) = 0
    BY DEF NoList
<1> QED
    BY <1>1, <1>2, <1>3

(* The first page of an observation is a list of its own. *)
LEMMA FirstPage ==
    ASSUME NEW k \in Keys, NEW obs \in Nat \ {0}, NEW asked \in Nat \ {0}
    PROVE  /\ Page(k, obs, asked, 0) \in Lists
           /\ Page(k, obs, asked, 0).key = k /\ Page(k, obs, asked, 0).asked = asked
BY DEF Lists, Page, IsOneList, Rows

(* A page that fits extends the list by one. *)
LEMMA MergedList ==
    ASSUME NEW base \in Lists, NEW k \in Keys, NEW obs \in Nat \ {0},
           NEW asked \in Nat \ {0}, NEW offset \in Nat,
           NEW merged, merged = Merged(base, Page(k, obs, asked, offset)), merged # NoList
    PROVE  /\ merged \in Lists
           /\ merged.key = base.key /\ merged.asked = asked /\ k = base.key
<1>1. /\ base.key \in Keys /\ base.obs \in Nat \ {0} /\ base.last \in Nat
      /\ base.rows \in Seq(Rows)
      /\ base.rows = [n \in 1..(base.last + 1) |-> <<base.key, base.obs, n - 1>>]
      /\ Len(base.rows) = base.last + 1
    BY ListFacts DEF Lists, IsOneList
<1>2. /\ obs = base.obs /\ k = base.key /\ offset = base.last + 1
      /\ merged = [key |-> k, obs |-> obs, asked |-> asked, last |-> offset,
                   rows |-> base.rows \o <<<<k, obs, offset>>>>, stale |-> FALSE]
    BY DEF Merged, Page
<1> DEFINE added == <<<<k, obs, offset>>>>
           rows == base.rows \o added
<1>3. added \in Seq(Rows) /\ Len(added) = 1 /\ added[1] = <<k, obs, offset>>
    <2>1. <<k, obs, offset>> \in Rows
        BY DEF Rows
    <2>2. ASSUME NEW r \in Rows
          PROVE  <<r>> \in Seq(Rows) /\ Len(<<r>>) = 1 /\ <<r>>[1] = r
        OBVIOUS
    <2> QED
        BY <2>1, <2>2
<1> HIDE DEF added
<1>4. /\ rows \in Seq(Rows) /\ Len(rows) = offset + 1
      /\ \A n \in 1..(offset + 1) :
            rows[n] = IF n <= Len(base.rows) THEN base.rows[n] ELSE added[n - Len(base.rows)]
    <2>1. Len(base.rows) + Len(added) = offset + 1
        BY <1>1, <1>2, <1>3
    <2>2. base.rows \in Seq(Rows) /\ added \in Seq(Rows)
        BY <1>1, <1>3, Zenon
    <2> DEFINE first == base.rows
    <2>3. /\ first \o added \in Seq(Rows)
          /\ Len(first \o added) = Len(first) + Len(added)
          /\ \A n \in 1..(Len(first) + Len(added)) :
                (first \o added)[n] = IF n <= Len(first) THEN first[n]
                                      ELSE added[n - Len(first)]
        <3> HIDE DEF first
        <3>1. first \in Seq(Rows) /\ added \in Seq(Rows)
            BY <2>2 DEF first
        <3> QED
            BY <3>1, ConcatProperties
    <2> QED
        BY <2>1, <2>3, Zenon
<1>5. ASSUME NEW n \in 1..(offset + 1)
      PROVE  rows[n] = <<k, obs, n - 1>>
    <2>1. CASE n <= Len(base.rows)
        <3>1. rows[n] = base.rows[n]
            BY <1>4, <2>1
        <3>2. n \in 1..(base.last + 1)
            BY <1>1, <2>1
        <3>3. base.rows[n] = <<base.key, base.obs, n - 1>>
            BY <1>1, <3>2
        <3> QED
            BY <1>2, <3>1, <3>3
    <2>2. CASE n = offset + 1
        <3>1. n - Len(base.rows) = 1 /\ ~(n <= Len(base.rows))
            BY <1>1, <1>2, <2>2
        <3>2. rows[n] = added[1]
            BY <1>4, <3>1
        <3>3. n - 1 = offset
            BY <2>2
        <3> QED
            BY <1>3, <3>2, <3>3
    <2>3. Len(base.rows) = offset
        BY <1>1, <1>2
    <2>4. n <= offset \/ n = offset + 1
        OBVIOUS
    <2> QED
        BY <2>1, <2>2, <2>3, <2>4
<1> HIDE DEF rows
<1>6. rows = [n \in 1..(offset + 1) |-> <<k, obs, n - 1>>]
    <2>1. DOMAIN rows = 1..(offset + 1) /\ rows = [n \in DOMAIN rows |-> rows[n]]
        BY <1>4
    <2> QED
        BY <1>5, <2>1
<1>7. merged = [key |-> k, obs |-> obs, asked |-> asked, last |-> offset, rows |-> rows,
                stale |-> FALSE]
    BY <1>2 DEF rows, added
<1>8. IsOneList(merged)
    BY <1>6, <1>7 DEF IsOneList
<1>9. merged \in [key : Keys, obs : Nat \ {0}, asked : Nat \ {0}, last : Nat, rows : Seq(Rows),
                  stale : BOOLEAN]
    BY <1>4, <1>7
<1>10. merged.key = k /\ merged.asked = asked
    BY <1>7
<1> QED
    BY <1>2, <1>8, <1>9, <1>10 DEF Lists

LEMMA StaleList ==
    ASSUME NEW l \in Lists
    PROVE  /\ [l EXCEPT !.stale = TRUE] \in Lists
           /\ [l EXCEPT !.stale = TRUE].key = l.key /\ [l EXCEPT !.stale = TRUE].asked = l.asked
BY DEF Lists, IsOneList

LEMMA CachedIsOfKey ==
    ASSUME cache \in Seq(Lists), NEW k
    PROVE  \/ CachedList(k) = NoList
           \/ /\ CachedList(k) \in Lists /\ CachedList(k).key = k
              /\ \E n \in DOMAIN cache : CachedList(k) = cache[n]
<1>1. CASE \E n \in DOMAIN cache : cache[n].key = k
    <2> DEFINE found == CHOOSE n \in DOMAIN cache : cache[n].key = k
    <2>1. found \in DOMAIN cache /\ cache[found].key = k
        BY <1>1
    <2>2. CachedList(k) = cache[found]
        BY <1>1 DEF CachedList
    <2> HIDE DEF found
    <2> QED
        BY <2>1, <2>2
<1>2. CASE ~\E n \in DOMAIN cache : cache[n].key = k
    BY <1>2 DEF CachedList
<1> QED
    BY <1>1, <1>2

(* remember() keeps lists that were kept, and the one it is given. *)
LEMMA RememberedLists ==
    ASSUME cache \in Seq(Lists), NEW l \in Lists
    PROVE  /\ Remembered(l) \in Seq(Lists)
           /\ \A n \in DOMAIN Remembered(l) :
                 Remembered(l)[n] = l \/ \E i \in DOMAIN cache : Remembered(l)[n] = cache[i]
<1>1. CASE \E n \in DOMAIN cache : cache[n].key = l.key
    BY <1>1 DEF Remembered
<1>2. CASE ~\E n \in DOMAIN cache : cache[n].key = l.key
    <2> DEFINE kept == IF Len(cache) >= MaxCached THEN Tail(cache) ELSE cache
    <2>1. /\ kept \in Seq(Lists)
          /\ \A n \in DOMAIN kept : \E i \in DOMAIN cache : kept[n] = cache[i]
        <3>1. CASE Len(cache) >= MaxCached
            <4>1. cache # <<>>
                BY <3>1, PanelConstants
            <4> QED
                BY <3>1, <4>1
        <3> QED
            BY <3>1
    <2>2. Remembered(l) = Append(kept, l)
        BY <1>2 DEF Remembered
    <2> HIDE DEF kept
    <2> QED
        BY <2>1, <2>2
<1> QED
    BY <1>1, <1>2

(* What is shown is a list of the shown view and query that was asked for by now. *)
LEMMA ShownIsList ==
    ASSUME PanelInv
    PROVE  /\ Shown \in ListOrNone /\ Shown.asked <= latest
           /\ view # "funded" /\ Shown # NoList => Shown.key = Key
           /\ Default => Shown.asked <= data.asked
<1>1. TypesInv /\ AskedByNow /\ PageIsOfKey
    BY DEF PanelInv, ListInv
<1>2. Default => Key = <<"all", Blank>> /\ view # "funded"
    BY <1>1, KeysAreTyped DEF TypesInv, Default, IsDefault
<1>3. CASE view = "funded" \/ (Default /\ MatchingList = NoList)
    <2>1. Shown = data
        BY <1>2, <1>3 DEF Shown
    <2>2. data \in ListOrNone /\ data.asked <= latest /\ data.asked \in Nat
        BY <1>1, ListFacts DEF TypesInv, AskedByNow, ListOrNone
    <2>3. view # "funded" /\ data # NoList => data.key = Key
        BY <1>1, <1>2, <1>3 DEF PageIsOfKey
    <2> QED
        BY <2>1, <2>2, <2>3
<1>4. CASE page.key = Key /\ Shown = page.list
    BY <1>1, <1>2, <1>4 DEF TypesInv, AskedByNow, PageIsOfKey
<1>5. CASE ~Default /\ Shown = CachedList(Key)
    BY <1>1, <1>5, CachedIsOfKey, ListFacts DEF TypesInv, AskedByNow, ListOrNone
<1> QED
    BY <1>3, <1>4, <1>5 DEF Shown, MatchingList, Matching

-----------------------------------------------------------------------------
(* The invariant of the lists: one lemma per kind of step *)

LEMMA ListInit == Init => ListInv
<1> SUFFICES ASSUME Init
             PROVE  ListInv
    OBVIOUS
<1>1. view = "ranking" /\ query = Blank /\ data = NoList /\ page.list = NoList
      /\ page.key = Key /\ cache = <<>> /\ flight = {} /\ latest = 1 /\ since = 1
      /\ reloading = TRUE /\ timer = 0 /\ version = 1
    BY DEF Init, Shows, Key
<1>2. TypesInv
    BY <1>1, PanelConstants, EmptySeq DEF TypesInv, ListOrNone, Views
<1>3. AskedByNow
    BY <1>1, ListFacts DEF AskedByNow
<1>4. PageIsOfKey
    BY <1>1, ListFacts DEF PageIsOfKey
<1>5. VersionsAreDistinct /\ TimerIsOfPage /\ RequestsContinue
    BY <1>1 DEF VersionsAreDistinct, TimerIsOfPage, RequestsContinue
<1> QED
    BY <1>2, <1>3, <1>4, <1>5 DEF ListInv

(* What is shown depends on these variables only. *)
LEMMA ShownIsUnchanged ==
    ASSUME UNCHANGED <<inputVars, data, page, cache>>
    PROVE  Shown' = Shown /\ Key' = Key /\ Default' = Default
BY DEF Shown, Key, Default, MatchingList, Matching, CachedList, inputVars

(* The times of the requests are naturals. *)
LEMMA Askings ==
    ASSUME TypesInv
    PROVE  /\ data.asked \in Nat /\ page.list.asked \in Nat
           /\ \A n \in DOMAIN cache : cache[n].asked \in Nat
           /\ \A m \in flight : m.asked \in Nat /\ m.base.asked \in Nat
BY ListFacts DEF TypesInv, ListOrNone, Requests

(* A poll starts, or an instance of the API observes the catalogue. *)
LEMMA ListQuiet ==
    ASSUME PanelInv, Poll \/ Observe \/ UNCHANGED vars
    PROVE  ListInv'
<1>1. /\ UNCHANGED <<inputVars, data, page, cache, version, timer, flight>>
      /\ latest' \in Nat \ {0} /\ latest <= latest'
      /\ since' \in Nat /\ reloading' \in BOOLEAN
      /\ latest' = latest \/ UNCHANGED <<reloading, since>>
      /\ reloading' => \/ since' = latest
                       \/ since' = since /\ reloading
    <2>1. latest \in Nat \ {0} /\ since \in Nat /\ reloading \in BOOLEAN
        BY DEF PanelInv, ListInv, TypesInv
    <2>2. CASE Poll
        BY <2>1, <2>2 DEF Poll, Reload, requestVars
    <2>3. CASE Observe
        BY <2>1, <2>3 DEF Observe, appVars, requestVars
    <2>4. CASE UNCHANGED vars
        BY <2>1, <2>4 DEF vars, appVars, requestVars
    <2> QED
        BY <2>2, <2>3, <2>4
<1>2. Shown' = Shown /\ Key' = Key /\ Default' = Default
    BY <1>1, ShownIsUnchanged
<1>3. TypesInv'
    BY <1>1 DEF PanelInv, ListInv, TypesInv, inputVars
<1>4. AskedByNow'
    <2>1. /\ data.asked \in Nat /\ page.list.asked \in Nat
          /\ \A n \in DOMAIN cache : cache[n].asked \in Nat
          /\ \A m \in flight : m.asked \in Nat
        BY Askings DEF PanelInv, ListInv
    <2>2. latest \in Nat \ {0} /\ since \in Nat /\ AskedByNow
        BY DEF PanelInv, ListInv, TypesInv
    <2>3. data'.asked <= latest' /\ page'.list.asked <= latest'
        BY <1>1, <2>1, <2>2 DEF AskedByNow
    <2>4. \A n \in DOMAIN cache' : cache'[n].asked <= latest'
        BY <1>1, <2>1, <2>2 DEF AskedByNow
    <2>5. ASSUME NEW m \in flight
          PROVE  m.asked <= latest'
        <3>1. m.asked \in Nat /\ m.asked <= latest
            BY <2>1, <2>2 DEF AskedByNow
        <3>2. latest \in Nat /\ latest' \in Nat /\ latest <= latest'
            BY <1>1, <2>2
        <3> QED
            BY <3>1, <3>2
    <2>6. reloading' => data'.asked <= since' /\ since' <= latest' /\ since' # 0
        BY <1>1, <2>1, <2>2 DEF AskedByNow
    <2> QED
        BY <1>1, <2>3, <2>4, <2>5, <2>6 DEF AskedByNow
<1>5. PageIsOfKey' /\ VersionsAreDistinct' /\ TimerIsOfPage' /\ RequestsContinue'
    BY <1>1, <1>2 DEF PanelInv, ListInv, PageIsOfKey, VersionsAreDistinct, TimerIsOfPage,
       RequestsContinue, Continues, inputVars
<1> QED
    BY <1>3, <1>4, <1>5 DEF ListInv

LEMMA ListChange ==
    ASSUME PanelInv, NEW v \in Views, NEW q \in Queries, Change(v, q)
    PROVE  ListInv'
<1> DEFINE k == KeyOf(v, q)
<1>1. /\ view' = v /\ query' = q
      /\ UNCHANGED <<latest, data, reloading, since, cache, flight>>
      /\ version' = Fresh /\ Unheld # {}
      /\ page'.key = k /\ Key' = k /\ (Default' <=> IsDefault(v, q))
    BY DEF Change, Invalidate, StartRequest, Shows, appVars, Key, Default
<1>2. /\ Fresh \in Nat \ {0}
      /\ \A m \in flight : m.version # Fresh
    BY <1>1, FreshIsUnheld
<1>3. \/ (v = "funded" \/ IsDefault(v, q)) /\ page'.list = data /\ timer' = 0
      \/ /\ ~(v = "funded" \/ IsDefault(v, q)) /\ timer' = Fresh
         /\ page'.list = CachedList(k)
    BY DEF Change, Shows
<1>4. TypesInv /\ AskedByNow /\ PageIsOfKey /\ VersionsAreDistinct
    BY DEF PanelInv, ListInv
<1> HIDE DEF k
<1>5. \/ CachedList(k) = NoList
      \/ /\ CachedList(k) \in Lists /\ CachedList(k).key = k
         /\ CachedList(k).asked <= latest
    BY <1>4, CachedIsOfKey DEF TypesInv, AskedByNow
<1>6. page'.list \in ListOrNone /\ page'.list.asked <= latest
    BY <1>3, <1>4, <1>5, ListFacts DEF TypesInv, AskedByNow, ListOrNone
<1>7. TypesInv' /\ AskedByNow'
    BY <1>1, <1>4, <1>6 DEF TypesInv, AskedByNow
<1>8. PageIsOfKey'
    <2>1. Default' => k = <<"all", Blank>> /\ v # "funded"
        BY <1>1 DEF k, KeyOf, IsDefault
    <2> QED
        BY <1>1, <1>3, <1>4, <1>5, <2>1, Askings DEF PageIsOfKey
<1>9. VersionsAreDistinct' /\ RequestsContinue'
    BY <1>1, <1>2, <1>3, <1>4 DEF VersionsAreDistinct, RequestsContinue
<1>10. TimerIsOfPage'
    BY <1>1, <1>2, <1>3 DEF TimerIsOfPage
<1> QED
    BY <1>7, <1>8, <1>9, <1>10 DEF ListInv

(* The request the timer makes is for what is shown, and nothing shown is newer. *)
LEMMA ListTimer ==
    ASSUME PanelInv, TimerFires
    PROVE  ListInv'
<1> DEFINE m == Request("list", timer, NoList, 0)
<1>1. /\ timer # 0 /\ timer' = 0 /\ flight' = flight \cup {m}
      /\ UNCHANGED <<latest, data, reloading, since, inputVars, page, cache, version>>
    BY DEF TimerFires, appVars, requestVars
<1>2. TypesInv /\ AskedByNow /\ PageIsOfKey /\ VersionsAreDistinct /\ TimerIsOfPage
      /\ RequestsContinue /\ timer \in Nat /\ version \in Nat \ {0}
    BY DEF PanelInv, ListInv, BusyInv, VersionsArePositive
<1>3. Shown' = Shown /\ Key' = Key /\ Default' = Default
    BY <1>1, ShownIsUnchanged
<1>4. /\ m.kind = "list" /\ m.version = timer /\ m.base = NoList /\ m.offset = 0
      /\ m.asked = latest
    BY DEF Request
<1>5. m \in Requests
    BY <1>2, KeysAreTyped DEF Request, Requests, TypesInv, ListOrNone
<1> HIDE DEF m
<1>6. TypesInv'
    BY <1>1, <1>2, <1>5 DEF TypesInv, inputVars
<1>7. AskedByNow'
    BY <1>1, <1>2, <1>4 DEF AskedByNow, TypesInv
<1>8. PageIsOfKey' /\ VersionsAreDistinct' /\ TimerIsOfPage'
    BY <1>1, <1>2, <1>3, <1>4 DEF PageIsOfKey, VersionsAreDistinct, TimerIsOfPage, inputVars
<1>9. RequestsContinue'
    BY <1>1, <1>2, <1>3, <1>4, ShownIsList DEF RequestsContinue, Continues, TimerIsOfPage,
       inputVars
<1> QED
    BY <1>6, <1>7, <1>8, <1>9 DEF ListInv

(* A request the user makes carries what is shown, which stays while it is current. *)
LEMMA ListAsked ==
    ASSUME PanelInv, StartRequest, view # "funded",
           NEW kind \in {"page", "retry"}, NEW offset \in Nat,
           IF kind = "page" THEN Shown # NoList ELSE ~Default /\ offset = 0,
           Matching \/ Default,
           flight' = flight \cup {Request(kind, Fresh, Shown, offset)},
           page'.key = Key, page'.list = Shown,
           UNCHANGED <<latest, data, reloading, since, inputVars, cache, timer>>
    PROVE  ListInv' /\ Shown' = Shown
<1>1. PICK m : m = Request(kind, Fresh, Shown, offset)
    OBVIOUS
<1>2. /\ flight' = flight \cup {m} /\ version' = Fresh
       /\ m.kind = kind /\ m.version = Fresh /\ m.key = Key /\ m.base = Shown
       /\ m.offset = offset /\ m.asked = IF kind = "page" THEN Shown.asked ELSE latest
    BY <1>1, RequestFields DEF StartRequest
<1>3. /\ Fresh \in Nat \ {0} /\ Fresh # timer
      /\ \A n \in flight : n.version # Fresh
    BY FreshIsUnheld DEF StartRequest
<1>4. TypesInv /\ AskedByNow /\ PageIsOfKey /\ VersionsAreDistinct
    BY DEF PanelInv, ListInv
<1>5. Key' = Key /\ Default' = Default
    BY DEF Key, Default, inputVars
<1>6. Shown' = Shown
    <2>1. CASE Shown # NoList
        BY <1>5, <2>1 DEF Shown, MatchingList, Matching, inputVars
    <2>2. CASE Shown = NoList
        <3>1. ~Default /\ Matching
            BY <2>2
        <3>2. CachedList(Key) = NoList
            BY <2>2, <3>1 DEF Shown
        <3> QED
            BY <1>5, <2>2, <3>1, <3>2 DEF Shown, MatchingList, Matching, CachedList, inputVars
    <2> QED
        BY <2>1, <2>2
<1>7. Shown.asked <= m.asked /\ m.asked <= latest /\ m.asked \in Nat \ {0}
    <2>1. Shown \in ListOrNone /\ Shown.asked <= latest /\ latest \in Nat \ {0}
        BY <1>4, ShownIsList DEF TypesInv
    <2>2. CASE kind = "page"
        <3>1. m.asked = Shown.asked /\ Shown \in Lists
            BY <1>2, <2>1, <2>2 DEF ListOrNone
        <3> QED
            BY <2>1, <3>1, ListFacts
    <2>3. CASE kind # "page"
        BY <1>2, <2>1, <2>3, ListFacts DEF ListOrNone
    <2> QED
        BY <2>2, <2>3
<1>8. TypesInv'
    <2>1. m \in Requests
        <3>1. m = [kind |-> kind, version |-> Fresh, key |-> Key, base |-> Shown,
                   offset |-> offset, asked |-> m.asked]
            BY <1>1 DEF Request
        <3>2. Key \in Keys /\ Shown \in ListOrNone
            BY <1>4, KeysAreTyped, ShownIsList DEF TypesInv
        <3> QED
            BY <1>3, <1>7, <3>1, <3>2 DEF Requests
    <2> QED
        BY <1>2, <1>4, <2>1, ShownIsList DEF TypesInv, inputVars
<1>9. AskedByNow'
    BY <1>2, <1>4, <1>7, ShownIsList DEF AskedByNow, TypesInv
<1>10. PageIsOfKey'
    BY <1>4, <1>5, ShownIsList DEF PageIsOfKey, inputVars
<1>11. VersionsAreDistinct' /\ TimerIsOfPage'
    BY <1>2, <1>3, <1>4 DEF VersionsAreDistinct, TimerIsOfPage
<1>12. RequestsContinue'
    <2>1. \A n \in flight' : n.version = version' => n = m
        BY <1>2, <1>3
    <2>2. Continues(m)'
        BY <1>2, <1>5, <1>6, <1>7, ShownIsList DEF Continues, inputVars
    <2> QED
        BY <2>1, <2>2 DEF RequestsContinue
<1> QED
    BY <1>6, <1>8, <1>9, <1>10, <1>11, <1>12 DEF ListInv

(* The answers. *)

LEMMA ListAnsweredLate ==
    ASSUME PanelInv, NEW m \in flight, flight' = flight \ {m}, UNCHANGED <<page, cache>>,
           UNCHANGED <<latest, appVars, inputVars, version, timer>>
    PROVE  ListInv'
<1>1. Shown' = Shown /\ Key' = Key /\ Default' = Default
    BY ShownIsUnchanged DEF appVars
<1> QED
    BY <1>1 DEF PanelInv, ListInv, TypesInv, AskedByNow, PageIsOfKey, VersionsAreDistinct,
       TimerIsOfPage, RequestsContinue, Continues, appVars, inputVars

(* The current request ends with a page of its key, and the cache keeps lists. *)
LEMMA ListSettled ==
    ASSUME PanelInv, NEW m \in flight, flight' = flight \ {m}, Current(m),
           UNCHANGED <<latest, appVars, inputVars, version, timer>>,
           page'.key = m.key, page'.list \in ListOrNone, page'.list.asked <= latest,
           page'.list # NoList => page'.list.key = m.key,
           Default => page'.list.asked <= data.asked,
           cache' \in Seq(Lists), \A n \in DOMAIN cache' : cache'[n].asked <= latest
    PROVE  ListInv'
<1>1. TypesInv /\ AskedByNow /\ PageIsOfKey /\ VersionsAreDistinct
      /\ TimerIsOfPage /\ m.version = version /\ version # 0
    BY DEF PanelInv, ListInv, BusyInv, VersionsArePositive, Current
<1>2. /\ Key' = Key /\ Default' = Default
      /\ UNCHANGED <<data, reloading, since, view, query>>
    BY DEF Key, Default, inputVars, appVars
<1>3. m.key = Key
    BY <1>1 DEF PanelInv, BusyInv, CurrentIsForKey
<1>4. \A n \in flight' : n.version # version
    BY <1>1 DEF VersionsAreDistinct
<1>5. TypesInv' /\ AskedByNow' /\ PageIsOfKey'
    BY <1>1, <1>2, <1>3 DEF TypesInv, AskedByNow, PageIsOfKey
<1>6. VersionsAreDistinct' /\ TimerIsOfPage' /\ RequestsContinue'
    BY <1>1, <1>2, <1>3, <1>4 DEF VersionsAreDistinct, TimerIsOfPage, RequestsContinue
<1> QED
    BY <1>5, <1>6 DEF ListInv

(* What is shown by this step was asked for no earlier than what was shown before it. *)
Retains == Shown # NoList => Shown' # NoList /\ Shown'.asked >= Shown.asked

LEMMA ShownIsPage ==
    ASSUME view # "funded", UNCHANGED inputVars, page'.key = Key, page'.list # NoList
    PROVE  Shown' = page'.list
BY DEF Shown, MatchingList, Matching, Key, inputVars

LEMMA ListAnswer ==
    ASSUME PanelInv, NEW m \in flight, Answer(m)
    PROVE  ListInv' /\ Retains
<1>1. /\ flight' = flight \ {m}
      /\ UNCHANGED <<latest, appVars, inputVars, version, timer>>
    BY DEF Answer
<1>2. PICK obs \in 1..latest :
         LET next == Page(m.key, obs, m.asked, m.offset)
             merged == Merged(m.base, next)
         IN  \/ ~Current(m) /\ UNCHANGED <<page, cache>>
             \/ Current(m) /\ m.kind # "page" /\ Display(m, next)
             \/ Current(m) /\ m.kind = "page" /\ merged # NoList /\ Display(m, merged)
             \/ /\ Current(m) /\ m.kind = "page" /\ merged = NoList
                /\ page' = [Shows(m.key, m.base) EXCEPT !.notice = TRUE]
                /\ UNCHANGED cache
    BY DEF Answer
<1> DEFINE next == Page(m.key, obs, m.asked, m.offset)
           merged == Merged(m.base, next)
<1>3. TypesInv /\ AskedByNow
    BY DEF PanelInv, ListInv
<1>4. m \in Requests /\ latest \in Nat /\ cache \in Seq(Lists)
    BY <1>3 DEF TypesInv
<1>5. m.key \in Keys /\ m.base \in ListOrNone /\ m.offset \in Nat /\ m.asked \in Nat \ {0}
    BY <1>4 DEF Requests
<1>6. obs \in Nat \ {0} /\ m.asked <= latest
    BY <1>3, <1>4, <1>5 DEF AskedByNow
<1>7. CASE ~Current(m)
    <2>1. UNCHANGED <<page, cache>>
        BY <1>2, <1>7
    <2>2. Shown' = Shown
        BY <1>1, <2>1, ShownIsUnchanged DEF appVars
    <2>3. Shown.asked \in Nat
        BY ShownIsList, ListFacts DEF ListOrNone
    <2> QED
        BY <1>1, <2>1, <2>2, <2>3, ListAnsweredLate DEF Retains
<1>8. CASE Current(m)
    <2>1. Continues(m) /\ m.key = Key
        BY <1>8 DEF PanelInv, ListInv, RequestsContinue, BusyInv, CurrentIsForKey, Current
    <2>2. /\ Shown \in ListOrNone /\ Shown.asked <= latest /\ Shown.asked \in Nat
          /\ Shown # NoList => Shown.key = Key
          /\ Default => Shown.asked <= data.asked
        BY <2>1, ShownIsList, ListFacts DEF ListOrNone, Continues
    <2>3. ASSUME NEW list \in Lists, list.key = m.key, list.asked <= latest,
                 Shown.asked <= list.asked, Default => list.asked <= data.asked, Display(m, list)
          PROVE  ListInv' /\ Retains
        <3>1. page'.key = m.key /\ page'.list = list /\ cache' = Remembered(list)
            BY <2>3 DEF Display, Shows
        <3>2. /\ cache' \in Seq(Lists)
              /\ \A n \in DOMAIN cache' : cache'[n].asked <= latest
            BY <1>3, <1>4, <2>3, <3>1, RememberedLists DEF AskedByNow
        <3>3. list # NoList /\ list \in ListOrNone
            BY <2>3, ListFacts DEF ListOrNone
        <3>4. ListInv'
            BY <1>1, <1>8, <2>3, <3>1, <3>2, <3>3, ListSettled
        <3>5. Shown' = list
            BY <1>1, <2>1, <3>1, <3>3, ShownIsPage DEF Continues
        <3> QED
            BY <2>2, <2>3, <3>3, <3>4, <3>5, ListFacts DEF Retains
    <2>4. CASE m.kind # "page"
        <3>1. m.offset = 0 /\ ~Default /\ Shown.asked <= m.asked
            BY <1>5, <1>6, <2>1, <2>2, <2>4 DEF Continues
        <3>2. next \in Lists /\ next.key = m.key /\ next.asked = m.asked
            BY <1>5, <1>6, <3>1, FirstPage
        <3>3. Display(m, next)
            BY <1>2, <1>8, <2>4
        <3> HIDE DEF next
        <3> QED
            BY <1>6, <2>3, <3>1, <3>2, <3>3
    <2>5. CASE m.kind = "page"
        <3>1. m.base = Shown /\ m.base \in Lists /\ m.asked = Shown.asked
            BY <1>5, <2>1, <2>5 DEF Continues, ListOrNone
        <3>2. CASE merged # NoList
            <4>1. merged \in Lists /\ merged.key = m.base.key /\ merged.asked = m.asked
                  /\ m.key = m.base.key
                BY <1>5, <1>6, <3>1, <3>2, MergedList
            <4>2. Display(m, merged)
                BY <1>2, <1>8, <2>5, <3>2
            <4> HIDE DEF merged
            <4> QED
                BY <2>2, <2>3, <3>1, <4>1, <4>2
        <3>3. CASE merged = NoList
            <4>1. page'.key = m.key /\ page'.list = m.base /\ cache' = cache
                BY <1>2, <1>8, <2>5, <3>3 DEF Shows
            <4>2. Shown' = Shown
                BY <1>1, <2>1, <3>1, <4>1, ShownIsPage, ListFacts DEF Continues
            <4>3. ListInv'
                BY <1>1, <1>3, <1>4, <1>5, <1>8, <2>1, <2>2, <3>1, <4>1, ListSettled, ListFacts
                   DEF AskedByNow
            <4> QED
                BY <2>2, <4>2, <4>3 DEF Retains
        <3> QED
            BY <3>2, <3>3
    <2> QED
        BY <2>4, <2>5
<1> QED
    BY <1>7, <1>8

LEMMA ListFail ==
    ASSUME PanelInv, NEW m \in flight, Fail(m)
    PROVE  ListInv' /\ Retains
<1>1. /\ flight' = flight \ {m}
      /\ UNCHANGED <<latest, appVars, inputVars, version, timer, cache>>
    BY DEF Fail
<1>2. Shown.asked \in Nat
    BY ShownIsList, ListFacts DEF ListOrNone
<1>3. CASE ~Current(m)
    <2>1. UNCHANGED page
        BY <1>3 DEF Fail
    <2>2. Shown' = Shown
        BY <1>1, <2>1, ShownIsUnchanged DEF appVars
    <2> QED
        BY <1>1, <1>2, <2>1, <2>2, ListAnsweredLate DEF Retains
<1>4. CASE Current(m)
    <2>1. Continues(m) /\ m.key = Key /\ TypesInv /\ AskedByNow /\ PageIsOfKey
        BY <1>4 DEF PanelInv, ListInv, RequestsContinue, BusyInv, CurrentIsForKey, Current
    <2>2. page'.key = m.key /\ page'.list = IF m.kind # "list" THEN Shown ELSE page.list
        BY <1>4, <2>1 DEF Fail, Shows, Kept, Continues
    <2>3. page'.list = Shown \/ page'.list = page.list
        BY <2>2
    <2>4. /\ page'.list \in ListOrNone /\ page'.list.asked <= latest
          /\ page'.list # NoList => page'.list.key = m.key
          /\ Default => page'.list.asked <= data.asked
        BY <2>1, <2>3, ShownIsList DEF TypesInv, AskedByNow, PageIsOfKey, Continues
    <2>5. cache' \in Seq(Lists) /\ \A n \in DOMAIN cache' : cache'[n].asked <= latest
        BY <1>1, <2>1 DEF TypesInv, AskedByNow
    <2>6. ListInv'
        BY <1>1, <1>4, <2>2, <2>4, <2>5, ListSettled
    <2>7. Shown # NoList => Shown' = Shown
        <3>1. CASE page'.list # NoList
            <4>1. Shown' = page'.list
                BY <1>1, <2>1, <2>2, <3>1, ShownIsPage DEF Continues
            <4>2. page.list # NoList => Shown = page.list
                BY <2>1 DEF Continues, Shown, MatchingList, Matching
            <4> QED
                BY <2>2, <3>1, <4>1, <4>2
        <3>2. CASE page'.list = NoList /\ m.kind = "list"
            <4>1. Shown = CachedList(Key) /\ ~Default
                BY <2>1, <2>2, <3>2 DEF Continues, Shown, MatchingList, Matching
            <4>2. Shown' = CachedList(Key)
                BY <1>1, <2>1, <3>2, <4>1 DEF Continues, Shown, MatchingList, Matching, Key,
                   Default, CachedList, inputVars
            <4> QED
                BY <4>1, <4>2
        <3> QED
            BY <2>2, <3>1, <3>2
    <2> QED
        BY <1>2, <2>6, <2>7 DEF Retains
<1> QED
    BY <1>3, <1>4

LEMMA ListData ==
    ASSUME PanelInv, DataEffect, reloading' = FALSE, since' = 0,
           UNCHANGED <<latest, inputVars, cache, timer, flight>>,
           data' \in Lists, data'.key = <<"all", Blank>>,
           data.asked <= data'.asked, data'.asked <= latest
    PROVE  ListInv' /\ Retains
<1>1. TypesInv /\ AskedByNow /\ PageIsOfKey /\ VersionsAreDistinct /\ TimerIsOfPage
      /\ RequestsContinue
    BY DEF PanelInv, ListInv
<1>2. Key' = Key /\ Default' = Default /\ view' = view
    BY DEF Key, Default, inputVars
<1>3. /\ Shown \in ListOrNone /\ Shown.asked \in Nat
      /\ view # "funded" /\ Shown # NoList => Shown.key = Key
      /\ Default => Shown.asked <= data.asked
    BY ShownIsList, ListFacts DEF ListOrNone
<1>4. data'.asked \in Nat /\ data' # NoList /\ data.asked \in Nat /\ page.list.asked \in Nat
      /\ Len(data'.rows) \in Nat
    BY <1>1, ListFacts, Askings
<1>5. ASSUME page'.list \in ListOrNone, page'.list.asked <= latest
      PROVE  TypesInv' /\ AskedByNow'
    BY <1>1, <1>5 DEF TypesInv, AskedByNow, ListOrNone, inputVars
<1>6. CASE view = "funded"
    <2>1. UNCHANGED <<page, requestVars>>
        BY <1>6 DEF DataEffect
    <2>2. Shown = data /\ Shown' = data'
        BY <1>2, <1>6 DEF Shown
    <2>3. TypesInv' /\ AskedByNow'
        BY <1>1, <1>5, <2>1 DEF TypesInv, AskedByNow
    <2>4. PageIsOfKey'
        BY <1>1, <1>2, <1>6, <2>1 DEF PageIsOfKey, Default, IsDefault
    <2>5. VersionsAreDistinct' /\ TimerIsOfPage' /\ RequestsContinue'
        BY <1>1, <1>6, <2>1 DEF VersionsAreDistinct, TimerIsOfPage, RequestsContinue, Continues,
           requestVars
    <2> QED
        BY <1>4, <2>2, <2>3, <2>4, <2>5 DEF ListInv, Retains
<1>7. CASE view # "funded" /\ Replaced
    <2>1. /\ Default /\ version' = Fresh /\ Unheld # {}
          /\ page'.key = Key /\ page'.list = data'
        BY <1>7 DEF DataEffect, Replaced, Invalidate, Shows
    <2>2. /\ Fresh # timer
          /\ \A n \in flight : n.version # Fresh
        BY <2>1, FreshIsUnheld
    <2>3. Shown' = data'
        BY <1>4, <1>7, <2>1, ShownIsPage
    <2>4. TypesInv' /\ AskedByNow'
        BY <1>5, <2>1 DEF ListOrNone
    <2>5. PageIsOfKey'
        BY <1>1, <1>2, <1>4, <2>1, KeysAreTyped DEF PageIsOfKey, TypesInv
    <2>6. VersionsAreDistinct' /\ TimerIsOfPage' /\ RequestsContinue'
        BY <1>1, <2>1, <2>2 DEF VersionsAreDistinct, TimerIsOfPage, RequestsContinue
    <2> QED
        BY <1>3, <1>4, <2>1, <2>3, <2>4, <2>5, <2>6 DEF ListInv, Retains
<1>8. CASE view # "funded" /\ ~Replaced
    <2>1. UNCHANGED requestVars /\ (page' = page \/ page' = [page EXCEPT !.notice = TRUE])
        BY <1>8 DEF DataEffect
    <2>2. page'.key = page.key /\ page'.list = page.list
        BY <2>1 DEF PanelInv, BusyInv, PageIsCurrent
    <2>3. Default => MatchingList # NoList
        BY <1>4, <1>8, ListFacts DEF Replaced
    <2>4. Shown' = Shown
        BY <1>2, <1>8, <2>2, <2>3 DEF Shown, MatchingList, Matching, CachedList
    <2>5. TypesInv' /\ AskedByNow'
        BY <1>1, <1>5, <2>2 DEF TypesInv, AskedByNow
    <2>6. PageIsOfKey'
        BY <1>1, <1>2, <1>4, <2>2 DEF PageIsOfKey
    <2>7. VersionsAreDistinct' /\ TimerIsOfPage' /\ RequestsContinue'
        BY <1>1, <1>2, <2>1, <2>2, <2>4 DEF VersionsAreDistinct, TimerIsOfPage,
           RequestsContinue, Continues, requestVars
    <2> QED
        BY <1>3, <2>4, <2>5, <2>6, <2>7 DEF ListInv, Retains
<1> QED
    BY <1>6, <1>7, <1>8

LEMMA ListPolled ==
    ASSUME PanelInv, PollSettles
    PROVE  ListInv' /\ Retains
<1>1. TypesInv /\ AskedByNow /\ PageIsOfKey
    BY DEF PanelInv, ListInv
<1>2. CASE PollAnswered
    <2>1. PICK obs \in 1..latest : data' = Page(<<"all", Blank>>, obs, since, 0)
        BY <1>2 DEF PollAnswered
    <2>2. reloading /\ data.asked <= since /\ since # 0 /\ data.asked \in Nat
        BY <1>1, <1>2, Askings DEF PollAnswered, AskedByNow
    <2>3. obs \in Nat \ {0} /\ since \in Nat \ {0} /\ since <= latest
        BY <1>1, <2>2 DEF TypesInv, AskedByNow
    <2>4. data' \in Lists /\ data'.key = <<"all", Blank>> /\ data'.asked = since
        BY <2>1, <2>3, FirstPage, DefaultKeyIsTyped
    <2> QED
        BY <1>2, <2>2, <2>3, <2>4, ListData DEF PollAnswered
<1>3. CASE PollFails /\ data # NoList
    <2>1. data \in Lists /\ data' = [data EXCEPT !.stale = TRUE]
        BY <1>1, <1>3 DEF PollFails, TypesInv, ListOrNone
    <2>2. data' \in Lists /\ data'.key = data.key /\ data'.asked = data.asked
        BY <2>1, StaleList
    <2>3. data'.key = <<"all", Blank>> /\ data.asked <= data'.asked /\ data'.asked <= latest
        BY <1>1, <1>3, <2>2, Askings DEF PageIsOfKey, AskedByNow
    <2> QED
        BY <1>3, <2>2, <2>3, ListData DEF PollFails
<1>4. CASE PollFails /\ data = NoList
    <2>1. /\ UNCHANGED <<latest, data, inputVars, page, cache, version, timer, flight>>
          /\ reloading' = FALSE /\ since' = 0
        BY <1>4 DEF PollFails, requestVars
    <2>2. Shown' = Shown /\ Key' = Key /\ Default' = Default
        BY <2>1, ShownIsUnchanged
    <2>3. Shown.asked \in Nat
        BY ShownIsList, ListFacts DEF ListOrNone
    <2>4. ListInv'
        BY <2>1, <2>2 DEF PanelInv, ListInv, TypesInv, AskedByNow, PageIsOfKey,
           VersionsAreDistinct, TimerIsOfPage, RequestsContinue, Continues, inputVars
    <2> QED
        BY <2>2, <2>3, <2>4 DEF Retains
<1> QED
    BY <1>2, <1>3, <1>4 DEF PollSettles

LEMMA ListMore ==
    ASSUME PanelInv, More
    PROVE  ListInv' /\ Retains
<1>1. /\ StartRequest /\ view # "funded" /\ Shown # NoList
      /\ Matching \/ Default
      /\ flight' = flight \cup {Request("page", Fresh, Shown, Shown.last + 1)}
      /\ page'.key = Key /\ page'.list = Shown
      /\ UNCHANGED <<latest, data, reloading, since, inputVars, cache, timer>>
    BY DEF More, Pending, Shows, appVars
<1>2. Shown \in Lists /\ Shown.asked \in Nat /\ Shown.last + 1 \in Nat
    BY <1>1, ShownIsList, ListFacts DEF ListOrNone
<1>3. ListInv' /\ Shown' = Shown
    BY <1>1, <1>2, ListAsked
<1> QED
    BY <1>2, <1>3 DEF Retains

LEMMA ListRetry ==
    ASSUME PanelInv, RetryRequest
    PROVE  ListInv' /\ Retains
<1>1. Shown.asked \in Nat
    BY ShownIsList, ListFacts DEF ListOrNone
<1>2. CASE ~Default
    <2>1. Matching
        BY <1>2 DEF RetryRequest, Offered, Pending
    <2>2. /\ StartRequest /\ view # "funded"
          /\ flight' = flight \cup {Request("retry", Fresh, Shown, 0)}
          /\ page'.key = Key /\ page'.list = Shown
          /\ UNCHANGED <<latest, data, reloading, since, inputVars, cache, timer>>
        BY <1>2 DEF RetryRequest, Shows, appVars
    <2>3. ListInv' /\ Shown' = Shown
        BY <1>2, <2>1, <2>2, ListAsked
    <2> QED
        BY <1>1, <2>3 DEF Retains
<1>3. CASE Default
    <2>1. /\ version' = Fresh /\ Unheld # {} /\ page'.key = <<>> /\ page'.list = NoList
          /\ UNCHANGED <<latest, data, inputVars, cache, timer, flight>>
          /\ view # "funded" /\ Reload
        BY <1>3 DEF RetryRequest, Invalidate, NoPage, Shows, Reload, appVars
    <2>2. \/ UNCHANGED <<reloading, since>>
          \/ reloading' = TRUE /\ since' = latest
        BY <2>1 DEF Reload, appVars
    <2>3. /\ Fresh # timer
          /\ \A n \in flight : n.version # Fresh
        BY <2>1, FreshIsUnheld
    <2>4. Key' = Key /\ Default' = Default /\ Key # <<>>
        BY <2>1, KeysAreNotEmpty DEF Key, Default, inputVars
    <2>5. Shown' = data
        BY <1>3, <2>1, <2>4 DEF Shown, MatchingList, Matching, inputVars
    <2>6. TypesInv /\ AskedByNow /\ PageIsOfKey /\ VersionsAreDistinct
        BY DEF PanelInv, ListInv
    <2>7. Shown # NoList => data # NoList
        <3>1. Shown \in ListOrNone /\ Shown.asked <= data.asked
            BY <1>3, ShownIsList
        <3> QED
            BY <1>1, <3>1, ListFacts DEF ListOrNone
    <2>8. TypesInv' /\ AskedByNow'
        <3>1. data.asked \in Nat
            BY <2>6, Askings
        <3>2. TypesInv'
            BY <2>1, <2>2, <2>6 DEF TypesInv, ListOrNone, inputVars
        <3>3. latest \in Nat \ {0} /\ page'.list.asked = 0
            BY <2>1, <2>6, ListFacts DEF TypesInv
        <3>4. reloading' => data'.asked <= since' /\ since' <= latest' /\ since' # 0
            <4>1. data.asked <= latest /\ latest' = latest /\ data' = data
                BY <2>1, <2>6 DEF AskedByNow
            <4>2. CASE UNCHANGED <<reloading, since>>
                BY <2>6, <4>1, <4>2 DEF AskedByNow
            <4>3. CASE since' = latest
                BY <3>3, <4>1, <4>3
            <4> QED
                BY <2>2, <4>2, <4>3
        <3>5. AskedByNow'
            BY <2>1, <2>6, <3>1, <3>3, <3>4 DEF AskedByNow
        <3> QED
            BY <3>2, <3>5
    <2>9. PageIsOfKey' /\ VersionsAreDistinct' /\ TimerIsOfPage' /\ RequestsContinue'
        BY <1>3, <2>1, <2>3, <2>4, <2>6, ListFacts, Askings DEF PageIsOfKey,
           VersionsAreDistinct, TimerIsOfPage, RequestsContinue
    <2> QED
        BY <1>1, <1>3, <2>5, <2>6, <2>7, <2>8, <2>9, ShownIsList, Askings
           DEF ListInv, Retains
<1> QED
    BY <1>2, <1>3

LEMMA PanelNext ==
    ASSUME PanelInv, [Next]_vars
    PROVE  PanelInv' /\ (UNCHANGED inputVars => Retains)
<1>1. BusyInv'
    BY BusyNext DEF PanelInv
<1>2. Shown.asked \in Nat
    BY ShownIsList, ListFacts DEF ListOrNone
<1>3. ASSUME NEW s \in Screens, Change(s[1], s[2])
      PROVE  ListInv' /\ ~UNCHANGED inputVars
    <2>1. s[1] \in Views /\ s[2] \in Queries
        BY PanelConstants
    <2> QED
        BY <1>3, <2>1, ListChange DEF Change, inputVars
<1>4. CASE TimerFires
    <2>1. Shown' = Shown
        BY <1>4, ShownIsUnchanged DEF TimerFires, appVars
    <2> QED
        BY <1>1, <1>2, <1>4, <2>1, ListTimer DEF PanelInv, Retains
<1>5. CASE Poll \/ Observe \/ UNCHANGED vars
    <2>1. Shown' = Shown
        BY <1>5, ShownIsUnchanged DEF Poll, Reload, Observe, vars, appVars
    <2> QED
        BY <1>1, <1>2, <1>5, <2>1, ListQuiet DEF PanelInv, Retains
<1> QED
    BY <1>1, <1>3, <1>4, <1>5, ListMore, ListRetry, ListAnswer, ListFail, ListPolled
       DEF Next, Settles, PanelInv

LEMMA PanelInductive == Spec => []PanelInv
<1>1. Init => PanelInv
    BY BusyInit, ListInit DEF PanelInv
<1>2. PanelInv /\ [Next]_vars => PanelInv'
    BY PanelNext
<1> QED
    BY <1>1, <1>2, PTL DEF Spec

(* ListsAreWhole: what is shown or cached is the pages of one list of one observation,    *)
(* from the first one on, of the shown view and query (market.tsx:51-53, 62-65, 87-93,    *)
(* 114-132; view-model.ts:94-105).                                                        *)
THEOREM WholeListsAreShown == Spec => []ListsAreWhole
<1>1. PanelInv => ListsAreWhole
    <2> SUFFICES ASSUME PanelInv
                 PROVE  ListsAreWhole
        OBVIOUS
    <2>1. Shown # NoList => Shown \in Lists
        BY ShownIsList DEF ListOrNone
    <2>2. \A n \in DOMAIN cache : cache[n] \in Lists
        BY DEF PanelInv, ListInv, TypesInv
    <2> QED
        BY <2>1, <2>2, ShownIsList DEF ListsAreWhole, Lists
<1> QED
    BY <1>1, PanelInductive, PTL

(* ListIsRetained: in whatever order requests and polls are answered or fail, the list of *)
(* a view and query is neither taken away nor replaced by the answer to a request made    *)
(* before its own, of whatever observations the answers are (market.tsx:87-94, 103-107,   *)
(* 118-131, 142-150).                                                                     *)
THEOREM NothingLateIsShown == Spec => ListIsRetained
<1>1. PanelInv /\ [Next]_vars =>
        [UNCHANGED inputVars /\ Shown # NoList =>
            Shown' # NoList /\ Shown'.asked >= Shown.asked]_vars
    BY PanelNext DEF Retains
<1> QED
    BY <1>1, PanelInductive, PTL DEF Spec, ListIsRetained

(* TypeOK: the variables stay within their types, and no request was asked for before the *)
(* API's first observation or after its last (market.tsx:22-47, src.tsx:18-34).           *)
THEOREM TypesHold == Spec => []TypeOK
<1> USE PanelConstants
<1>1. Init => TypeOK
    <2> SUFFICES ASSUME Init
                 PROVE  TypeOK
        OBVIOUS
    <2>1. latest \in 1..MaxObservation /\ since \in 0..latest /\ query \in Queries
        BY DEF Init
    <2>2. error \in BOOLEAN /\ reloading \in BOOLEAN
        BY DEF Init
    <2>3. /\ view \in Views /\ version \in Nat /\ active \in {0, version} /\ timer \in Nat
          /\ flight = {}
        BY DEF Init, Views
    <2> QED
        BY <2>1, <2>2, <2>3 DEF TypeOK
<1>2. PanelInv /\ TypeOK /\ [Next]_vars => TypeOK'
    <2> SUFFICES ASSUME PanelInv, TypeOK, [Next]_vars
                 PROVE  TypeOK'
        OBVIOUS
    <2>1. ASSUME NEW s \in Screens, Change(s[1], s[2])
          PROVE  TypeOK'
        BY <2>1, FreshIsUnheld DEF TypeOK, Change, Invalidate, StartRequest, appVars
    <2>2. ASSUME NEW kind, NEW v, NEW base, NEW offset, UNCHANGED <<latest, inputVars>>,
                 kind = "page" => base.asked \in 1..latest,
                 flight' = flight \cup {Request(kind, v, base, offset)}
          PROVE  \A m \in flight' : m.key \in Keys /\ m.asked \in 1..latest
        BY <2>2, KeysAreTyped DEF TypeOK, Request
    <2>3. CASE TimerFires
        BY <2>2, <2>3 DEF TypeOK, TimerFires, appVars, inputVars, requestVars
    <2>4. CASE More
        <3>1. Shown.asked \in 1..latest
            BY <2>4, ShownIsList, ListFacts DEF More, ListOrNone, TypeOK
        <3>2. /\ UNCHANGED <<latest, inputVars, timer, appVars>>
              /\ flight' = flight \cup {Request("page", Fresh, Shown, Shown.last + 1)}
            BY <2>4 DEF More
        <3>3. \A m \in flight' : m.key \in Keys /\ m.asked \in 1..latest
            BY <2>2, <3>1, <3>2
        <3> QED
            BY <2>4, <3>2, <3>3, FreshIsUnheld DEF TypeOK, More, StartRequest, appVars, inputVars
    <2>5. ASSUME UNCHANGED <<latest, inputVars, timer, flight>>,
                 since' \in {0, since, latest}, reloading' \in BOOLEAN, error' \in BOOLEAN,
                 UNCHANGED requestVars \/ Invalidate
          PROVE  TypeOK'
        <3>1. version' \in Nat /\ active' \in {0, version'}
            BY <2>5, FreshIsUnheld DEF TypeOK, Invalidate, requestVars
        <3>2. since' \in 0..latest'
            BY <2>5 DEF TypeOK
        <3> QED
            BY <2>5, <3>1, <3>2 DEF TypeOK, inputVars
    <2>6. CASE RetryRequest /\ Default
        <3>1. Invalidate /\ Reload /\ UNCHANGED <<latest, inputVars, timer, flight>>
            BY <2>6 DEF RetryRequest
        <3>2. since' \in {0, since, latest} /\ reloading' \in BOOLEAN /\ error' \in BOOLEAN
            BY <3>1 DEF Reload, appVars, TypeOK
        <3> QED
            BY <2>5, <3>1, <3>2
    <2>7. CASE RetryRequest /\ ~Default
        BY <2>2, <2>7, FreshIsUnheld DEF TypeOK, RetryRequest, StartRequest, appVars, inputVars
    <2>8. ASSUME NEW m \in flight, Settles(m)
          PROVE  TypeOK'
        BY <2>8 DEF TypeOK, Settles, Answer, Fail, appVars, inputVars
    <2>9. DataEffect => UNCHANGED requestVars \/ Invalidate
        BY DEF DataEffect, requestVars
    <2>10. CASE PollSettles
        <3>1. UNCHANGED <<latest, inputVars, timer, flight>> /\ since' = 0 /\ reloading' = FALSE
              /\ error' \in BOOLEAN
            BY <2>10 DEF PollSettles, PollAnswered, PollFails
        <3>2. UNCHANGED requestVars \/ Invalidate
            BY <2>9, <2>10 DEF PollSettles, PollAnswered, PollFails
        <3> QED
            BY <2>5, <3>1, <3>2
    <2>11. CASE Poll
        BY <2>11 DEF TypeOK, Poll, Reload, appVars, inputVars, requestVars
    <2>12. CASE Observe
        BY <2>12 DEF TypeOK, Observe, appVars, inputVars, requestVars
    <2>13. CASE UNCHANGED vars
        BY <2>13 DEF TypeOK, vars, appVars, inputVars, requestVars
    <2> QED
        BY <2>1, <2>3, <2>4, <2>6, <2>7, <2>8, <2>10, <2>11, <2>12, <2>13 DEF Next
<1> QED
    BY <1>1, <1>2, PanelInductive, PTL DEF Spec
=============================================================================
