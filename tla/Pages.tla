-------------------------------- MODULE Pages --------------------------------
(***************************************************************************)
(* Lists that come a page at a time.  The API keeps a list, newest item     *)
(* first, and says with each page where the next one starts; every endpoint *)
(* has its own envelope for the items and the cursor, and its own reader in *)
(* CcPlatformSdk.  A walk asks for page after page until there is no next,  *)
(* as the infinite queries of query.ts do.  The feed reader also keeps what *)
(* it read in the feed cache, from which a reloaded page resumes the walk.  *)
(***************************************************************************)
EXTENDS Naturals, Sequences, FiniteSets, SequencesExt

CONSTANTS
    Listed,      \* the items on the list at first, numbers: newer is greater
    PageSize,
    MaxItem,     \* bound: the greatest item that may be posted
    MaxHidden,   \* bound: how many of them cannot be shown
    LeastLeft,   \* bound: how many items deletions leave
    MaxAgain,    \* bound: reloads, refetches from the top and failed requests
    Endpoints,   \* the readers to walk with
    None

VARIABLES
    endpoint,
    place,     \* where the endpoint puts its cursor
    counted,   \* the search endpoint says how many items it found
    server,    \* the items on the list now
    hidden,    \* listed items that cannot be shown: withheld, deleted or blank
    walk,      \* the walk: what it does, the page it is at, the items it got
    reply,     \* the answer on its way, and the cached feed it is to extend
    row,       \* the cached feed: its items and cursor
    due,       \* ghost: what a walk from the top has to get
    again      \* reloads, refetches and failures so far

vars == <<endpoint, place, counted, server, hidden, walk, reply, row, due, again>>

\* The places where an envelope may have the cursor.
FeedPlaces == {"nextCursor", "meta.nextCursor", "meta.pagination.nextCursor"}
UnratedPlaces == {"nextCursor", "meta.nextCursor"}
CommentPlaces == {"nextCursor", "next_cursor", "data.nextCursor", "data.next_cursor"}
ChatPlaces == {"next_cursor", "nextCursor"}
GroupPlaces == {"nextCursor", "next_cursor"}

Places(e) ==
    CASE e \in {"feed", "likes", "trending", "all"} -> FeedPlaces
      [] e = "unrated"    -> UnratedPlaces
      [] e = "comments"   -> CommentPlaces
      [] e = "chat"       -> ChatPlaces
      [] e = "group"      -> GroupPlaces
      [] e = "hashtag"    -> {"data.nextCursor"}
      [] e \in {"businesses", "events"} -> {"meta.next_cursor"}
      [] e = "category"   -> {"businesses.next_cursor"}
      [] e \in {"reviews", "mine", "collection"} -> {"pagination.nextCursor"}
      [] e = "search"     -> {"page"}
      [] e = "station"    -> {"none"}

Lists == {"feed", "likes", "trending", "unrated", "all", "comments", "chat", "group",
          "hashtag", "businesses", "events", "category", "reviews", "mine", "collection",
          "search", "station"}

\* These list identifiers (or messages that may be blank) and leave it to the
\* client to find out which can be shown; the others withhold what cannot.
ListsAll(e) == e \in {"feed", "likes", "trending", "unrated", "chat", "station"}

\* The n-th of the numbers in S, the greatest first, has n - 1 above it.
NewestFirst(S) ==
    [n \in 1..Cardinality(S) |-> CHOOSE i \in S : Cardinality({j \in S : j > i}) = n - 1]

\* seq without the items in S, the others in their order.
Without(seq, S) ==
    LET kept == {n \in DOMAIN seq : seq[n] \notin S}
        back == NewestFirst(kept)
    IN  [n \in 1..Cardinality(kept) |-> seq[back[Cardinality(kept) - n + 1]]]

Leading(seq, n) == SubSeq(seq, 1, IF n < Len(seq) THEN n ELSE Len(seq))
Shown(seq) == Without(seq, hidden)

AtTop == [pc |-> "idle", at |-> None, got |-> << >>, pages |-> 0, cached |-> FALSE]

Init ==
    /\ endpoint \in Endpoints /\ place \in Places(endpoint)
    /\ counted \in IF endpoint = "search" THEN BOOLEAN ELSE {FALSE}
    /\ server = Listed
    /\ hidden \in IF endpoint = "search" THEN {{}}
                 ELSE {S \in SUBSET Listed : Cardinality(S) <= MaxHidden}
    /\ walk = AtTop /\ reply = None /\ row = None /\ due = {} /\ again = 0

-----------------------------------------------------------------------------
\* The API.

\* The items after the cursor; the cursor is the last item of its page.
After(c) == {i \in server : c = None \/ i < c}

ServeCursor(c) ==
    LET items == Leading(NewestFirst(After(c)), PageSize)
        more  == Cardinality(After(c)) > PageSize
    IN  [items |-> IF ListsAll(endpoint) THEN items ELSE Shown(items),
         next  |-> IF more THEN items[Len(items)] ELSE None,
         listed |-> server]

\* The search endpoint counts in pages of the whole list.
ServePage(c) ==
    LET n    == IF c = None THEN 1 ELSE c
        list == NewestFirst(server)
    IN  [items |-> Leading(SubSeq(list, (n - 1) * PageSize + 1, Len(list)), PageSize),
         next  |-> n,
         listed |-> server]

\* The tracks of a station come in one page.
ServeAll == [items |-> NewestFirst(server), next |-> None, listed |-> server]

Serve ==
    /\ walk.pc = "asked" /\ reply = None
    /\ reply' = CASE endpoint = "search"  -> ServePage(walk.at)
                  [] endpoint = "station" -> ServeAll
                  [] OTHER                -> ServeCursor(walk.at)
    /\ UNCHANGED <<endpoint, place, counted, server, hidden, walk, row, due, again>>

\* An offset has no meaning on a list that changes: search walks a quiet one.
Post(i) ==
    /\ endpoint # "search" /\ \A j \in server \cup Listed : j < i
    /\ server' = server \cup {i}
    /\ UNCHANGED <<endpoint, place, counted, hidden, walk, reply, row, due, again>>

Delete(i) ==
    /\ endpoint # "search" /\ i \in server /\ Cardinality(server) > LeastLeft
    /\ server' = server \ {i} /\ due' = due \ {i}
    /\ UNCHANGED <<endpoint, place, counted, hidden, walk, reply, row, again>>

-----------------------------------------------------------------------------
\* The readers: the items of a page and where the next one starts.

CursorIn(places) == IF place \in places THEN reply.next ELSE None

Page(items, next) == [items |-> items, next |-> next]

\* extractNextCursor.
NextCursor == CursorIn(FeedPlaces)

\* An empty page ends the feed, whatever its cursor says.  Posts that come
\* whole are shown as they are, listed ones as far as the batch has them.
FeedPage ==
    IF reply.items = << >> THEN Page(<< >>, None) ELSE Page(Shown(reply.items), NextCursor)
LikesPage ==
    IF reply.items = << >> THEN Page(<< >>, None) ELSE Page(Shown(reply.items), NextCursor)

TrendingPage == Page(Shown(reply.items), NextCursor)
UnratedPage == Page(Shown(reply.items), CursorIn(UnratedPlaces))
AllPage == Page(reply.items, NextCursor)

\* An empty page of comments may have a next one.
CommentsPage == Page(reply.items, CursorIn(CommentPlaces))

\* Messages without an identity are left out.
ChatPage == Page(Shown(reply.items), CursorIn(ChatPlaces))

\* Found posts are hydrated, or shown as they were found.
HashtagPage == Page(reply.items, CursorIn({"data.nextCursor"}))

GroupPage == Page(reply.items, CursorIn(GroupPlaces))

\* Tracks that are listed only are hydrated; those the batch lacks are left out.
StationPage == Page(Shown(reply.items), None)

BusinessesPage == Page(reply.items, CursorIn({"meta.next_cursor"}))
EventsPage == Page(reply.items, CursorIn({"meta.next_cursor"}))
CategoryPage == Page(reply.items, CursorIn({"businesses.next_cursor"}))
ReviewsPage == Page(reply.items, CursorIn({"pagination.nextCursor"}))
MyReviewsPage == Page(reply.items, CursorIn({"pagination.nextCursor"}))
CollectionPage == Page(reply.items, CursorIn({"pagination.nextCursor"}))

\* There is more when fewer were found so far than the API counted or, when it
\* does not count, when the page is full.
SearchPage ==
    LET more == IF counted THEN reply.next * PageSize < Cardinality(server)
                ELSE Len(reply.items) >= PageSize
    IN  Page(reply.items, IF more THEN reply.next + 1 ELSE None)

PageRead ==
    CASE endpoint = "feed"       -> FeedPage
      [] endpoint = "likes"      -> LikesPage
      [] endpoint = "trending"   -> TrendingPage
      [] endpoint = "unrated"    -> UnratedPage
      [] endpoint = "all"        -> AllPage
      [] endpoint = "comments"   -> CommentsPage
      [] endpoint = "chat"       -> ChatPage
      [] endpoint = "hashtag"    -> HashtagPage
      [] endpoint = "group"      -> GroupPage
      [] endpoint = "station"    -> StationPage
      [] endpoint = "businesses" -> BusinessesPage
      [] endpoint = "events"     -> EventsPage
      [] endpoint = "category"   -> CategoryPage
      [] endpoint = "reviews"    -> ReviewsPage
      [] endpoint = "mine"       -> MyReviewsPage
      [] endpoint = "collection" -> CollectionPage
      [] endpoint = "search"     -> SearchPage

-----------------------------------------------------------------------------
\* The cached feed.

\* A bug to rule out: every page replaces the list.
Replaced(items, next) == [items |-> items, cursor |-> next]

\* appendToFeedResource writes the row that it read, longer; a page without a
\* next one leaves the cursor as it is.
Extended(items, next) ==
    LET was == reply.read IN
    IF was = None THEN [items |-> items, cursor |-> next]
    ELSE [items  |-> was.items \o Without(items, ToSet(was.items)),
          cursor |-> IF next = None THEN was.cursor ELSE next]

\* The first page replaces the list, the others extend it.
CachedFeed(page) ==
    CASE endpoint # "feed" \/ reply.items = << >> -> row
      [] endpoint = "feed" /\ reply.items # << >> /\ walk.at = None ->
           [items |-> reply.items, cursor |-> page.next]
      [] OTHER -> Extended(reply.items, page.next)

-----------------------------------------------------------------------------
\* The walk.

StandingAt(c) == IF c = None THEN "done" ELSE "idle"

Ask ==
    /\ walk.pc = "idle"
    /\ walk' = [walk EXCEPT !.pc = "asked"]
    /\ UNCHANGED <<endpoint, place, counted, server, hidden, reply, row, due, again>>

\* A later page of the feed is appended: the row is read first.
Appends == endpoint = "feed" /\ reply.items # << >> /\ walk.at # None

ReadRow ==
    /\ walk.pc = "asked" /\ reply # None /\ Appends
    /\ walk' = [walk EXCEPT !.pc = "appending"]
    /\ reply' = [items |-> reply.items, next |-> reply.next, listed |-> reply.listed, read |-> row]
    /\ UNCHANGED <<endpoint, place, counted, server, hidden, row, due, again>>

Arrive ==
    /\ reply # None /\ walk.pc = IF Appends THEN "appending" ELSE "asked"
    /\ LET page == PageRead
       IN  /\ walk' = [walk EXCEPT !.pc = StandingAt(page.next), !.at = page.next,
                                    !.got = @ \o page.items, !.pages = @ + 1]
           /\ row' = CachedFeed(page)
    /\ due' = IF walk.at = None THEN (reply.listed \cap server) \ hidden ELSE due
    /\ reply' = None
    /\ UNCHANGED <<endpoint, place, counted, server, hidden, again>>

Again == again < MaxAgain /\ again' = again + 1

\* The request or its answer is lost, or the cache fails; the walk asks for the
\* same page again.
Fail ==
    /\ walk.pc \in {"asked", "appending"} /\ Again
    /\ walk' = [walk EXCEPT !.pc = "idle"] /\ reply' = None
    /\ UNCHANGED <<endpoint, place, counted, server, hidden, row, due>>

\* The list is asked for from its first page.
Refetch ==
    /\ walk.pc \in {"idle", "done"} /\ walk # AtTop /\ Again
    /\ walk' = AtTop
    /\ UNCHANGED <<endpoint, place, counted, server, hidden, reply, row, due>>

\* The page is loaded again and starts from the cached feed, one long page.
Reload ==
    /\ walk # AtTop /\ Again
    /\ walk' = IF row = None THEN AtTop
               ELSE [pc |-> StandingAt(row.cursor), at |-> row.cursor,
                     got |-> Shown(row.items), pages |-> 0, cached |-> TRUE]
    /\ reply' = None
    /\ UNCHANGED <<endpoint, place, counted, server, hidden, row, due>>

Next ==
    \/ Serve \/ Ask \/ ReadRow \/ Arrive \/ Fail \/ Refetch \/ Reload
    \/ \E i \in 1..MaxItem : Post(i) \/ Delete(i)

Spec == Init /\ [][Next]_vars

-----------------------------------------------------------------------------
\* Properties.

Items == 1..MaxItem

\* Type invariant.
TypeOK ==
    /\ endpoint \in Endpoints /\ place \in Places(endpoint) /\ counted \in BOOLEAN
    /\ server \subseteq Items /\ hidden \subseteq Items /\ due \subseteq server \ hidden
    /\ walk.pc \in {"idle", "asked", "appending", "done"} /\ ToSet(walk.got) \subseteq Items
    /\ row # None => ToSet(row.items) \subseteq Items
    /\ again \in 0..MaxAgain

\* A walk that has come to its end got every item that was on the list when it
\* began and still is, whatever was posted, deleted, withheld or lost on the
\* way and wherever the page was reloaded; it asked for no more pages than
\* there are, and one; and unless it resumed from the cache it got the items
\* once each, in their order.
WalkIsWhole ==
    /\ walk.pages * PageSize <= MaxItem + PageSize
    /\ walk.pc = "done" =>
         /\ due \subseteq ToSet(walk.got)
         /\ ToSet(walk.got) \cap hidden = {}
         /\ ~walk.cached => \A i, j \in DOMAIN walk.got :
                               i < j => walk.got[i] > walk.got[j]
=============================================================================
