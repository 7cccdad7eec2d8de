------------------------------- MODULE People -------------------------------
(***************************************************************************)
(* Users and groups (CcPlatformSdk in src/platformSdk.ts): profiles are     *)
(* fetched in debounced batches, groups one by one with a map of the GETs   *)
(* in flight; a cached row is served while it is revalidated, and a 404     *)
(* leaves a tombstone that answers for the server for a while.              *)
(*                                                                         *)
(* A call is one caller's operation; an action runs from one await to the   *)
(* next.  The versions of a user or group are the server's.                 *)
(***************************************************************************)
EXTENDS Naturals, FiniteSets

CONSTANTS
    Users, Groups,
    Founded,           \* the groups that exist at first
    Calls,             \* callers; each makes one call
    Kinds,             \* [Calls -> SUBSET Ops]: what each may call
    Background,        \* whom a background refresh answers
    Flights,           \* bound: requests out at once
    None,
    userBatchMaxSize,
    MaxVersion,        \* bound: versions of a user or group
    MaxEvents          \* bound: expiries, other people's changes, cleared caches, disposals

Ops == {"user", "hydrate", "profile", "users", "group", "groups", "create", "update", "change"}

ASSUME BatchAssumption == userBatchMaxSize \in Nat \ {0} /\ MaxVersion \in Nat \ {0} /\ MaxEvents \in Nat
ASSUME NamesAssumption ==
    Users \cap Groups = {} /\ Founded \subseteq Groups /\ Background \notin Calls
ASSUME NoneAssumption == None \notin Flights /\ None \notin Nat
ASSUME KindsAssumption == Kinds \in [Calls -> SUBSET Ops]

Ids == Users \cup Groups
Gone == 0              \* the version of what the server has not
Versions == 0..MaxVersion

VARIABLES
    call,              \* per caller: operation, subject, progress, the oldest answer it may get, its answer
    userBatchQueue, userPendingResolvers, userBatchTimer,
    userRefreshInFlight, groupRefreshInFlight,
    notFound,          \* userNotFound and groupNotFound
    row,               \* the cached version, Gone if there is none
    flight,            \* requests, and what is left to do for their answers
    version, gone,     \* server: versions, and who is deleted or banned
    wasGone,           \* history: who has been gone, or was left out of an answer
    disposed, events   \* the timer has been stopped; how much has happened

batch == <<userBatchQueue, userPendingResolvers, userBatchTimer>>
refreshes == <<userRefreshInFlight, groupRefreshInFlight>>
server == <<version, gone, wasGone>>
vars == <<call, batch, refreshes, notFound, row, flight, server, disposed, events>>

Idle == [op |-> "none", id |-> None, pc |-> "idle", asked |-> Gone, got |-> None]
Nobody == [x \in Ids |-> {}]
Free == [kind |-> "none", pc |-> "free", ids |-> {}, for |-> Nobody,
         reply |-> [x \in Ids |-> Gone], todo |-> {}]

Init ==
    /\ call = [c \in Calls |-> Idle]
    /\ userBatchQueue = {} /\ userPendingResolvers = [u \in Users |-> {}] /\ userBatchTimer = FALSE
    /\ userRefreshInFlight = {} /\ groupRefreshInFlight = [g \in Groups |-> None]
    /\ notFound = {} /\ row = [x \in Ids |-> Gone] /\ flight = [f \in Flights |-> Free]
    /\ version = [x \in Ids |-> IF x \in Users \cup Founded THEN 1 ELSE Gone]
    /\ gone \in SUBSET Users /\ wasGone = gone /\ disposed = FALSE /\ events = 0

At(c, op, pc) == call[c].op = op /\ call[c].pc = pc
Goes(c, pc) == call' = [call EXCEPT ![c].pc = pc]
Ends(c, v) == call' = [call EXCEPT ![c].pc = "done", ![c].got = v]
Present(x) == version[x] # Gone /\ x \notin gone
Served == [x \in Ids |-> IF Present(x) THEN version[x] ELSE Gone]

\* Whoever waits for x has v; a rejected caller has None.
Told(who, v) ==
    [c \in Calls |-> IF call[c].pc = "waiting" /\ c \in who[call[c].id]
                     THEN [call[c] EXCEPT !.pc = "done", !.got = v[call[c].id]] ELSE call[c]]

\* The tables of the cache.
Cached(S) == {x \in S : row[x] # Gone}
SetRow(x, v) == row' = [row EXCEPT ![x] = v]
SetRows(S, v) == row' = [x \in Ids |-> IF x \in S THEN v[x] ELSE row[x]]
DeleteRow(x) == SetRow(x, Gone)

-----------------------------------------------------------------------------
\* Requests.

Slots == {f \in Flights : flight[f].pc = "free"}
Slot == CHOOSE f \in Slots : TRUE

Send(kind, ids, who) ==
    /\ Slots # {}
    /\ flight' = [flight EXCEPT ![Slot] = [Free EXCEPT !.kind = kind, !.pc = "sent", !.ids = ids, !.for = who]]

For(c, x) == [Nobody EXCEPT ![x] = {c}]
Frees(f) == flight' = [flight EXCEPT ![f] = Free]
Does(f, pc, todo) == flight' = [flight EXCEPT ![f].pc = pc, ![f].todo = todo]
Is(f, kind, pc) == flight[f].kind = kind /\ flight[f].pc = pc
Found(f) == {x \in flight[f].ids : flight[f].reply[x] # Gone}
Missing(f) == flight[f].ids \ Found(f)

\* A batch whose answer is no list finds nobody.
Without(left) == [x \in Ids |-> IF x \in left THEN Gone ELSE Served[x]]
Omits(f) == IF flight[f].kind = "batch" THEN {{}, flight[f].ids} ELSE {{}}

ServerReads(f) ==
    /\ flight[f].pc = "sent"
    /\ \E left \in Omits(f) :
        /\ flight' = [flight EXCEPT ![f].pc = "back", ![f].reply = Without(left)]
        /\ wasGone' = wasGone \cup left
    /\ UNCHANGED <<call, batch, refreshes, notFound, row, version, gone, disposed, events>>

-----------------------------------------------------------------------------
\* fetchUserProfileById and its batches.

FullSize(queue) == Cardinality(queue) >= userBatchMaxSize

KeptQueue(queue) == queue
EmptyQueue(queue) == {}

\* flushUserBatch up to its request: queue and resolvers are taken together.
FlushUserBatch(queue, pending) ==
    /\ Send("batch", queue, [x \in Ids |-> IF x \in Users THEN pending[x] ELSE {}])
    /\ userBatchQueue' = EmptyQueue(queue) /\ userBatchTimer' = FALSE
    /\ userPendingResolvers' = [u \in Users |-> {}]

LastOnly(u, who) == [userPendingResolvers EXCEPT ![u] = {who}]
Joined(u, who) == [userPendingResolvers EXCEPT ![u] = @ \cup {who}]

\* At once when the batch is full, else when the timer fires.
QueueUserFetch(u, who) ==
    LET queue == userBatchQueue \cup {u}
        pending == Joined(u, who) IN
    IF FullSize(queue) THEN FlushUserBatch(queue, pending)
    ELSE /\ userBatchQueue' = queue /\ userPendingResolvers' = pending /\ userBatchTimer' = TRUE
         /\ UNCHANGED flight

TimerFires ==
    /\ userBatchTimer
    /\ IF userBatchQueue = {}
       THEN userBatchTimer' = FALSE /\ UNCHANGED <<userBatchQueue, userPendingResolvers, flight>>
       ELSE FlushUserBatch(userBatchQueue, userPendingResolvers)
    /\ UNCHANGED <<call, refreshes, notFound, row, server, disposed, events>>

\* The call, up to its read of the row: a tombstone answers at once.
Starts(c, op, x) ==
    call' = [call EXCEPT ![c] = IF op \in {"user", "group"} /\ x \in notFound
                                THEN [Idle EXCEPT !.op = op, !.id = x, !.pc = "done", !.got = Gone]
                                ELSE [Idle EXCEPT !.op = op, !.id = x, !.pc = "reading"]]

\* The row is missing, or a hint says the server has a newer one; else it is
\* returned, and revalidated when it is past its soft TTL.
HintStale(u) == row[u] = Gone \/ row[u] < version[u]

ReadUser(c) ==
    LET u == call[c].id IN
    /\ At(c, "user", "reading")
    /\ \/ /\ row[u] # Gone /\ Ends(c, row[u])
          /\ UNCHANGED <<batch, userRefreshInFlight, flight>>
       \/ /\ row[u] # Gone /\ u \notin userRefreshInFlight /\ Ends(c, row[u])
          /\ userRefreshInFlight' = userRefreshInFlight \cup {u}
          /\ QueueUserFetch(u, Background)
       \/ /\ HintStale(u)
          /\ call' = [call EXCEPT ![c].pc = "waiting", ![c].asked = Served[u]]
          /\ QueueUserFetch(u, c)
          /\ UNCHANGED userRefreshInFlight
    /\ UNCHANGED <<groupRefreshInFlight, notFound, row, server, disposed, events>>

\* hydrateUsersFromHints: a user whose row is fresh enough is left alone, the
\* others are fetched like any.
HydrateUser(c) ==
    LET u == call[c].id IN
    /\ At(c, "hydrate", "reading")
    /\ \/ u \in Cached(Users) /\ Ends(c, row[u])
       \/ Starts(c, "user", u)
    /\ UNCHANGED <<batch, refreshes, notFound, row, flight, server, disposed, events>>

\* The answer: the users in it are cached one by one,
BatchAnswered(f) ==
    /\ Is(f, "batch", "back") /\ Does(f, "storing", Found(f))
    /\ UNCHANGED <<call, batch, refreshes, notFound, row, server, disposed, events>>

\* (a put that fails is logged, setUser returns)
StoreUser(f) ==
    \E u \in flight[f].todo :
        /\ Is(f, "batch", "storing")
        /\ SetRow(u, flight[f].reply[u]) \/ UNCHANGED row
        /\ Does(f, "storing", flight[f].todo \ {u})
        /\ UNCHANGED <<call, batch, refreshes, notFound, server, disposed, events>>

\* then the tombstones and the callers are settled,
Refreshed(f) == {u \in Users : Background \in flight[f].for[u]}
Buried(f) == (notFound \ Found(f)) \cup Missing(f)

BatchResolved(f) ==
    /\ Is(f, "batch", "storing") /\ flight[f].todo = {}
    /\ notFound' = Buried(f)
    /\ call' = Told(flight[f].for, flight[f].reply)
    /\ userRefreshInFlight' = userRefreshInFlight \ Refreshed(f)
    /\ IF Missing(f) = {} THEN Frees(f) ELSE Does(f, "evicting", Missing(f))
    /\ UNCHANGED <<batch, groupRefreshInFlight, row, server, disposed, events>>

\* and the rows of the users it does not name are dropped, up to the first
\* delete that fails.
EvictUser(f) ==
    \E u \in flight[f].todo :
        /\ Is(f, "batch", "evicting")
        /\ \/ DeleteRow(u) /\ Does(f, "evicting", flight[f].todo \ {u}) /\ flight[f].todo # {u}
           \/ DeleteRow(u) /\ Frees(f) /\ flight[f].todo = {u}
           \/ UNCHANGED row /\ Frees(f)
        /\ UNCHANGED <<call, batch, refreshes, notFound, server, disposed, events>>

-----------------------------------------------------------------------------
\* fetchGroupFromNetwork.

Fetches(g) == groupRefreshInFlight[g] # None

\* The tombstone goes or comes before the row is written.
GroupAnswered(f) ==
    /\ Is(f, "get", "back")
    /\ notFound' = Buried(f)
    /\ Does(f, IF Missing(f) = {} THEN "storing" ELSE "evicting", flight[f].ids)
    /\ UNCHANGED <<call, batch, refreshes, row, server, disposed, events>>

\* The map forgets a GET that settles.
Unlisted(f) == [g \in Groups |-> IF groupRefreshInFlight[g] = f THEN None ELSE groupRefreshInFlight[g]]

\* createGroup falls back on what the POST returned.
Creating(f) == {c \in Calls : call[c].op = "create" /\ \E g \in flight[f].ids : c \in flight[f].for[g]}

Fallback(f, v) == {c \in Creating(f) : call[c].pc = "waiting" /\ v[call[c].id] \in {Gone, None}}

GroupSettles(f, v) ==
    /\ call' = [c \in Calls |-> IF c \in Fallback(f, v) THEN [call[c] EXCEPT !.pc = "fallback"]
                                ELSE Told(flight[f].for, v)[c]]
    /\ groupRefreshInFlight' = Unlisted(f)
    /\ Frees(f)

GroupWritten(f) ==
    /\ flight[f].kind = "get" /\ flight[f].pc \in {"storing", "evicting"}
    /\ SetRows(flight[f].ids, flight[f].reply)
    /\ GroupSettles(f, flight[f].reply)
    /\ UNCHANGED <<batch, userRefreshInFlight, notFound, server, disposed, events>>

\* getGroup: a row is returned, and revalidated past its soft TTL unless a GET
\* is in flight; without a row the caller shares that GET, or makes one.
Get(g, who) ==
    /\ Send("get", {g}, who)
    /\ groupRefreshInFlight' = [groupRefreshInFlight EXCEPT ![g] = Slot]

ReadGroup(c) ==
    LET g == call[c].id
        f == groupRefreshInFlight[g] IN
    /\ At(c, "group", "reading")
    /\ \/ row[g] # Gone /\ Ends(c, row[g]) /\ UNCHANGED <<flight, groupRefreshInFlight>>
       \/ row[g] # Gone /\ ~Fetches(g) /\ Ends(c, row[g]) /\ Get(g, Nobody)
       \/ row[g] = Gone /\ ~Fetches(g) /\ Goes(c, "waiting") /\ Get(g, For(c, g))
       \/ /\ row[g] = Gone /\ Fetches(g) /\ Goes(c, "waiting")
          /\ flight' = [flight EXCEPT ![f].for[g] = @ \cup {c}]
          /\ UNCHANGED groupRefreshInFlight
    /\ UNCHANGED <<batch, userRefreshInFlight, notFound, row, server, disposed, events>>

-----------------------------------------------------------------------------
\* Reads that write rows and leave tombstones alone: getUserProfile(ById),
\* getBatchedUserProfiles, getGroups.

ReadRows(c) ==
    LET wanted == IF call[c].op = "profile" THEN {call[c].id} ELSE Users
        missing == wanted \ Cached(wanted) IN
    /\ call[c].op \in {"profile", "users"} /\ call[c].pc = "reading"
    /\ \/ missing = {} /\ Ends(c, row[call[c].id]) /\ UNCHANGED flight
       \/ missing # {} /\ Send("list", missing, For(c, call[c].id)) /\ Goes(c, "waiting")
       \* skipCache
       \/ call[c].op = "profile" /\ Send("list", {call[c].id}, For(c, call[c].id)) /\ Goes(c, "waiting")
    /\ UNCHANGED <<batch, refreshes, notFound, row, server, disposed, events>>

ListGroups(c) ==
    /\ At(c, "groups", "reading") /\ Goes(c, "waiting")
    /\ Send("list", Groups, For(c, call[c].id))
    /\ UNCHANGED <<batch, refreshes, notFound, row, server, disposed, events>>

\* One write of all rows; then the caller has its answer.
Listed(f) ==
    /\ Is(f, "list", "back")
    /\ SetRows(Found(f), flight[f].reply)
    /\ call' = Told(flight[f].for, flight[f].reply) /\ Frees(f)
    /\ UNCHANGED <<batch, refreshes, notFound, server, disposed, events>>

-----------------------------------------------------------------------------
\* A request fails, its answer is lost, or a batch trips over an entry while it
\* caches them; whoever waits for it is rejected.

EveryError(f) == notFound \cup flight[f].ids
NoTombstone(f) == notFound

RequestFails(f) ==
    /\ flight[f].pc \in {"sent", "back"} \/ (Is(f, "batch", "storing") /\ flight[f].todo # {})
    /\ IF flight[f].kind = "get"
       THEN GroupSettles(f, [x \in Ids |-> None]) /\ UNCHANGED userRefreshInFlight
       ELSE /\ call' = Told(flight[f].for, [x \in Ids |-> None]) /\ Frees(f)
            /\ userRefreshInFlight' = userRefreshInFlight \ Refreshed(f)
            /\ UNCHANGED groupRefreshInFlight
    /\ notFound' = NoTombstone(f)
    /\ UNCHANGED <<batch, row, server, disposed, events>>

-----------------------------------------------------------------------------
\* Writes: follow, unfollow, join, leave ("change"), createGroup, updateGroup.

\* The server does it, and the caller may never know.
ServerWrites(c) ==
    LET x == call[c].id IN
    /\ call[c].op \in {"change", "create", "update"} /\ call[c].pc = "reading"
    /\ version[x] < MaxVersion
    /\ IF call[c].op = "create" THEN version[x] = Gone ELSE Present(x)
    /\ version' = [version EXCEPT ![x] = @ + 1]
    /\ \/ call' = [call EXCEPT ![c].pc = "written", ![c].asked = version[x] + 1]
       \/ Ends(c, None)
    /\ UNCHANGED <<batch, refreshes, notFound, row, flight, gone, wasGone, disposed, events>>

WriteFails(c) ==
    /\ call[c].op \in {"change", "create", "update"} /\ call[c].pc = "reading" /\ Ends(c, None)
    /\ UNCHANGED <<batch, refreshes, notFound, row, flight, server, disposed, events>>

\* The row goes, for the next read to fetch a fresh one; a user's is looked for
\* first, by its name.
FindRow(c) ==
    /\ At(c, "change", "written") /\ call[c].id \in Users
    /\ IF row[call[c].id] = Gone THEN Ends(c, None) ELSE Goes(c, "found")
    /\ UNCHANGED <<batch, refreshes, notFound, row, flight, server, disposed, events>>

DropRow(c) ==
    /\ call[c].op = "change" /\ call[c].pc = (IF call[c].id \in Users THEN "found" ELSE "written")
    /\ Ends(c, None)
    /\ DeleteRow(call[c].id)
    /\ UNCHANGED <<batch, refreshes, notFound, flight, server, disposed, events>>

\* Read after write: a GET of its own, whatever is in flight.
SharesGet(c) ==
    LET g == call[c].id
        f == groupRefreshInFlight[g] IN
    IF Fetches(g) THEN flight' = [flight EXCEPT ![f].for[g] = @ \cup {c}] ELSE Send("get", {g}, For(c, g))
OwnGet(c) == Send("get", {call[c].id}, For(c, call[c].id))

Refetch(c) ==
    /\ call[c].op \in {"create", "update"} /\ call[c].pc = "written"
    /\ notFound' = IF call[c].op = "create" THEN notFound \ {call[c].id} ELSE notFound
    /\ OwnGet(c) /\ Goes(c, "waiting")
    /\ UNCHANGED <<batch, refreshes, row, server, disposed, events>>

KeepCreated(c) ==
    /\ call[c].pc = "fallback" /\ Ends(c, call[c].asked)
    /\ SetRow(call[c].id, call[c].asked)
    /\ UNCHANGED <<batch, refreshes, notFound, flight, server, disposed, events>>

-----------------------------------------------------------------------------
\* What else happens.

\* A call is made.  Nobody asks for a group before it exists.
Call(c) ==
    /\ call[c].pc = "idle"
    /\ \E op \in Kinds[c], x \in Ids :
        /\ op \in {"user", "hydrate", "profile", "users"} => x \in Users
        /\ op \in {"group", "groups", "create", "update"} => x \in Groups
        /\ op \in {"group", "update", "change"} => version[x] # Gone
        /\ Starts(c, op, x)
    /\ UNCHANGED <<batch, refreshes, notFound, row, flight, server, disposed, events>>

Happens == events < MaxEvents /\ events' = events + 1

\* negativeCacheTtlMs has passed.
TombstoneExpires ==
    /\ Happens
    /\ \E x \in notFound : notFound' = notFound \ {x}
    /\ UNCHANGED <<call, batch, refreshes, row, flight, server, disposed>>

\* The hard TTL of a row has passed, or the cache is trimmed.
RowExpires ==
    /\ Happens
    /\ \E x \in Ids : row[x] # Gone /\ row' = [row EXCEPT ![x] = Gone]
    /\ UNCHANGED <<call, batch, refreshes, notFound, flight, server, disposed>>

\* clearCache; the tombstones go when the rows have.
ClearCache ==
    /\ Happens
    /\ row' = [x \in Ids |-> Gone] /\ notFound' = {}
    /\ UNCHANGED <<call, batch, refreshes, flight, server, disposed>>

\* Somebody else changes, deletes or bans.
ServerChanges ==
    /\ Happens
    /\ \E x \in Ids :
        /\ version[x] # Gone
        /\ \/ /\ version[x] < MaxVersion /\ version' = [version EXCEPT ![x] = @ + 1]
              /\ UNCHANGED <<gone, wasGone>>
           \/ /\ x \notin gone /\ gone' = gone \cup {x} /\ wasGone' = wasGone \cup {x}
              /\ UNCHANGED version
           \/ /\ x \in gone \cap Users /\ gone' = gone \ {x}
              /\ UNCHANGED <<version, wasGone>>
    /\ UNCHANGED <<call, batch, refreshes, notFound, row, flight, disposed>>

\* dispose stops the timer; the callers that wait for it are not told.
Dispose ==
    /\ Happens
    /\ ~disposed /\ disposed' = TRUE /\ userBatchTimer' = FALSE
    /\ UNCHANGED <<call, userBatchQueue, userPendingResolvers, refreshes, notFound, row, flight, server>>

-----------------------------------------------------------------------------
Reads(c) == ReadUser(c) \/ HydrateUser(c) \/ ReadGroup(c) \/ ReadRows(c) \/ ListGroups(c)
Writes(c) == ServerWrites(c) \/ WriteFails(c) \/ FindRow(c) \/ DropRow(c) \/ Refetch(c) \/ KeepCreated(c)
Answer(f) ==
    ServerReads(f) \/ BatchAnswered(f) \/ StoreUser(f) \/ BatchResolved(f) \/ EvictUser(f)
    \/ GroupAnswered(f) \/ GroupWritten(f) \/ Listed(f) \/ RequestFails(f)

Next ==
    \/ \E c \in Calls : Call(c) \/ Reads(c) \/ Writes(c)
    \/ \E f \in Flights : Answer(f)
    \/ TimerFires \/ TombstoneExpires \/ RowExpires \/ ClearCache \/ ServerChanges \/ Dispose

Spec == Init /\ [][Next]_vars

-----------------------------------------------------------------------------
CallState == [op : Ops \cup {"none"}, id : Ids \cup {None}, asked : Versions, got : Versions \cup {None},
          pc : {"idle", "reading", "waiting", "written", "found", "fallback", "done"}]
Flight == [kind : {"none", "batch", "get", "list"},
           pc : {"free", "sent", "back", "storing", "evicting"},
           ids : SUBSET Ids, for : [Ids -> SUBSET (Calls \cup {Background})],
           reply : [Ids -> Versions], todo : SUBSET Ids]

\* Type invariant; the queue names the users somebody waits for.
TypeOK ==
    /\ userBatchQueue = {u \in Users : userPendingResolvers[u] # {}}
    /\ call \in [Calls -> CallState]
    /\ userBatchQueue \subseteq Users /\ userBatchTimer \in BOOLEAN
    /\ userPendingResolvers \in [Users -> SUBSET (Calls \cup {Background})]
    /\ userRefreshInFlight \subseteq Users /\ groupRefreshInFlight \in [Groups -> Flights \cup {None}]
    /\ notFound \subseteq Ids /\ row \in [Ids -> Versions] /\ flight \in [Flights -> Flight]
    /\ version \in [Ids -> Versions] /\ gone \subseteq Ids /\ wasGone \subseteq Ids
    /\ disposed \in BOOLEAN /\ events \in 0..MaxEvents

\* Who asked the server, in a batch or to read back a write, is answered with
\* what it had at that time or later: no answer that was already on its way is
\* taken (the snapshot of the resolvers, fetchGroupFromNetwork after a write).
AnsweredFresh ==
    \A c \in Calls : call[c].pc = "done" /\ call[c].got \notin {None, Gone} => call[c].got >= call[c].asked

\* Nobody is told that a user or group does not exist which always did, unless
\* an answer of the server left it out: no failure makes a tombstone, neither
\* of a request nor of the cache.
NullIsTrue == \A c \in Calls : call[c].op \in {"user", "group"} /\ call[c].got = Gone => call[c].id \in wasGone

\* Whoever waits is held by the batch whose timer runs, or by a request that is
\* out, however batches, failures and dispose overlap: nobody waits for ever but
\* those that dispose left in the batch.
NobodyForgotten ==
    \A c \in Calls : call[c].pc = "waiting" =>
        LET x == call[c].id IN
        \/ /\ x \in userBatchQueue /\ c \in userPendingResolvers[x]
           /\ userBatchTimer \/ disposed
        \/ \E f \in Flights : flight[f].pc # "free" /\ c \in flight[f].for[x]
=============================================================================
