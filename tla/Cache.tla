-------------------------------- MODULE Cache --------------------------------
(***************************************************************************)
(* The local cache (src/cache/cacheDB.ts): one IndexedDB database that the *)
(* SDK instances of several tabs share, the write fence each of them keeps *)
(* and the wipe of a sign-out.  Its users are the feed pages, deletions    *)
(* and trims of src/platformSdk.ts.                                        *)
(*                                                                         *)
(* A request takes effect when it is issued: IndexedDB runs the requests   *)
(* of a store in that order.  Its answer comes later, so each action takes *)
(* one task from one await to the next.  Any request may find the          *)
(* connection lost.                                                        *)
(***************************************************************************)
EXTENDS Naturals, FiniteSets

CONSTANTS
    Tabs,        \* SDK instances on the one database
    Tasks,       \* slots for concurrent calls of the instances
    TabOf,       \* [Tasks -> Tabs]
    Posts,       \* post ULIDs
    Routes,      \* cache keys of feeds
    Kinds,       \* [Tasks -> SUBSET TaskKinds]: the calls a slot runs
    Leavers,     \* tabs whose user signs out
    Capacity     \* maxCapacity of a store

TaskKinds == {"first", "next", "read", "delete", "trim"}

ASSUME TasksAssumption == TabOf \in [Tasks -> Tabs] /\ Kinds \in [Tasks -> SUBSET TaskKinds]
ASSUME CapacityAssumption == Capacity \in Nat \ {0}

VARIABLES
    held, old,        \* the cached posts; those whose row is past its TTL
    feeds, oldFeeds,  \* the cached feeds; those past their TTL
    list,             \* the ULIDs in the row of each feed
    writesFenced,
    signing,          \* signOutInProgress
    wipe,             \* where the clearAll of each tab is
    mail,             \* tabs that a sign-out broadcast has yet to reach
    task,             \* the calls in progress
    sealed            \* history: wiped behind fences that are all still up

postRows == <<held, old>>
feedRows == <<feeds, oldFeeds, list>>
rows == <<postRows, feedRows>>
fences == <<writesFenced, signing, wipe, mail, sealed>>
vars == <<rows, fences, task>>

NoLists == [r \in Routes |-> {}]
PCs == {"idle", "fetching", "posts", "reopen", "feed", "append", "lookup", "expire", "hydrate",
        "touch", "deleting", "drop", "redrop", "feeds", "listed", "unlist", "trim", "evict", "trimFeeds", "evictFeeds"}
Task == [pc : PCs, kind : TaskKinds \cup {"none"}, route : SUBSET Routes, ids : SUBSET Posts,
         seen : [Routes -> SUBSET Posts], left : SUBSET Routes]
Idle == [pc |-> "idle", kind |-> "none", route |-> {}, ids |-> {}, seen |-> NoLists, left |-> {}]

Init ==
    /\ held = {} /\ old = {} /\ feeds = {} /\ oldFeeds = {} /\ list = NoLists
    /\ writesFenced = [t \in Tabs |-> FALSE] /\ signing = [t \in Tabs |-> FALSE]
    /\ wipe = [t \in Tabs |-> "no"] /\ mail = {}
    /\ task = [k \in Tasks |-> Idle] /\ sealed = FALSE

At(k, pc) == task[k].pc = pc
Fenced(k) == writesFenced[TabOf[k]]
Goto(k, pc) == task' = [task EXCEPT ![k].pc = pc]
Read(k, pc, ids, seen, left) ==
    task' = [task EXCEPT ![k] = [@ EXCEPT !.pc = pc, !.ids = ids, !.seen = seen, !.left = left]]
Return(k) == task' = [task EXCEPT ![k] = Idle]

\* bulkPut, put: rows appear, fresh.  bulkDelete: they go.
PutPosts(ids) == held' = held \cup ids /\ old' = old \ ids
DropPosts(ids) == held' = held \ ids /\ old' = old \ ids
PutFeed(r, ids) ==
    feeds' = feeds \cup {r} /\ oldFeeds' = oldFeeds \ {r} /\ list' = [list EXCEPT ![r] = ids]
DropFeeds(S) ==
    /\ feeds' = feeds \ S /\ oldFeeds' = oldFeeds \ S
    /\ list' = [r \in Routes |-> IF r \in S THEN {} ELSE list[r]]

ReadLists(S) == [r \in Routes |-> IF r \in S THEN list[r] ELSE {}]

\* Table.update changes a row that is there and never brings one back.
UpdateBlindly(r, ids) == list' = [list EXCEPT ![r] = ids] /\ UNCHANGED <<feeds, oldFeeds>>
UpdateFeed(r, ids) ==
    /\ list' = IF r \in feeds THEN [list EXCEPT ![r] = ids] ELSE list
    /\ UNCHANGED <<feeds, oldFeeds>>

-----------------------------------------------------------------------------
\* The calls.

Begin(k, kind, pc, r, ids) ==
    /\ At(k, "idle") /\ kind \in Kinds[k]
    /\ task' = [task EXCEPT ![k] = [Idle EXCEPT !.pc = pc, !.kind = kind, !.route = r, !.ids = ids]]
    /\ UNCHANGED <<rows, fences>>

StartFirstPage(k, r) == Begin(k, "first", "fetching", {r}, {})
StartNextPage(k, r) == Begin(k, "next", "fetching", {r}, {})
StartReadFeed(k, r) == Begin(k, "read", "lookup", {r}, {})
StartDelete(k, p) == Begin(k, "delete", "deleting", {}, {p})
StartTrim(k) == Begin(k, "trim", "trim", {}, {})

\* A page of a feed arrives; an empty one is not cached.
PageAnswered(k) ==
    /\ At(k, "fetching")
    /\ \/ \E ids \in SUBSET Posts \ {{}} : Read(k, "posts", ids, NoLists, {})
       \/ Return(k)
    /\ UNCHANGED <<rows, fences>>

\* setPosts: nothing behind the fence, else a put that may find no connection.
SetPosts(k) ==
    /\ At(k, "posts")
    /\ \/ Fenced(k) /\ Goto(k, "feed") /\ UNCHANGED postRows
       \/ ~Fenced(k) /\ PutPosts(task[k].ids) /\ Goto(k, "feed")
       \/ ~Fenced(k) /\ Goto(k, "reopen") /\ UNCHANGED postRows
    /\ UNCHANGED <<feedRows, fences>>

\* safeWrite reopens the database and repeats the put, whatever the fence says
\* by then, or drops it.
RetryPosts(k) ==
    /\ At(k, "reopen")
    /\ \/ PutPosts(task[k].ids)
       \/ UNCHANGED postRows
    /\ Goto(k, "feed")
    /\ UNCHANGED <<feedRows, fences>>

\* setFeedResource replaces the row after a first page; a failure rejects.
SetFeed(k) ==
    /\ At(k, "feed") /\ task[k].kind = "first"
    /\ \/ ~Fenced(k) /\ \E r \in task[k].route : PutFeed(r, task[k].ids)
       \/ UNCHANGED feedRows
    /\ Return(k)
    /\ UNCHANGED <<postRows, fences>>

\* appendToFeedResource reads the row, looks at the fence again, and writes
\* the union back.
AppendReads(k) ==
    /\ At(k, "feed") /\ task[k].kind = "next"
    /\ \/ ~Fenced(k) /\ Read(k, "append", task[k].ids, ReadLists(task[k].route), {})
       \/ Return(k)
    /\ UNCHANGED <<rows, fences>>

AppendUnfenced(k) == TRUE
MayAppend(k) == ~Fenced(k)

AppendWrites(k) ==
    /\ At(k, "append")
    /\ \/ MayAppend(k) /\ \E r \in task[k].route : PutFeed(r, task[k].seen[r] \cup task[k].ids)
       \/ UNCHANGED feedRows
    /\ Return(k)
    /\ UNCHANGED <<postRows, fences>>

\* getFeedResource deletes a row past its TTL, else touches it.
GetFeed(k) ==
    /\ At(k, "lookup")
    /\ \/ \E r \in task[k].route :
            \/ r \in oldFeeds /\ Goto(k, "expire")
            \/ r \in feeds \ oldFeeds /\ Read(k, "hydrate", list[r], NoLists, {})
       \/ Return(k)
    /\ UNCHANGED <<rows, fences>>

ExpireFeed(k) ==
    /\ At(k, "expire")
    /\ DropFeeds(task[k].route) \/ UNCHANGED feedRows
    /\ Return(k)
    /\ UNCHANGED <<postRows, fences>>

\* The touch is a Table.update too: the TTL stays, and no row comes back.
UpdatePosts(ids) == UNCHANGED postRows

\* getPosts: the rows found, then a touch of each.
GetPosts(k) ==
    /\ At(k, "hydrate")
    /\ \/ Read(k, "touch", task[k].ids \cap (held \ old), NoLists, {})
       \/ Return(k)
    /\ UNCHANGED <<rows, fences>>

TouchPosts(k) ==
    /\ At(k, "touch") /\ UpdatePosts(task[k].ids) /\ Return(k)
    /\ UNCHANGED <<feedRows, fences>>

-----------------------------------------------------------------------------
\* deletePost: the row goes, fence or no fence; then every feed that has it.

DeleteAnswered(k) ==
    /\ At(k, "deleting")
    /\ Goto(k, "drop") \/ Return(k)
    /\ UNCHANGED <<rows, fences>>

InvalidatePost(k) ==
    /\ At(k, "drop")
    /\ \/ DropPosts(task[k].ids) /\ Goto(k, "feeds")
       \/ UNCHANGED postRows /\ Goto(k, "redrop")
    /\ UNCHANGED <<feedRows, fences>>

RetryInvalidate(k) ==
    /\ At(k, "redrop")
    /\ DropPosts(task[k].ids) \/ UNCHANGED postRows
    /\ Goto(k, "feeds")
    /\ UNCHANGED <<feedRows, fences>>

Listing(ids) == {r \in feeds : ids \subseteq list[r]}

FeedsRead(k) ==
    /\ At(k, "feeds")
    /\ \/ ~Fenced(k) /\ Read(k, "listed", task[k].ids, ReadLists(Listing(task[k].ids)), Listing(task[k].ids))
       \/ Return(k)
    /\ UNCHANGED <<rows, fences>>

\* The fence is looked at after the read and not between the updates, which
\* write the list that was read without the post.
MayUnlist(k) == At(k, "unlist") \/ (At(k, "listed") /\ ~Fenced(k))

RemoveUlid(k) ==
    /\ MayUnlist(k)
    /\ \E r \in task[k].left :
        /\ UpdateFeed(r, task[k].seen[r] \ task[k].ids)
        /\ Read(k, "unlist", task[k].ids, task[k].seen, task[k].left \ {r})
    /\ UNCHANGED <<postRows, fences>>

\* All done, stopped by the fence, or an update rejects.
RemoveEnds(k) ==
    /\ At(k, "listed") \/ At(k, "unlist")
    /\ Return(k)
    /\ UNCHANGED <<rows, fences>>

-----------------------------------------------------------------------------
\* trimCache: the rows past their TTL and those beyond the capacity, as read.

Excess == {S \in SUBSET (held \ old) :
            Cardinality(S) + Capacity = Cardinality(held \ old) \/ S = {}}

TrimReads(k) ==
    /\ At(k, "trim")
    /\ \/ \E S \in Excess :
            /\ S = {} => Cardinality(held \ old) <= Capacity
            /\ Read(k, "evict", old \cup S, NoLists, {})
       \/ Return(k)
    /\ UNCHANGED <<rows, fences>>

TrimDeletes(k) ==
    /\ At(k, "evict")
    /\ \/ DropPosts(task[k].ids) /\ Goto(k, "trimFeeds")
       \/ UNCHANGED postRows /\ Return(k)
    /\ UNCHANGED <<feedRows, fences>>

TrimFeedsRead(k) ==
    /\ At(k, "trimFeeds")
    /\ \/ oldFeeds # {} /\ Read(k, "evictFeeds", {}, NoLists, oldFeeds)
       \/ Return(k)
    /\ UNCHANGED <<rows, fences>>

TrimFeeds(k) ==
    /\ At(k, "evictFeeds")
    /\ DropFeeds(task[k].left) \/ UNCHANGED feedRows
    /\ Return(k)
    /\ UNCHANGED <<postRows, fences>>

\* Time passes the TTL of a row.
AgePost(p) ==
    /\ p \in held \ old /\ old' = old \cup {p}
    /\ UNCHANGED <<held, feedRows, fences, task>>

AgeFeed(r) ==
    /\ r \in feeds \ oldFeeds /\ oldFeeds' = oldFeeds \cup {r}
    /\ UNCHANGED <<feeds, list, postRows, fences, task>>

-----------------------------------------------------------------------------
\* Sign-out, and the next session.

BeginSignOut(t) ==
    /\ t \in Leavers /\ ~signing[t] /\ wipe[t] = "no"
    /\ signing' = [signing EXCEPT ![t] = TRUE]
    /\ writesFenced' = [writesFenced EXCEPT ![t] = TRUE]
    /\ wipe' = [wipe EXCEPT ![t] = "fenced"]
    /\ mail' = Tabs \ {t}
    /\ UNCHANGED <<rows, sealed, task>>

RemoteSignOut(t) ==
    /\ t \in mail /\ mail' = mail \ {t}
    /\ writesFenced' = [writesFenced EXCEPT ![t] = TRUE]
    /\ UNCHANGED <<rows, signing, wipe, sealed, task>>

Emptied == /\ held' = {} /\ old' = {}
           /\ feeds' = {} /\ oldFeeds' = {} /\ list' = NoLists

\* A put that lost its connection before the fence went up is still to come.
Retrying == \E k \in Tasks : At(k, "reopen")

Wiped(t) ==
    /\ signing' = [signing EXCEPT ![t] = FALSE] /\ wipe' = [wipe EXCEPT ![t] = "no"]
    /\ sealed' = ((\A u \in Tabs : writesFenced[u]) /\ ~Retrying)
    /\ UNCHANGED <<writesFenced, mail, task>>

\* clearAll: every table, or some of them and an error.
ClearAll(t) ==
    /\ wipe[t] = "fenced"
    /\ Emptied /\ Wiped(t)

PartlyCleared ==
    \/ held' = {} /\ old' = {} /\ UNCHANGED feedRows
    \/ feeds' = {} /\ oldFeeds' = {} /\ list' = NoLists /\ UNCHANGED postRows
    \/ UNCHANGED rows

Recovers(t) == wipe' = [wipe EXCEPT ![t] = "recreate"] /\ UNCHANGED <<writesFenced, signing, mail, sealed, task>>

ClearFails(t) ==
    /\ wipe[t] = "fenced"
    /\ PartlyCleared
    /\ Recovers(t)

\* deleteAndRecreate: the database goes as a whole, or stays and the sign-out
\* rejects.
Recreate(t) ==
    /\ wipe[t] = "recreate"
    /\ Emptied /\ Wiped(t)

RecreateFails(t) ==
    /\ wipe[t] = "recreate"
    /\ signing' = [signing EXCEPT ![t] = FALSE] /\ wipe' = [wipe EXCEPT ![t] = "no"]
    /\ UNCHANGED <<rows, writesFenced, mail, sealed, task>>

\* awaitCapped gives the wipe up after five seconds: it lands later.
WipeCapped(t) ==
    /\ signing[t] /\ signing' = [signing EXCEPT ![t] = FALSE]
    /\ UNCHANGED <<rows, writesFenced, wipe, mail, sealed, task>>

\* setTokens lifts the fence for a session that no sign-out is ending.
SetTokens(t) ==
    /\ ~signing[t] /\ writesFenced[t]
    /\ writesFenced' = [writesFenced EXCEPT ![t] = FALSE]
    /\ sealed' = FALSE
    /\ UNCHANGED <<rows, signing, wipe, mail, task>>

-----------------------------------------------------------------------------
TaskStep(k) ==
    \/ \E r \in Routes : StartFirstPage(k, r) \/ StartNextPage(k, r) \/ StartReadFeed(k, r)
    \/ (\E p \in Posts : StartDelete(k, p)) \/ StartTrim(k)
    \/ PageAnswered(k) \/ SetPosts(k) \/ RetryPosts(k) \/ SetFeed(k) \/ AppendReads(k) \/ AppendWrites(k)
    \/ GetFeed(k) \/ ExpireFeed(k) \/ GetPosts(k) \/ TouchPosts(k)
    \/ DeleteAnswered(k) \/ InvalidatePost(k) \/ RetryInvalidate(k)
    \/ FeedsRead(k) \/ RemoveUlid(k) \/ RemoveEnds(k)
    \/ TrimReads(k) \/ TrimDeletes(k) \/ TrimFeedsRead(k) \/ TrimFeeds(k)

SignOut(t) ==
    \/ BeginSignOut(t) \/ RemoteSignOut(t) \/ ClearAll(t) \/ ClearFails(t)
    \/ Recreate(t) \/ RecreateFails(t) \/ WipeCapped(t) \/ SetTokens(t)

Next == \/ \E k \in Tasks : TaskStep(k)
        \/ \E t \in Tabs : SignOut(t)
        \/ (\E p \in Posts : AgePost(p)) \/ \E r \in Routes : AgeFeed(r)

Spec == Init /\ [][Next]_vars

-----------------------------------------------------------------------------
\* Type invariant: a row past its TTL is a row, a list belongs to one.
TypeOK ==
    /\ held \subseteq Posts /\ old \subseteq held
    /\ feeds \subseteq Routes /\ oldFeeds \subseteq feeds
    /\ list \in [Routes -> SUBSET Posts] /\ \A r \in Routes \ feeds : list[r] = {}
    /\ writesFenced \in [Tabs -> BOOLEAN] /\ signing \in [Tabs -> BOOLEAN]
    /\ wipe \in [Tabs -> {"no", "fenced", "recreate"}] /\ mail \subseteq Tabs
    /\ task \in [Tasks -> Task] /\ sealed \in BOOLEAN

\* Once a sign-out has wiped the database behind the fences of every instance,
\* and no put waits for a reopened connection, nothing of the ended session
\* comes back before a new session lifts a fence: not by a reply, an append, a
\* touch, a removal or a half-done wipe (fenceWrites, clearAll, touchPatch).
WipeIsFinal == sealed => held = {} /\ feeds = {}
=============================================================================
