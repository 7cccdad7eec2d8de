-------------------------------- MODULE Posts --------------------------------
(***************************************************************************)
(* How CcPlatformSdk (src/platformSdk.ts) fetches posts and their          *)
(* engagement: the debounced post batches, of which several may be out at  *)
(* once, the single-flight engagement requests, and the rows of the local  *)
(* cache that both read, merge into and replace.                           *)
(*                                                                         *)
(* Every asynchronous call runs in a slot c \in Callers and every action   *)
(* takes one call, or one request, from one await to the next.             *)
(***************************************************************************)
EXTENDS Naturals

CONSTANTS
    Posts,         \* post ULIDs
    Calls,         \* slots for concurrent calls of the host application
    Engine,        \* the slot of the batch an engagement request runs itself
    Flights,       \* bound: POST /v1/posts requests out at once
    Kinds,         \* [Calls -> SUBSET OpKinds]: the operations the host calls
    EmptyLists,    \* TRUE: fetchEngagement([]) is called
    MaxRev,        \* bound: revisions of a post (its updatedAt)
    MaxEng,        \* bound: changes of a post's engagement
    MaxTimers,     \* bound: engagement timers armed at once
    HashOf         \* what hashObject takes in of each state of the engagement

ASSUME BoundsAssumption == MaxRev \in Nat \ {0} /\ MaxEng \in Nat /\ MaxTimers \in Nat
ASSUME EngineAssumption == Engine \notin Calls
\* hashObject gives JSON.stringify the top-level keys as the only ones to write,
\* at every depth: a count inside postEngagement leaves the hash as it was.
ASSUME HashAssumption == HashOf \in [0..MaxEng -> 0..MaxEng]
OpKinds == {"batch", "get", "force", "delete", "engage", "react"}
ASSUME KindsAssumption == Kinds \in [Calls -> SUBSET OpKinds]

Callers == Calls \cup {Engine}

\* A cached post: the revision of its content, its updatedAt, its engagement
\* and its _engagementHash.
Row == [body : 1..MaxRev, stamp : 1..MaxRev, eng : 0..MaxEng, hash : 0..MaxEng]
NoRow == [body |-> 0, stamp |-> 0, eng |-> 0, hash |-> 0]
Rows == Row \cup {NoRow}

VARIABLES
    rev, eng, gone,   \* server: revision and engagement of each post, the deleted ones
    row,              \* the cached posts
    postQueue,        \* postBatchQueue
    postTimer,        \* postBatchTimer is armed
    waiting,          \* postPendingResolvers
    flight,           \* the post batches that were flushed
    spoiled,          \* ghost: callers whose last batch for a post got a reply
                      \* that is no list
    engQueue,         \* engagementBatchQueue
    engPending,       \* engagementPendingResolvers
    armed,            \* engagement timers that have not fired
    tracked,          \* engagementBatchTimer is one of them
    engine,           \* the engagement request, engagementInFlight while not idle
    call              \* the asynchronous calls

server == <<rev, eng, gone>>
postVars == <<postQueue, postTimer, waiting, flight, spoiled>>
engVars == <<engQueue, engPending, armed, tracked, engine>>
vars == <<server, row, postVars, engVars, call>>

Flight == [pc : {"idle", "out", "answered", "written", "failed"}, ids : SUBSET Posts,
           reply : [Posts -> Rows]]
EnginePCs == {"idle", "out", "failed", "merge", "put", "reload"}
Request == [pc : EnginePCs, ids : SUBSET Posts,
            callers : SUBSET Calls, data : [Posts -> Rows], left : SUBSET Posts,
            post : Posts \cup {Engine}, merged : Rows, reload : SUBSET Posts, changed : SUBSET Posts]
PCs == {"idle", "lookup", "cache", "waiting", "direct", "store", "delete", "unrow",
        "reacting", "refresh", "engagement", "touch", "touched"}
Call == [pc : PCs, kind : OpKinds \cup {"none", "reload"}, ids : SUBSET Posts, row : Rows,
         seen : [Posts -> 0..MaxEng]]

NoRows == [p \in Posts |-> NoRow]
NoFlight == [pc |-> "idle", ids |-> {}, reply |-> NoRows]
NoRequest == [pc |-> "idle", ids |-> {}, callers |-> {}, data |-> NoRows, left |-> {},
              post |-> Engine, merged |-> NoRow, reload |-> {}, changed |-> {}]
Idle == [pc |-> "idle", kind |-> "none", ids |-> {}, row |-> NoRow, seen |-> [p \in Posts |-> 0]]

Init ==
    /\ rev = [p \in Posts |-> 1] /\ eng = [p \in Posts |-> 0] /\ gone = {}
    /\ row = NoRows /\ postQueue = {} /\ postTimer = FALSE
    /\ waiting = [p \in Posts |-> {}] /\ flight = [f \in Flights |-> NoFlight]
    /\ spoiled = [p \in Posts |-> {}]
    /\ engQueue = {} /\ engPending = {} /\ armed = 0 /\ tracked = FALSE /\ engine = NoRequest
    /\ call = [c \in Callers |-> Idle]

At(c, pc) == call[c].pc = pc

Goto(c, pc) == call' = [call EXCEPT ![c].pc = pc]

Return(c) == call' = [call EXCEPT ![c] = Idle]

\* What the server answers about a post, normalised as the SDK caches it.
Served(p) == IF p \in gone THEN NoRow
             ELSE [body |-> rev[p], stamp |-> rev[p], eng |-> eng[p], hash |-> HashOf[eng[p]]]

\* A read of the cache: nothing, when IndexedDB stays away after a reopen.
Reads(p) == {row[p], NoRow}

\* A write of the cache is dropped by the fence or when IndexedDB stays away.
Store(new) == row' = new \/ UNCHANGED row

-----------------------------------------------------------------------------
\* fetchPostsBatch, getPostByUlid, deletePost.

Begin(c, kind, pc, ids) ==
    /\ kind \in Kinds[c] /\ At(c, "idle")
    /\ call' = [call EXCEPT ![c] = [Idle EXCEPT !.pc = pc, !.kind = kind, !.ids = ids]]
    /\ UNCHANGED <<server, row, postVars, engVars>>

StartBatch(c) == \E ids \in (SUBSET Posts) \ {{}} : Begin(c, "batch", "cache", ids)
StartGet(c) == \E p \in Posts : Begin(c, "get", "lookup", {p})
StartForce(c) == \E p \in Posts : Begin(c, "force", "direct", {p})
StartDelete(c) == \E p \in Posts : Begin(c, "delete", "delete", {p})

\* getPostByUlid looks the post up before it joins a batch.
Lookup(c) ==
    /\ At(c, "lookup")
    /\ \E p \in call[c].ids : \E cached \in Reads(p) :
         IF cached # NoRow THEN Return(c) ELSE Goto(c, "cache")
    /\ UNCHANGED <<server, row, postVars, engVars>>

TimerKept == UNCHANGED postTimer

ArmTimer == postTimer' = TRUE

\* Hits are answered from the cache, the rest join the next batch.
ReadCache(c) ==
    /\ At(c, "cache")
    /\ \E missing \in {call[c].ids, {p \in call[c].ids : row[p] = NoRow}} :
         IF missing = {}
         THEN Return(c) /\ UNCHANGED postVars
         ELSE /\ postQueue' = postQueue \cup missing
              /\ waiting' = [p \in Posts |-> IF p \in missing THEN waiting[p] \cup {c} ELSE waiting[p]]
              /\ ArmTimer
              /\ call' = [call EXCEPT ![c].pc = "waiting", ![c].ids = missing]
              /\ UNCHANGED <<flight, spoiled>>
    /\ UNCHANGED <<server, row, engVars>>

\* forceRefresh bypasses the batch: a request of its own, then the row.
ForceAnswered(c) ==
    /\ At(c, "direct")
    /\ \/ /\ \E p \in call[c].ids : IF p \in gone THEN Return(c)
                                    ELSE call' = [call EXCEPT ![c].pc = "store", ![c].row = Served(p)]
       \/ Return(c)
    /\ UNCHANGED <<server, row, postVars, engVars>>

ForceStores(c) ==
    /\ At(c, "store")
    /\ Store([p \in Posts |-> IF p \in call[c].ids THEN call[c].row ELSE row[p]])
    /\ Return(c)
    /\ UNCHANGED <<server, postVars, engVars>>

DeleteAnswered(c) ==
    /\ At(c, "delete")
    /\ \/ gone' = gone \cup call[c].ids /\ Goto(c, "unrow")
       \/ UNCHANGED gone /\ Return(c)
    /\ UNCHANGED <<rev, eng, row, postVars, engVars>>

DeleteUncaches(c) ==
    /\ At(c, "unrow")
    /\ Store([p \in Posts |-> IF p \in call[c].ids THEN NoRow ELSE row[p]])
    /\ Return(c)
    /\ UNCHANGED <<server, postVars, engVars>>

-----------------------------------------------------------------------------
\* flushPostBatch: each flush is a flight of its own; all share the resolvers.

FlushPosts(f) ==
    /\ postTimer /\ flight[f].pc = "idle"
    /\ flight' = [flight EXCEPT ![f] = [NoFlight EXCEPT !.pc = "out", !.ids = postQueue]]
    /\ postQueue' = {} /\ postTimer' = FALSE
    /\ UNCHANGED <<server, row, waiting, spoiled, engVars, call>>

\* Nobody else is to fetch p.
LastHope(f, p) == p \in flight[f].ids /\ p \notin postQueue
                  /\ \A g \in Flights \ {f} : p \notin flight[g].ids

\* A reply that is no list: the flush returns and settles none of its resolvers.
PostsSpoiled(f) ==
    /\ flight[f].pc = "out"
    /\ flight' = [flight EXCEPT ![f] = NoFlight]
    /\ spoiled' = [p \in Posts |-> IF LastHope(f, p) THEN waiting[p] ELSE spoiled[p]]
    /\ UNCHANGED <<server, row, postQueue, postTimer, waiting, engVars, call>>

PostsAnswered(f) ==
    /\ flight[f].pc = "out"
    /\ \/ flight' = [flight EXCEPT ![f].pc = "answered",
                     ![f].reply = [p \in Posts |-> IF p \in flight[f].ids THEN Served(p) ELSE NoRow]]
       \/ flight' = [flight EXCEPT ![f].pc = "failed"]
    /\ UNCHANGED <<server, row, postQueue, postTimer, waiting, spoiled, engVars, call>>

\* cache.setPosts: the rows are replaced, or dropped, or IndexedDB throws.
PostsCached(f) ==
    /\ flight[f].pc = "answered"
    /\ \/ /\ Store([p \in Posts |-> IF flight[f].reply[p] # NoRow THEN flight[f].reply[p] ELSE row[p]])
          /\ flight' = [flight EXCEPT ![f].pc = "written"]
       \/ UNCHANGED row /\ flight' = [flight EXCEPT ![f].pc = "failed"]
    /\ UNCHANGED <<server, postQueue, postTimer, waiting, spoiled, engVars, call>>

SettleServed(f) == {p \in flight[f].ids : flight[f].pc = "written"}

\* Every resolver of a post of the batch is resolved or rejected, and a call
\* whose last post is settled returns.
SettleIds(f) == flight[f].ids

PostsSettled(f) ==
    LET left(c) == {p \in call[c].ids : p \notin SettleIds(f) \/ c \notin waiting[p]} IN
    /\ flight[f].pc \in {"written", "failed"}
    /\ call' = [c \in Callers |-> IF ~At(c, "waiting") THEN call[c]
                                  ELSE IF left(c) = {} THEN Idle
                                  ELSE [call[c] EXCEPT !.ids = left(c)]]
    /\ waiting' = [p \in Posts |-> IF p \in SettleIds(f) THEN {} ELSE waiting[p]]
    /\ spoiled' = [p \in Posts |-> IF p \in SettleIds(f) THEN {} ELSE spoiled[p]]
    /\ flight' = [flight EXCEPT ![f] = NoFlight]
    /\ UNCHANGED <<server, row, postQueue, postTimer, engVars>>

-----------------------------------------------------------------------------
\* fetchEngagement and refreshPostEngagement: join the queue, arm the timer.

NeverCleared == armed' = armed + 1

\* The timer that is tracked is replaced; one that is not stays.
Debounce == armed' = IF tracked THEN armed ELSE armed + 1

Ask(c, kind, ids) ==
    /\ tracked \/ armed < MaxTimers
    /\ engQueue' = engQueue \cup ids
    /\ engPending' = engPending \cup {c}
    /\ Debounce
    /\ tracked' = TRUE
    /\ call' = [call EXCEPT ![c] = [Idle EXCEPT !.pc = "engagement", !.kind = kind, !.ids = ids,
                                                !.seen = eng]]
    /\ UNCHANGED <<server, row, postVars, engine>>

FetchEngagement(c) ==
    /\ "engage" \in Kinds[c] /\ At(c, "idle")
    /\ \E ids \in SUBSET Posts : (EmptyLists \/ ids # {}) /\ Ask(c, "engage", ids)

\* addReaction, bookmarkPost, sharePost, upvotePost: the write, then the refresh.
StartReact(c) == \E p \in Posts : Begin(c, "react", "reacting", {p})

ReactAnswered(c) ==
    /\ At(c, "reacting")
    /\ \/ /\ \A p \in call[c].ids : p \notin gone /\ eng[p] < MaxEng
          /\ eng' = [p \in Posts |-> IF p \in call[c].ids THEN eng[p] + 1 ELSE eng[p]]
          /\ Goto(c, "refresh")
       \/ UNCHANGED eng /\ Return(c)
    /\ UNCHANGED <<rev, gone, row, postVars, engVars>>

RefreshAsks(c) == At(c, "refresh") /\ Ask(c, "react", call[c].ids)

-----------------------------------------------------------------------------
\* flushEngagementBatch and executeEngagementFetch.

\* What a flush captures; with no post asked for there is nothing to send.
Launch ==
    /\ engQueue' = {} /\ engPending' = {} /\ tracked' = FALSE
    /\ engine' = IF engQueue = {} THEN NoRequest
                 ELSE [NoRequest EXCEPT !.pc = "out", !.ids = engQueue, !.callers = engPending]

JoinsRunning == engine' = [engine EXCEPT !.callers = @ \cup engPending]

LeavesRunning == UNCHANGED engine

TimerFires ==
    /\ armed > 0
    /\ armed' = armed - 1
    /\ IF engine.pc = "idle"
       THEN /\ Launch
            /\ call' = [c \in Callers |-> IF engQueue = {} /\ c \in engPending THEN Idle ELSE call[c]]
       ELSE /\ LeavesRunning
            /\ tracked' = (tracked /\ armed > 1)
            /\ UNCHANGED <<engQueue, engPending, call>>
    /\ UNCHANGED <<server, row, postVars>>

EngagementAnswered ==
    LET served == {p \in engine.ids : p \notin gone} IN
    /\ engine.pc = "out"
    /\ \/ engine' = [engine EXCEPT !.pc = "merge", !.left = served,
                      !.data = [p \in Posts |-> IF p \in served THEN Served(p) ELSE NoRow]]
       \/ engine' = [engine EXCEPT !.pc = "failed"]
    /\ UNCHANGED <<server, row, postVars, engQueue, engPending, armed, tracked, call>>

\* One post of the answer: reload it if its updatedAt moved, skip it if its
\* hash did not, else merge the engagement into the row that was read.
MergePost(p) ==
    LET new == engine.data[p]  rest == engine.left \ {p} IN
    /\ engine.pc = "merge" /\ p \in engine.left
    /\ \E old \in Reads(p) : engine' =
         IF old # NoRow /\ old.stamp # new.stamp
         THEN [engine EXCEPT !.left = rest, !.reload = @ \cup {p}, !.changed = @ \cup {p}]
         ELSE IF old # NoRow /\ old.hash = new.hash
         THEN [engine EXCEPT !.left = rest]
         ELSE IF old = NoRow
         THEN [engine EXCEPT !.left = rest, !.changed = @ \cup {p}]
         ELSE [engine EXCEPT !.left = rest, !.changed = @ \cup {p}, !.pc = "put", !.post = p,
                             !.merged = [old EXCEPT !.eng = new.eng, !.hash = HashOf[new.eng]]]
    /\ UNCHANGED <<server, row, postVars, engQueue, engPending, armed, tracked, call>>

MergeStores ==
    /\ engine.pc = "put"
    /\ Store([row EXCEPT ![engine.post] = engine.merged])
    /\ engine' = [engine EXCEPT !.pc = "merge", !.post = Engine, !.merged = NoRow]
    /\ UNCHANGED <<server, postVars, engQueue, engPending, armed, tracked, call>>

\* The posts that changed are fetched in full, by fetchPostsBatch.
ReloadPosts ==
    /\ engine.pc = "merge" /\ engine.left = {} /\ engine.reload # {}
    /\ engine' = [engine EXCEPT !.pc = "reload"]
    /\ call' = [call EXCEPT ![Engine] = [Idle EXCEPT !.pc = "cache", !.kind = "reload",
                                                     !.ids = engine.reload]]
    /\ UNCHANGED <<server, row, postVars, engQueue, engPending, armed, tracked>>

\* IndexedDB throws, to a call or to the engagement request and its batch.
CacheThrows(c) ==
    /\ call[c].pc \in {"lookup", "cache", "store", "unrow", "touch", "touched"}
    /\ Return(c)
    /\ UNCHANGED <<server, row, postVars, engVars>>

EngineThrows ==
    /\ \/ (engine.pc = "put" \/ (engine.pc = "merge" /\ engine.left # {})) /\ UNCHANGED call
       \/ At(Engine, "cache") /\ Return(Engine)
    /\ engine' = [engine EXCEPT !.pc = "failed"]
    /\ UNCHANGED <<server, row, postVars, engQueue, engPending, armed, tracked>>

NoMoreQueued == FALSE

MoreQueued == engQueue # {}

Lands ==
    IF MoreQueued THEN Launch
    ELSE engine' = NoRequest /\ UNCHANGED <<engQueue, engPending, tracked>>

\* The request lands: its callers are resolved, and what was queued meanwhile
\* is flushed at once.  A refresh goes on to merge what changed.
EngagementLands ==
    LET Resolved(c) == IF call[c].kind = "react" /\ call[c].ids \subseteq engine.changed
                       THEN [call[c] EXCEPT !.pc = "touch"] ELSE Idle
    IN
    /\ \/ engine.pc = "merge" /\ engine.left = {} /\ engine.reload = {}
       \/ engine.pc = "reload" /\ At(Engine, "idle")
    /\ call' = [c \in Callers |->
                  IF c \in engine.callers
                  THEN [Resolved(c) EXCEPT !.row = IF Resolved(c) = Idle THEN NoRow
                                                   ELSE engine.data[CHOOSE p \in call[c].ids : TRUE]]
                  ELSE call[c]]
    /\ Lands
    /\ UNCHANGED <<server, row, postVars, armed>>

EngagementRejects ==
    /\ engine.pc = "failed"
    /\ call' = [c \in Callers |-> IF c \in engine.callers THEN Idle ELSE call[c]]
    /\ Lands
    /\ UNCHANGED <<server, row, postVars, armed>>

\* updateCachedEngagement: read the row, spread the answer over it (its
\* updatedAt included, its hash not), write it back.
TouchReads(c) ==
    /\ At(c, "touch")
    /\ \E p \in call[c].ids : \E cached \in Reads(p) :
         IF cached = NoRow THEN Return(c)
         ELSE call' = [call EXCEPT ![c].pc = "touched",
                                   ![c].row = [cached EXCEPT !.stamp = call[c].row.stamp,
                                                             !.eng = call[c].row.eng]]
    /\ UNCHANGED <<server, row, postVars, engVars>>

TouchStores(c) ==
    /\ At(c, "touched")
    /\ Store([p \in Posts |-> IF p \in call[c].ids THEN call[c].row ELSE row[p]])
    /\ Return(c)
    /\ UNCHANGED <<server, postVars, engVars>>

-----------------------------------------------------------------------------
\* The author edits the post; a row passes its TTL or is trimmed.

Edit(p) ==
    /\ p \notin gone /\ rev[p] < MaxRev
    /\ rev' = [rev EXCEPT ![p] = @ + 1]
    /\ UNCHANGED <<eng, gone, row, postVars, engVars, call>>

Expires(p) ==
    /\ row[p] # NoRow
    /\ row' = [row EXCEPT ![p] = NoRow]
    /\ UNCHANGED <<server, postVars, engVars, call>>

Start(c) == StartBatch(c) \/ StartGet(c) \/ StartForce(c) \/ StartDelete(c)
            \/ FetchEngagement(c) \/ StartReact(c)

CallStep(c) == ForceAnswered(c) \/ ForceStores(c) \/ DeleteAnswered(c) \/ DeleteUncaches(c)
               \/ Lookup(c) \/ ReactAnswered(c) \/ RefreshAsks(c) \/ TouchReads(c) \/ TouchStores(c)
               \/ CacheThrows(c)

FlightStep(f) == PostsAnswered(f) \/ PostsSpoiled(f) \/ PostsCached(f) \/ PostsSettled(f)

EngineStep == EngagementAnswered \/ (\E p \in Posts : MergePost(p)) \/ MergeStores \/ ReloadPosts
              \/ EngineThrows \/ EngagementLands \/ EngagementRejects

Next == \/ \E c \in Calls : Start(c) \/ CallStep(c)
        \/ \E c \in Callers : ReadCache(c)
        \/ \E f \in Flights : FlushPosts(f) \/ FlightStep(f)
        \/ TimerFires \/ EngineStep
        \/ \E p \in Posts : Edit(p) \/ Expires(p)

Spec == Init /\ [][Next]_vars

\* Timers fire, requests are answered or fail, IndexedDB comes back.
LiveSpec ==
    /\ Spec
    /\ \A c \in Calls : WF_vars(CallStep(c))
    /\ \A c \in Callers : WF_vars(ReadCache(c))
    /\ \A f \in Flights : WF_vars(FlightStep(f))
    /\ WF_vars(\E f \in Flights : FlushPosts(f))
    /\ WF_vars(TimerFires) /\ WF_vars(EngineStep)

-----------------------------------------------------------------------------
\* Properties

\* The queues, requests, rows and calls have their types.
TypeOK ==
    /\ rev \in [Posts -> 1..MaxRev] /\ eng \in [Posts -> 0..MaxEng] /\ gone \in SUBSET Posts
    /\ row \in [Posts -> Rows]
    /\ postQueue \in SUBSET Posts /\ postTimer \in BOOLEAN
    /\ waiting \in [Posts -> SUBSET Callers] /\ spoiled \in [Posts -> SUBSET Callers]
    /\ flight \in [Flights -> Flight]
    /\ engQueue \in SUBSET Posts /\ engPending \in SUBSET Calls
    /\ armed \in 0..MaxTimers /\ tracked \in BOOLEAN
    /\ engine \in Request /\ call \in [Callers -> Call]

InFlight(p) == \E f \in Flights : flight[f].pc # "idle" /\ p \in flight[f].ids

\* No resolver is orphaned: whoever waits for a post is served by the batch
\* whose timer runs or by one that is out, whichever of the concurrent batches
\* lands first and however it ends (fetchPostsBatch, flushPostBatch).  The one
\* exception is a reply that is no list: who waited for it then waits for the
\* next call that asks for the post.
NobodyForgotten ==
    \A p \in Posts :
        waiting[p] \ spoiled[p] # {} => (p \in postQueue /\ postTimer) \/ InFlight(p)

\* No engagement caller is orphaned: whoever joined the queue while a request
\* was out and its own timer was spent on it is flushed when that lands
\* (flushEngagementBatch).
EngagementAttended ==
    engPending # {} => armed > 0 \/ (engine.pc # "idle" /\ engQueue # {})

\* Engagement that is answered is not older than the question: a caller that
\* joined while a request was out is answered by a later one, for all the
\* posts it asked about, so a reaction is followed by its own count.
AnsweredByLaterRequest ==
    [][\A c \in Calls :
        At(c, "engagement") /\ call'[c].pc # "engagement" /\ engine.pc \in {"merge", "reload"}
        => /\ call[c].ids \subseteq engine.ids
           /\ \A p \in call[c].ids : engine.data[p] = NoRow \/ engine.data[p].eng >= call[c].seen[p]]_vars

\* The call waits for a post of a spoiled batch, or for the engagement request
\* that does.
Stuck(c) ==
    \/ At(c, "waiting") /\ \E p \in Posts : c \in spoiled[p]
    \/ At(c, "engagement") /\ \E p \in Posts : Engine \in spoiled[p]

\* Every call settles, whatever fails and whoever it shares its requests with,
\* unless a reply that is no list leaves it waiting.
CallsSettle == \A c \in Calls : ~At(c, "idle") ~> At(c, "idle") \/ Stuck(c)
=============================================================================
