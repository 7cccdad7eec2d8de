------------------------------- MODULE Session -------------------------------
(***************************************************************************)
(* The session life cycle of CcPlatformSdk (src/platformSdk.ts): several   *)
(* SDK instances (browser tabs, or profiles in one tab) that share session *)
(* stores, a sign-out broadcast and an authorization server that rotates   *)
(* refresh tokens.                                                         *)
(*                                                                         *)
(* Every asynchronous call of the SDK is an operation p \in Ops of the     *)
(* instance TabOf[p].  op[p].pc names the await the call is suspended at;  *)
(* each action runs one instance from one await to the next, which is the  *)
(* unit a JavaScript thread executes without interruption.                 *)
(***************************************************************************)
EXTENDS Naturals, FiniteSets

CONSTANTS
    Tabs,           \* SDK instances
    Ops,            \* slots for concurrent asynchronous calls
    TabOf,          \* [Ops -> Tabs]: the instance a call runs in
    Threads,        \* [Tabs -> thread]: instances of one page share a thread
    Stores,         \* session stores
    StoreOf,        \* [Tabs -> Stores]: localStorage is shared, memory is not
    Users,          \* accounts
    Accounts,       \* [Tabs -> SUBSET Users]: who signs in at an instance
    Kinds,          \* [Ops -> SUBSET OpKinds]: what the host calls in each slot
    SlowStore,      \* TRUE: store calls take time; FALSE: they settle in a microtask
    StoreMayFail,   \* TRUE: a load, a save or a clear of the store may reject
    RefreshOnly,    \* TRUE: the host's store keeps the refresh token alone
    CookieMode,     \* useRefreshCookie, on a host that prefers the cookie
    Rejections,     \* how the server words a rejection: "invalid_grant", "unauthenticated"
    LostReplies,    \* TRUE: a rotation may be done and its reply lost
    SettleCap,      \* TRUE: sign-out may stop waiting for a refresh (2 s)
    Overlap,        \* TRUE: the host may sign out again while a sign-out runs
    WipeCap,        \* TRUE: sign-out may stop waiting for the store (5 s)
    MaxEpoch,       \* bound: sign-outs an instance sees
    MaxGrant,       \* bound: refresh tokens the server issues
    MaxLogin,       \* bound: successful logins
    MaxReload,      \* bound: page reloads
    None

OpKinds == {"refresh", "restore", "login", "clear", "logout", "delete"}

ASSUME TabsAssumption == TabOf \in [Ops -> Tabs]
ASSUME StoresAssumption == StoreOf \in [Tabs -> Stores]
ASSUME AccountsAssumption == Accounts \in [Tabs -> SUBSET Users]
ASSUME BoundsAssumption == /\ MaxEpoch \in Nat /\ MaxGrant \in Nat
                           /\ MaxLogin \in Nat /\ MaxReload \in Nat
ASSUME NoneAssumption ==
    LET Issued == [user : Users, login : 1..MaxLogin] IN
    /\ None \notin Ops \cup Issued
    /\ None \notin [user : Users, login : 1..MaxLogin, grant : 1..MaxGrant, bearer : Issued \cup {None}]
ASSUME KindsAssumption == Kinds \in [Ops -> SUBSET OpKinds]
ASSUME RejectionsAssumption == Rejections \subseteq {"invalid_grant", "unauthenticated"}

\* A token pair.  login identifies the sign-in its refresh token descends from,
\* grant that token; the bearer is known by its user and its own sign-in, and is
\* missing from what a store that keeps the refresh token alone gives back.
Bearer == [user : Users, login : 1..MaxLogin]
Session == {s \in [user : Users, login : 1..MaxLogin, grant : 1..MaxGrant, bearer : Bearer \cup {None}] :
              ~RefreshOnly => s.bearer = [user |-> s.user, login |-> s.login]}
Maybe == Session \cup {None}

Pair(u, l, g) == [user |-> u, login |-> l, grant |-> g, bearer |-> [user |-> u, login |-> l]]

VARIABLES
    tok,         \* the token provider of each instance
    store,       \* the persisted session of each store
    epoch,       \* signOutEpoch
    signingOut,  \* signOutInProgress
    remoteOut,   \* remoteSignedOut
    slot,        \* refreshSessionInFlight: the operation that owns it, or None
    fence,       \* CacheDB.writesFenced
    fencing,     \* a fenceWrites callback waits on cachePromise
    unfencing,   \* an unfenceWrites callback of this epoch waits on cachePromise
    late,        \* instances with a clearTokens nobody awaits any more
    mail,        \* sign-out broadcasts on their way to each instance
    op,          \* the asynchronous calls
    live,        \* server: refresh tokens that are valid
    issued,      \* server: refresh tokens issued so far
    logins,      \* server: sign-ins so far
    cookie,      \* browser: the session the refresh cookie names
    reloads,
    ended,       \* ghost: the sign-ins a sign-out of the instance ended
    strayed,     \* ghost: those of them that the store gave back, or would not give up
    installedAt  \* ghost: the epoch in which tokens were last installed

sdkVars == <<tok, epoch, signingOut, remoteOut, slot, fence, fencing, unfencing, ended, strayed, installedAt>>
serverVars == <<live, issued, logins, cookie>>
vars == <<tok, store, epoch, signingOut, remoteOut, slot, fence, fencing, unfencing,
          late, mail, op, live, issued, logins, cookie, reloads, ended, strayed, installedAt>>

PCs == {"idle", "load", "loaded", "post", "granted", "unavailable", "blip", "offline",
        "invalid_grant", "unauthenticated", "poll", "polled", "sleep", "save", "saved",
        "undo", "clear", "login", "delete", "settle", "revoke", "wipe", "wipeCache"}

OpState == [pc : PCs, kind : OpKinds \cup {"none"}, e0 : 0..MaxEpoch, eu : 0..MaxEpoch,
            held : Maybe, got : Maybe, tries : 0..2, note : {"first", "retried5xx", "retriedBlip"}]

Idle == [pc |-> "idle", kind |-> "none", e0 |-> 0, eu |-> 0, held |-> None, got |-> None,
         tries |-> 0, note |-> "first"]

Init ==
    /\ tok = [t \in Tabs |-> None] /\ store = [s \in Stores |-> None]
    /\ epoch = [t \in Tabs |-> 0] /\ signingOut = [t \in Tabs |-> FALSE]
    /\ remoteOut = [t \in Tabs |-> FALSE] /\ slot = [t \in Tabs |-> None]
    /\ fence = [t \in Tabs |-> FALSE] /\ fencing = [t \in Tabs |-> FALSE]
    /\ unfencing = [t \in Tabs |-> FALSE] /\ late = {} /\ mail = [t \in Tabs |-> 0]
    /\ op = [p \in Ops |-> Idle] /\ live = {} /\ issued = 0 /\ logins = 0 /\ cookie = None
    /\ reloads = 0 /\ ended = [t \in Tabs |-> {}] /\ strayed = ended /\ installedAt = [t \in Tabs |-> 0]

-----------------------------------------------------------------------------
\* Scheduling.  A store that answers in a microtask leaves no room for another
\* task of the same thread between the call and its continuation.

StorePCs == {"load", "loaded", "poll", "polled", "save", "saved", "undo", "clear", "wipe"}

Free(t) ==
    SlowStore \/ ( /\ \A p \in Ops : Threads[TabOf[p]] = Threads[t] => op[p].pc \notin StorePCs
                   /\ \A u \in late : Threads[u] # Threads[t] )

At(p, pc) == op[p].pc = pc

Goto(p, pc) == op' = [op EXCEPT ![p].pc = pc]

\* The call returns: refreshTokenOrThrow's finally clears its own slot only.
Return(p) ==
    /\ op' = [op EXCEPT ![p] = Idle]
    /\ slot' = [slot EXCEPT ![TabOf[p]] = IF @ = p THEN None ELSE @]

\* setTokens(): install or drop the tokens; an install schedules the unfence.
SetTokens(t, s) ==
    /\ tok' = [tok EXCEPT ![t] = s]
    /\ unfencing' = [unfencing EXCEPT ![t] = @ \/ s # None]
    /\ installedAt' = [installedAt EXCEPT ![t] = IF s # None THEN epoch[t] ELSE @]

\* updateSession(s) up to its first await.
BeginUpdate(p, s) ==
    /\ SetTokens(TabOf[p], s)
    /\ op' = [op EXCEPT ![p] = [Idle EXCEPT !.pc = "save", !.kind = op[p].kind, !.e0 = op[p].e0,
                                            !.eu = epoch[TabOf[p]], !.got = s]]

\* clearSession() up to its first await.
BeginClear(p) ==
    /\ SetTokens(TabOf[p], None)
    /\ op' = [op EXCEPT ![p] = [Idle EXCEPT !.pc = "clear", !.kind = op[p].kind, !.e0 = op[p].e0]]

-----------------------------------------------------------------------------
\* What a sign-out ended, and how it comes back.

Logins(s) == IF s = None THEN {}
             ELSE {s.login} \cup {b.login : b \in {s.bearer} \ {None}}

\* A sign-out that has not dropped the tokens yet.
Ending(t) == \E p \in Ops : TabOf[p] = t /\ op[p].pc \in {"settle", "revoke"}

\* The store hands s to an instance that signed out of it ...
Strays(t, s) == strayed' = [strayed EXCEPT ![t] = @ \cup (Logins(s) \cap ended[t])]

\* ... or rejects a clear and keeps what it holds.
Kept(t) == strayed' = [strayed EXCEPT ![t] = @ \cup (Logins(store[StoreOf[t]]) \cap ended[t])]

-----------------------------------------------------------------------------
\* Restoring and refreshing: restoreStoredSession, refreshTokenOrThrow and
\* performRefreshToken.

StartRestore(p) ==
    LET t == TabOf[p] IN
    /\ "restore" \in Kinds[p] /\ At(p, "idle") /\ Free(t)
    /\ op' = [op EXCEPT ![p] = [Idle EXCEPT !.pc = "load", !.kind = "restore", !.held = tok[t]]]
    /\ UNCHANGED <<sdkVars, serverVars, store, late, mail, reloads>>

MayRefreshTwice(t) == ~signingOut[t] /\ ~remoteOut[t]

MayRefresh(t) == slot[t] = None /\ ~signingOut[t] /\ ~remoteOut[t]

AnyEpoch(p) == TRUE

SameEpoch(p) == epoch[TabOf[p]] = op[p].e0

\* A caller that finds the slot taken joins it: no step of its own.
StartRefresh(p) ==
    LET t == TabOf[p] IN
    /\ "refresh" \in Kinds[p] /\ At(p, "idle") /\ Free(t)
    /\ MayRefresh(t)
    /\ slot' = [slot EXCEPT ![t] = p]
    /\ op' = [op EXCEPT ![p] = [Idle EXCEPT !.pc = "load", !.kind = "refresh",
                                            !.e0 = epoch[t], !.held = tok[t]]]
    /\ UNCHANGED <<serverVars, store, late, mail, reloads, tok, epoch, signingOut, remoteOut,
                   fence, fencing, unfencing, ended, strayed, installedAt>>

LoadRead(p) ==
    /\ At(p, "load")
    /\ op' = [op EXCEPT ![p].pc = "loaded", ![p].got = store[StoreOf[TabOf[p]]]]
    /\ UNCHANGED <<sdkVars, serverVars, store, late, mail, reloads>>

\* What restoreStoredSession resolves to (mergeStoredSession): a stored pair wins
\* over the tokens that were in memory when the load was issued; beside a stored
\* refresh token that comes without a bearer, the bearer of that moment stays.
Restored(o) ==
    IF o.got = None THEN o.held
    ELSE IF o.got.bearer # None \/ o.held = None THEN o.got
    ELSE [o.got EXCEPT !.bearer = o.held.bearer]

LoadResume(p) ==
    LET t == TabOf[p]  o == op[p]  s == Restored(o) IN
    /\ At(p, "loaded")
    /\ IF s # o.held THEN SetTokens(t, s) ELSE UNCHANGED <<tok, unfencing, installedAt>>
    /\ IF s # o.held /\ ~Ending(t) THEN Strays(t, s) ELSE UNCHANGED strayed
    /\ IF o.kind = "refresh" /\ (s # None \/ CookieMode)
       THEN /\ op' = [op EXCEPT ![p].pc = "post", ![p].held = s, ![p].got = None]
            /\ UNCHANGED slot
       ELSE Return(p)
    /\ UNCHANGED <<serverVars, store, late, mail, reloads, epoch, signingOut, remoteOut,
                   fence, fencing, ended>>

\* sameSubject(): a missing bearer cannot be compared and counts as a match.
SameSubject(a, b) == a = None \/ a.bearer = None \/ a.bearer.user = b.bearer.user

RefreshGranted(p) ==
    LET t == TabOf[p]  o == op[p] IN
    /\ At(p, "granted") /\ o.kind = "refresh" /\ Free(t)
    /\ IF SameEpoch(p) /\ SameSubject(o.held, o.got)
       THEN BeginUpdate(p, o.got) /\ UNCHANGED slot
       ELSE Return(p) /\ UNCHANGED <<tok, unfencing, installedAt>>
    /\ UNCHANGED <<serverVars, store, late, mail, reloads, epoch, signingOut, remoteOut,
                   fence, fencing, ended, strayed>>

\* One retry on a 5xx, one on a 401 no API would send.
RefreshRetry(p) ==
    /\ op[p].pc \in {"unavailable", "blip"} /\ op[p].note = "first" /\ Free(TabOf[p])
    /\ op' = [op EXCEPT ![p].pc = "post",
                        ![p].note = IF At(p, "blip") THEN "retriedBlip" ELSE "retried5xx"]
    /\ UNCHANGED <<sdkVars, serverVars, store, late, mail, reloads>>

\* The transient ends: null.  Whatever a 5xx retry answers is swallowed.
RefreshGivesUp(p) ==
    /\ \/ At(p, "offline")
       \/ op[p].pc \in {"unavailable", "blip"} /\ op[p].note # "first"
       \/ op[p].pc \in {"invalid_grant", "unauthenticated"} /\ op[p].note = "retried5xx"
    /\ Free(TabOf[p])
    /\ Return(p)
    /\ UNCHANGED <<serverVars, store, late, mail, reloads, tok, epoch, signingOut, remoteOut,
                   fence, fencing, unfencing, ended, strayed, installedAt>>

\* The tail of performRefreshToken: clear, unless a sign-out intervened, and throw.
Definitive(p) ==
    IF SameEpoch(p)
    THEN BeginClear(p) /\ UNCHANGED slot
    ELSE Return(p) /\ UNCHANGED <<tok, unfencing, installedAt>>

RefreshRejected(p) ==
    LET t == TabOf[p]  o == op[p] IN
    /\ o.pc \in {"invalid_grant", "unauthenticated"} /\ o.note # "retried5xx" /\ Free(t)
    /\ IF At(p, "invalid_grant") /\ o.held # None /\ SameEpoch(p)
       THEN Goto(p, "poll") /\ UNCHANGED <<tok, unfencing, installedAt, slot>>
       ELSE Definitive(p)
    /\ UNCHANGED <<serverVars, store, late, mail, reloads, epoch, signingOut, remoteOut,
                   fence, fencing, ended, strayed>>

PollRead(p) ==
    /\ At(p, "poll") \/ (At(p, "sleep") /\ Free(TabOf[p]))
    /\ op' = [op EXCEPT ![p].pc = "polled", ![p].got = store[StoreOf[TabOf[p]]]]
    /\ UNCHANGED <<sdkVars, serverVars, store, late, mail, reloads>>

NeverAdopts(o) == FALSE

Adoptable(o) == o.got # None /\ o.got.bearer # None /\ o.got.grant # o.held.grant

FourPolls(o) == o.tries < 3

MorePolls(o) == o.tries < 2

\* Adopt a pair another instance rotated to; after three looks, give it up.
PollResume(p) ==
    LET t == TabOf[p]  o == op[p] IN
    /\ At(p, "polled")
    /\ IF Adoptable(o)
       THEN BeginUpdate(p, o.got) /\ Strays(t, o.got) /\ UNCHANGED slot
       ELSE IF MorePolls(o)
             THEN /\ op' = [op EXCEPT ![p].pc = "sleep", ![p].tries = @ + 1, ![p].got = None]
                  /\ UNCHANGED <<tok, unfencing, strayed, installedAt, slot>>
             ELSE Definitive(p) /\ UNCHANGED strayed
    /\ UNCHANGED <<serverVars, store, late, mail, reloads, epoch, signingOut, remoteOut,
                   fence, fencing, ended>>

-----------------------------------------------------------------------------
\* The rest of updateSession: the write lands, then the caller resumes.

Stored(s) == IF RefreshOnly /\ s # None THEN [s EXCEPT !.bearer = None] ELSE s

SaveLands(p) ==
    LET t == TabOf[p] IN
    /\ At(p, "save")
    /\ store' = [store EXCEPT ![StoreOf[t]] = Stored(op[p].got)]
    /\ op' = [op EXCEPT ![p].pc = "saved", ![p].got = None]
    /\ UNCHANGED <<sdkVars, serverVars, late, mail, reloads>>

\* The store rejects, and so does the call: updateSession throws past its epoch
\* check, a rejected clear leaves the pair where it is.
StoreRefuses(p) ==
    /\ StoreMayFail /\ op[p].pc \in {"load", "poll", "polled", "save", "undo", "clear"}
    /\ Return(p)
    /\ IF op[p].pc \in {"undo", "clear"} THEN Kept(TabOf[p]) ELSE UNCHANGED strayed
    /\ UNCHANGED <<serverVars, store, late, mail, reloads, tok, epoch, signingOut, remoteOut,
                   fence, fencing, unfencing, ended, installedAt>>

SaveResume(p) ==
    LET t == TabOf[p] IN
    /\ At(p, "saved")
    /\ IF epoch[t] # op[p].eu
       THEN /\ SetTokens(t, None)
            /\ Goto(p, "undo")
            /\ UNCHANGED <<remoteOut, slot>>
       ELSE /\ remoteOut' = [remoteOut EXCEPT ![t] = FALSE]
            /\ Return(p)
            /\ UNCHANGED <<tok, unfencing, installedAt>>
    /\ UNCHANGED <<serverVars, store, late, mail, reloads, epoch, signingOut,
                   fence, fencing, ended, strayed>>

ClearLands(p) ==
    /\ op[p].pc \in {"undo", "clear"}
    /\ store' = [store EXCEPT ![StoreOf[TabOf[p]]] = None]
    /\ Return(p)
    /\ UNCHANGED <<serverVars, late, mail, reloads, tok, epoch, signingOut, remoteOut,
                   fence, fencing, unfencing, ended, strayed, installedAt>>

\* A clearTokens nobody awaits: onRemoteSignOut's, or a capped one.
LateClearLands(t) ==
    /\ t \in late
    /\ late' = late \ {t}
    /\ store' = [store EXCEPT ![StoreOf[t]] = None]
    /\ UNCHANGED <<sdkVars, serverVars, mail, op, reloads>>

LateClearFails(t) ==
    /\ StoreMayFail /\ t \in late
    /\ late' = late \ {t}
    /\ Kept(t)
    /\ UNCHANGED <<serverVars, store, mail, op, reloads, tok, epoch, signingOut, remoteOut, slot,
                   fence, fencing, unfencing, ended, installedAt>>

-----------------------------------------------------------------------------
\* Logging in, and clearSession() / setSession(null) called by the host.

StartLogin(p) ==
    /\ "login" \in Kinds[p] /\ At(p, "idle") /\ Free(TabOf[p])
    /\ op' = [op EXCEPT ![p] = [Idle EXCEPT !.pc = "login", !.kind = "login"]]
    /\ UNCHANGED <<sdkVars, serverVars, store, late, mail, reloads>>

LoginGranted(p) ==
    /\ At(p, "granted") /\ op[p].kind = "login" /\ Free(TabOf[p])
    /\ BeginUpdate(p, op[p].got)
    /\ UNCHANGED <<serverVars, store, late, mail, reloads, epoch, signingOut, remoteOut, slot,
                   fence, fencing, ended, strayed>>

StartClear(p) ==
    LET t == TabOf[p] IN
    /\ "clear" \in Kinds[p] /\ At(p, "idle") /\ Free(t)
    /\ SetTokens(t, None)
    /\ op' = [op EXCEPT ![p] = [Idle EXCEPT !.pc = "clear", !.kind = "clear"]]
    /\ UNCHANGED <<serverVars, store, late, mail, reloads, epoch, signingOut, remoteOut, slot,
                   fence, fencing, ended, strayed>>

-----------------------------------------------------------------------------
\* Signing out: beginSignOut, logout, deleteAccount, finishSignOut.

FenceForgotten(t) == UNCHANGED fencing

RaiseFence(t) == fencing' = [fencing EXCEPT ![t] = TRUE]

\* Nothing in the SDK keeps two sign-outs apart; the host's user interface may.
NoOther(t) == Overlap \/ \A q \in Ops : TabOf[q] = t => op[q].kind \notin {"logout", "delete"}

BeginSignOut(p) ==
    LET t == TabOf[p] IN
    /\ epoch[t] + mail[t] < MaxEpoch
    /\ \A u \in Tabs \ {t} : epoch[u] + mail[u] < MaxEpoch
    /\ epoch' = [epoch EXCEPT ![t] = @ + 1]
    /\ signingOut' = [signingOut EXCEPT ![t] = TRUE]
    /\ mail' = [u \in Tabs |-> IF u = t THEN mail[u] ELSE mail[u] + 1]
    /\ RaiseFence(t)
    /\ unfencing' = [unfencing EXCEPT ![t] = FALSE]
    /\ ended' = [ended EXCEPT ![t] = @ \cup Logins(tok[t])]
    /\ UNCHANGED strayed

StartLogout(p) ==
    LET t == TabOf[p] IN
    /\ "logout" \in Kinds[p] /\ At(p, "idle") /\ Free(t)
    /\ NoOther(t)
    /\ BeginSignOut(p)
    /\ op' = [op EXCEPT ![p] = [Idle EXCEPT !.pc = "settle", !.kind = "logout"]]
    /\ UNCHANGED <<serverVars, store, late, reloads, tok, remoteOut, slot, fence, installedAt>>

\* deleteAccount: the DELETE goes first, the sign-out follows its success.
StartDelete(p) ==
    LET t == TabOf[p] IN
    /\ "delete" \in Kinds[p] /\ At(p, "idle") /\ Free(t) /\ tok[t] # None
    /\ NoOther(t)
    /\ op' = [op EXCEPT ![p] = [Idle EXCEPT !.pc = "delete", !.kind = "delete", !.held = tok[t]]]
    /\ UNCHANGED <<sdkVars, serverVars, store, late, mail, reloads>>

DeleteSucceeds(p) ==
    /\ At(p, "delete") /\ Free(TabOf[p])
    /\ BeginSignOut(p)
    /\ Goto(p, "settle")
    /\ live' = live \ {op[p].held.grant}
    /\ UNCHANGED <<issued, logins, cookie, store, late, reloads, tok, remoteOut, slot, fence, installedAt>>

DeleteFails(p) ==
    /\ At(p, "delete") /\ Free(TabOf[p])
    /\ Return(p)
    /\ UNCHANGED <<serverVars, store, late, mail, reloads, tok, epoch, signingOut, remoteOut,
                   fence, fencing, unfencing, ended, strayed, installedAt>>

\* The fence is up (or its second is over), the refresh has settled (or its two
\* seconds are over): the slot is dropped and the sign-out goes on.
Settle(p) ==
    LET t == TabOf[p] IN
    /\ At(p, "settle") /\ Free(t)
    /\ SettleCap \/ (slot[t] = None /\ ~fencing[t])
    /\ slot' = [slot EXCEPT ![t] = None]
    /\ IF op[p].kind = "logout"
       THEN /\ op' = [op EXCEPT ![p].pc = "revoke", ![p].held = tok[t]]
            /\ UNCHANGED <<tok, unfencing, installedAt>>
       ELSE SetTokens(t, None) /\ Goto(p, "wipe")
    /\ UNCHANGED <<serverVars, store, late, mail, reloads, epoch, signingOut, remoteOut,
                   fence, fencing, ended, strayed>>

\* POST /v1/auth/logout succeeds or fails; finishSignOut follows either way.
Revoke(p) ==
    LET t == TabOf[p] IN
    /\ At(p, "revoke") /\ Free(t)
    /\ \/ /\ op[p].held # None
          /\ live' = live \ {op[p].held.grant}
          /\ cookie' = None
       \/ UNCHANGED <<live, cookie>>
    /\ SetTokens(t, None)
    /\ Goto(p, "wipe")
    /\ UNCHANGED <<issued, logins, store, late, mail, reloads, epoch, signingOut, remoteOut, slot,
                   fence, fencing, ended, strayed>>

WipeLands(p) ==
    /\ At(p, "wipe")
    /\ store' = [store EXCEPT ![StoreOf[TabOf[p]]] = None]
    /\ Goto(p, "wipeCache")
    /\ UNCHANGED <<sdkVars, serverVars, late, mail, reloads>>

\* A clear that rejects does not stop the sign-out; it is reported at its end.
WipeFails(p) ==
    /\ StoreMayFail /\ At(p, "wipe")
    /\ Kept(TabOf[p])
    /\ Goto(p, "wipeCache")
    /\ UNCHANGED <<serverVars, store, late, mail, reloads, tok, epoch, signingOut, remoteOut, slot,
                   fence, fencing, unfencing, ended, installedAt>>

WipeUncapped(p) == FALSE

\* awaitCapped: the store is still busy after 5 s; its clear lands later.
WipeCapped(p) ==
    /\ WipeCap /\ At(p, "wipe")
    /\ late' = late \cup {TabOf[p]}
    /\ Goto(p, "wipeCache")
    /\ UNCHANGED <<sdkVars, serverVars, store, mail, reloads>>

CacheWiped(p) ==
    LET t == TabOf[p] IN
    /\ At(p, "wipeCache") /\ Free(t)
    /\ signingOut' = [signingOut EXCEPT ![t] = FALSE]
    /\ Return(p)
    /\ UNCHANGED <<serverVars, store, late, mail, reloads, tok, epoch, remoteOut,
                   fence, fencing, unfencing, ended, strayed, installedAt>>

\* onRemoteSignOut: the broadcast of another instance.  The clear of the store
\* is issued and not awaited.
RemoteSignOut(t) ==
    /\ mail[t] > 0 /\ Free(t)
    /\ mail' = [mail EXCEPT ![t] = @ - 1]
    /\ epoch' = [epoch EXCEPT ![t] = @ + 1]
    /\ remoteOut' = [remoteOut EXCEPT ![t] = TRUE]
    /\ tok' = [tok EXCEPT ![t] = None]
    /\ unfencing' = [unfencing EXCEPT ![t] = FALSE]
    /\ RaiseFence(t)
    /\ late' = late \cup {t}
    /\ ended' = [ended EXCEPT ![t] = @ \cup Logins(tok[t])]
    /\ UNCHANGED <<serverVars, store, op, reloads, signingOut, slot, fence, strayed, installedAt>>

-----------------------------------------------------------------------------
\* The callbacks on cachePromise, in the order they were registered: a fence
\* runs before any unfence of its own epoch, after those of earlier epochs.

RunFence(t) ==
    /\ fencing[t]
    /\ fence' = [fence EXCEPT ![t] = TRUE]
    /\ fencing' = [fencing EXCEPT ![t] = FALSE]
    /\ UNCHANGED <<serverVars, store, late, mail, op, reloads, tok, epoch, signingOut, remoteOut,
                   slot, unfencing, ended, strayed, installedAt>>

UnfenceMidWipe(t) == tok[t] # None

MayUnfence(t) == ~signingOut[t] /\ tok[t] # None

RunUnfence(t) ==
    /\ unfencing[t] /\ ~fencing[t]
    /\ unfencing' = [unfencing EXCEPT ![t] = FALSE]
    /\ fence' = [fence EXCEPT ![t] = @ /\ ~MayUnfence(t)]
    /\ UNCHANGED <<serverVars, store, late, mail, op, reloads, tok, epoch, signingOut, remoteOut,
                   slot, fencing, ended, strayed, installedAt>>

-----------------------------------------------------------------------------
\* The authorization server, as the SDK's comments and error handling see it:
\* a refresh rotates the token and revokes the one it was given.

Key(p) == IF CookieMode /\ cookie # None THEN cookie ELSE op[p].held

Valid(s) == s # None /\ s.grant \in live

ServerRotates(p) ==
    LET new == Pair(Key(p).user, Key(p).login, issued + 1) IN
    /\ At(p, "post")
    /\ Valid(Key(p)) /\ issued < MaxGrant
    /\ live' = (live \ {Key(p).grant}) \cup {new.grant}
    /\ issued' = issued + 1
    /\ cookie' = IF CookieMode THEN new ELSE cookie
    /\ \/ op' = [op EXCEPT ![p].pc = "granted", ![p].got = new]
       \/ LostReplies /\ \E answer \in {"offline", "unavailable", "blip"} : Goto(p, answer)
    /\ UNCHANGED <<sdkVars, logins, store, late, mail, reloads>>

ServerRejects(p) ==
    /\ At(p, "post")
    /\ ~Valid(Key(p))
    /\ \E answer \in Rejections : Goto(p, answer)
    /\ UNCHANGED <<sdkVars, serverVars, store, late, mail, reloads>>

NetworkFails(p) ==
    /\ At(p, "post")
    /\ \E answer \in {"unavailable", "blip", "offline"} : Goto(p, answer)
    /\ UNCHANGED <<sdkVars, serverVars, store, late, mail, reloads>>

ServerLogsIn(p) ==
    LET new(u) == Pair(u, logins + 1, issued + 1) IN
    /\ At(p, "login") /\ issued < MaxGrant /\ logins < MaxLogin
    /\ logins' = logins + 1 /\ issued' = issued + 1
    /\ live' = live \cup {issued + 1}
    /\ \E u \in Accounts[TabOf[p]] :
          /\ op' = [op EXCEPT ![p].pc = "granted", ![p].got = new(u)]
          /\ cookie' = IF CookieMode THEN new(u) ELSE cookie
    /\ UNCHANGED <<sdkVars, store, late, mail, reloads>>

LoginFails(p) ==
    /\ At(p, "login")
    /\ Return(p)
    /\ UNCHANGED <<serverVars, store, late, mail, reloads, tok, epoch, signingOut, remoteOut,
                   fence, fencing, unfencing, ended, strayed, installedAt>>

\* The page is reloaded: memory is gone, the stores and the cookie are not.
Reload(t) ==
    /\ reloads < MaxReload
    /\ reloads' = reloads + 1
    /\ tok' = [tok EXCEPT ![t] = None]
    /\ epoch' = [epoch EXCEPT ![t] = 0] /\ installedAt' = [installedAt EXCEPT ![t] = 0]
    /\ signingOut' = [signingOut EXCEPT ![t] = FALSE]
    /\ remoteOut' = [remoteOut EXCEPT ![t] = FALSE]
    /\ slot' = [slot EXCEPT ![t] = None]
    /\ fence' = [fence EXCEPT ![t] = FALSE] /\ fencing' = [fencing EXCEPT ![t] = FALSE]
    /\ unfencing' = [unfencing EXCEPT ![t] = FALSE]
    /\ mail' = [mail EXCEPT ![t] = 0]
    /\ late' \in {late, late \ {t}}
    /\ op' = [p \in Ops |-> IF TabOf[p] = t THEN Idle ELSE op[p]]
    /\ ended' = [ended EXCEPT ![t] = {}] /\ strayed' = [strayed EXCEPT ![t] = {}]
    /\ UNCHANGED <<serverVars, store>>

-----------------------------------------------------------------------------
Server(p) == ServerRotates(p) \/ ServerRejects(p) \/ NetworkFails(p) \/ ServerLogsIn(p) \/ LoginFails(p)

StoreStep(p) == LoadRead(p) \/ SaveLands(p) \/ StoreRefuses(p) \/ ClearLands(p)
                \/ WipeLands(p) \/ WipeFails(p)

Resume(p) ==
    \/ LoadResume(p) \/ RefreshGranted(p) \/ RefreshRetry(p) \/ RefreshGivesUp(p)
    \/ RefreshRejected(p) \/ PollRead(p) \/ PollResume(p) \/ SaveResume(p) \/ LoginGranted(p)
    \/ DeleteSucceeds(p) \/ DeleteFails(p) \/ Settle(p) \/ Revoke(p) \/ WipeCapped(p) \/ CacheWiped(p)

Start(p) == StartRestore(p) \/ StartRefresh(p) \/ StartLogin(p) \/ StartClear(p)
            \/ StartLogout(p) \/ StartDelete(p)

TabStep(t) == LateClearLands(t) \/ LateClearFails(t) \/ RemoteSignOut(t) \/ RunFence(t) \/ RunUnfence(t)

Next == \/ \E p \in Ops : Start(p) \/ Resume(p) \/ StoreStep(p) \/ Server(p)
        \/ \E t \in Tabs : TabStep(t) \/ Reload(t)

Spec == Init /\ [][Next]_vars

-----------------------------------------------------------------------------
\* Properties

\* The state of every instance, store and call has its type.
TypeOK ==
    /\ tok \in [Tabs -> Maybe] /\ store \in [Stores -> Maybe]
    /\ epoch \in [Tabs -> 0..MaxEpoch] /\ mail \in [Tabs -> 0..MaxEpoch]
    /\ signingOut \in [Tabs -> BOOLEAN] /\ remoteOut \in [Tabs -> BOOLEAN]
    /\ slot \in [Tabs -> Ops \cup {None}]
    /\ fence \in [Tabs -> BOOLEAN] /\ fencing \in [Tabs -> BOOLEAN] /\ unfencing \in [Tabs -> BOOLEAN]
    /\ late \in SUBSET Tabs /\ op \in [Ops -> OpState]
    /\ live \in SUBSET (1..MaxGrant) /\ issued \in 0..MaxGrant /\ logins \in 0..MaxLogin
    /\ cookie \in Maybe /\ reloads \in 0..MaxReload
    /\ ended \in [Tabs -> SUBSET (1..MaxLogin)] /\ strayed \in [Tabs -> SUBSET (1..MaxLogin)]
    /\ installedAt \in [Tabs -> 0..MaxEpoch]

\* Single flight: a running refresh owns the slot of its instance, unless a
\* sign-out dropped it, and then its epoch is over and its tokens go nowhere
\* (refreshTokenOrThrow, beginSignOut).
SingleFlight ==
    \A p \in Ops : op[p].kind = "refresh" =>
        slot[TabOf[p]] = p \/ op[p].e0 < epoch[TabOf[p]]

Wiping(p) == op[p].pc \in {"settle", "revoke", "wipe", "wipeCache"}

\* From the moment a sign-out begins until its wipe is over, the write fence
\* is up or on its way up: no unfence scheduled by a login, a restore or a
\* refresh fires in between (setTokens, beginSignOut).
FenceDuringWipe ==
    \A p \in Ops : Wiping(p) => fence[TabOf[p]] \/ fencing[TabOf[p]]

\* Cache writes are accepted only by an instance that got tokens since the
\* last sign-out it took part in, its own or another's.
FenceNeedsSession ==
    \A t \in Tabs : fence[t] \/ fencing[t] \/ installedAt[t] = epoch[t]

\* A clear of t's store is still to land: a sign-out's, or that of a call which
\* finds that a sign-out overtook its save.
Unwiped(t) ==
    \/ t \in late
    \/ \E p \in Ops : /\ TabOf[p] = t
                      /\ \/ op[p].pc \in {"wipe", "undo"}
                         \/ At(p, "saved") /\ op[p].eu # epoch[t]

\* What a sign-out ended comes back in one way only: once the sign-out has
\* dropped the tokens, the instance holds none of an ended sign-in, and its
\* store none once the clears have landed, unless the store gave them back (a
\* read that straddles a sign-out or runs before its clear) or rejected a clear.
\* No answer to a refresh, no login and no late save does it, in any order of
\* the sign-out's capped waits (beginSignOut, finishSignOut, updateSession,
\* performRefreshToken's epoch guards).
OnlyTheStoreRevives ==
    \A t \in Tabs : ~Ending(t) =>
        /\ Logins(tok[t]) \cap ended[t] \subseteq strayed[t]
        /\ ~Unwiped(t) => Logins(store[StoreOf[t]]) \cap ended[t] \subseteq strayed[t]

Quiet == (\A p \in Ops : At(p, "idle")) /\ (\A t \in Tabs : mail[t] = 0) /\ late = {}

\* When everything has come to rest, no instance holds tokens of a sign-in
\* that a sign-out it took part in has ended, whatever refresh, restore or
\* login that sign-out interrupted.  (It does, when a store takes its time.)
NoResurrection ==
    Quiet => \A t \in Tabs : Logins(tok[t]) \cap ended[t] = {}

\* A refresh never turns the session of one account into that of another: the
\* tokens it installs belong to whoever is signed in at that moment, not only
\* to whoever was when it started (performRefreshToken's sameSubject checks).
RefreshKeepsAccount ==
    [][\A p \in Ops : LET t == TabOf[p] IN
        (At(p, "granted") /\ op[p].kind = "refresh" /\ op'[p].pc = "save" /\ tok[t] # None)
        => SameSubject(tok[t], tok'[t])]_vars

\* A rotation race is lost by one caller and never by the session: while
\* nobody signs out, a store whose session is still alive at the server ends up
\* holding the live pair, so any instance can restore it (performRefreshToken's
\* adoption branch).
SharedSessionSurvives ==
    Quiet => \A t \in Tabs : live # {} => Valid(store[StoreOf[t]])

-----------------------------------------------------------------------------
\* Liveness.  Timers fire and promises that settled are resumed.  The store and
\* the server owe nothing: a request has no timeout, here or in HttpClient.

Asking(p) == op[p].pc \in {"revoke", "delete"}

LiveSpec == Spec /\ \A p \in Ops : WF_vars(Resume(p) /\ ~Asking(p))

\* A sign-out whose logout POST is answered comes to its end, releasing
\* signOutInProgress, even when the session store never answers and the refresh
\* it waits for never settles (awaitCapped, beginSignOut's caps).
SignOutCompletes ==
    (\A p \in Ops : []<>~At(p, "revoke")) => \A t \in Tabs : signingOut[t] ~> ~signingOut[t]

=============================================================================
