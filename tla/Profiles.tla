------------------------------- MODULE Profiles -------------------------------
(***************************************************************************)
(* SessionManager (src/sessionManager.ts): several accounts signed in side *)
(* by side, one of them active, in the tabs of one browser.  Each tab has  *)
(* a manager with the records and SDK instances of its profiles; the tabs  *)
(* share the registry of records and each profile's session store, and     *)
(* tell each other to read the registry again.                             *)
(*                                                                         *)
(* The work of an instance (restoring, refreshing, signing out) appears by *)
(* its outcome, Session has its detail.  Which profile a removal promotes  *)
(* is left open: the order by lastActiveAt is not kept.                    *)
(***************************************************************************)
EXTENDS Naturals, FiniteSets

CONSTANTS
    Managers,      \* one per tab
    Calls,         \* slots for calls of the managers' methods
    ManagerOf,     \* [Calls -> Managers]
    Users,         \* account ULIDs
    None,
    Kinds,         \* [Calls -> SUBSET CallKinds]
    OneAtATime,    \* TRUE: the tabs keep out of each other's way (see Alone, Quiet, Fresh)
    Reloading,     \* managers whose page may be loaded again
    MaxCalls,      \* bound: calls the host makes and pages it loads again
    SharedCookie,  \* TRUE: a refresh is answered for whoever signed in last
    RefreshOnly,   \* TRUE: session stores keep no bearer
    Delegating     \* TRUE: an instance may act as a managed user

CallKinds == {"add", "switch", "remove", "sync", "expired"}
ASSUME CallsAssumption == ManagerOf \in [Calls -> Managers] /\ Kinds \in [Calls -> SUBSET CallKinds]
ASSUME NoneAssumption == None \notin Users
ASSUME BoundAssumption == MaxCalls \in Nat

\* An instance's session: whose it is, and its bearer: live, past its expiry,
\* or "hollow", not there beside the refresh token.
Token == [owner : Users, bearer : {"live", "stale", "hollow"}]
NoToken == [owner |-> None, bearer |-> "none"]
Tokens == Token \cup {NoToken}

VARIABLES
    registry,  \* what the registry store holds
    book,      \* per manager: its records and active profile
    sdk,       \* per manager and user: no instance, one not restored yet, one that is up
    tok,       \* per manager and user: the tokens its instance holds
    store,     \* per user: the profile's session store
    cookie,    \* whom the browser's refresh cookie names
    booting,   \* per manager: the profile its restore waits for
    mail,      \* managers with a "sync" message to read
    call,      \* the calls in progress
    gone,      \* history: users whose removal is done since they last signed in
    begun      \* how many of them there were

sessions == <<sdk, tok, store, cookie>>
vars == <<registry, book, sessions, booting, mail, call, gone, begun>>

\* The records, two of one user when it was pushed twice, and those that need
\* a sign-in; the active profile.
Book == [count : [Users -> 0..2], reauth : SUBSET Users, active : Users \cup {None}]
Listed(b) == {u \in Users : b.count[u] > 0}

PCs == {"idle", "loaded", "queued", "staging", "install", "leaving", "torn", "ready", "live", "owns", "settle", "flag"}
Call == [pc : PCs, kind : CallKinds \cup {"none"}, user : Users \cup {None},
         out : Users \cup {None},       \* whom it removed
         ref : {"none", "attached", "detached", "revoked"},  \* the record it found
         kept : BOOLEAN,                 \* its instance is still the manager's
         before : Tokens, got : Tokens,  \* hydrate's bearers
         snap : Book \cup {None}]        \* the registry a sync has loaded
Idle == [pc |-> "idle", kind |-> "none", user |-> None, out |-> None, ref |-> "none", kept |-> TRUE,
         before |-> NoToken, got |-> NoToken, snap |-> None]

At(c, pc) == call[c].pc = pc
M(c) == ManagerOf[c]
U(c) == call[c].user
Is(c, kind) == call[c].kind = kind
Busy(c) == ~At(c, "idle")
Goto(c, pc) == call' = [call EXCEPT ![c].pc = pc]
Return(c) == call' = [call EXCEPT ![c] = Idle]

-----------------------------------------------------------------------------
\* Sessions of the instances.

InstanceFor(m, u) == sdk' = [sdk EXCEPT ![m][u] = IF @ = "none" THEN "new" ELSE @]
Stored(t) == IF RefreshOnly /\ t # NoToken THEN [t EXCEPT !.bearer = "hollow"] ELSE t

\* The tokens of the instance a call works with, its manager's or one that
\* was let go of meanwhile.
Held(c) == IF call[c].kept THEN tok[M(c)][U(c)] ELSE call[c].got
Hold(c, t) == IF call[c].kept THEN tok' = [tok EXCEPT ![M(c)][U(c)] = t] ELSE UNCHANGED tok

\* updateSession: in memory and in the store.
SetSession(c, t) == Hold(c, t) /\ store' = [store EXCEPT ![U(c)] = Stored(t)]

\* restoreStoredSession: a stored bearer wins over the one in memory.
Merged(t, u) ==
    IF store[u] = NoToken \/ (store[u].bearer = "hollow" /\ t # NoToken) THEN t ELSE store[u]

\* A cookie of each account's own decides nothing and is not kept.
Cookie(u) == IF SharedCookie THEN u ELSE None

\* The tabs are open on the accounts that signed in before, a the last of them.
Init ==
    \E S \in SUBSET Users : \E a \in IF S = {} THEN {None} ELSE S :
        LET b == [count |-> [u \in Users |-> IF u \in S THEN 1 ELSE 0], reauth |-> {}, active |-> a]
            Live(u) == [owner |-> u, bearer |-> "live"] IN
        /\ registry = b /\ book = [m \in Managers |-> b]
        /\ sdk = [m \in Managers |-> [u \in Users |-> IF u = a THEN "up" ELSE "none"]]
        /\ tok = [m \in Managers |-> [u \in Users |-> IF u = a THEN Live(u) ELSE NoToken]]
        /\ store = [u \in Users |-> IF u \in S THEN Stored(Live(u)) ELSE NoToken]
        /\ cookie = Cookie(a)
        /\ booting = [m \in Managers |-> None] /\ mail = {} /\ gone = {} /\ begun = 0
        /\ call = [c \in Calls |-> Idle]

\* What restoreSession ends with, from the tokens held: a bearer that is not
\* live is refreshed.  The server grants one to the user of the grant, or of
\* the cookie, rejects it, or is out of reach.  A bearer of another subject
\* than the one held is not taken.
Refreshed(t) ==
    LET o == IF SharedCookie /\ cookie # None THEN cookie ELSE t.owner IN
    {t, NoToken} \cup {[owner |-> v, bearer |-> "live"] :
        v \in {w \in {o} : t.bearer = "hollow" \/ w = t.owner}}
RestoredGuest(t, u) == Refreshed(Merged(t, u))
Restored(t, u) ==
    LET n == Merged(t, u) IN IF n.bearer \in {"stale", "hollow"} THEN Refreshed(n) ELSE {n}

\* The outcome t is kept; a new bearer or a rejection is persisted.
Keep(u, old, t) ==
    IF t = Merged(old, u) THEN UNCHANGED <<store, cookie>>
    ELSE /\ store' = [store EXCEPT ![u] = Stored(t)]
         /\ cookie' = IF t = NoToken THEN cookie ELSE Cookie(t.owner)

-----------------------------------------------------------------------------
\* The registry.

\* persist saves the whole registry and posts to the other tabs, in one task
\* of the browser when the registry is localStorage.
Persist(m, b) ==
    /\ book' = [book EXCEPT ![m] = b] /\ registry' = b
    /\ mail' = mail \cup (Managers \ {m})

\* The calls of m, after the records of S were taken out of its list and the
\* instances of T out of its map.
LetGo(m, S, T) ==
    [c \in Calls |->
        IF M(c) # m THEN call[c]
        ELSE [call[c] EXCEPT
                !.ref = IF U(c) \in S /\ @ = "attached" THEN "detached" ELSE @,
                !.kept = @ /\ U(c) \notin T,
                !.got = IF U(c) \in T /\ call[c].kept THEN tok[m][U(c)] ELSE @]]

Ref(b, u) == IF u \in Listed(b) THEN "attached" ELSE "none"
Hydrating(cs, c, u, b) ==
    [cs EXCEPT ![c] = [@ EXCEPT !.pc = "ready", !.user = u, !.ref = Ref(b, u),
                                !.kept = TRUE, !.before = NoToken, !.got = NoToken, !.snap = None]]

\* OneAtATime.  The host calls in one tab at a time, which has read the
\* registry, and has one call on a profile; a tab reads the registry once at a
\* time and not during its calls (Quiet); one that has not read what another
\* saved does not save its own list for a session that expired (Fresh).
HostKinds == {"add", "switch", "remove"}
Syncing(m) == \E d \in Calls : M(d) = m /\ Is(d, "sync")
Fresh(m) == OneAtATime => m \notin mail /\ \A d \in Calls : M(d) = m => ~At(d, "loaded")
Alone(c, u) ==
    OneAtATime =>
        /\ M(c) \notin mail /\ ~Syncing(M(c))
        /\ \A d \in Calls \ {c} : call[d].kind \in HostKinds => M(d) = M(c) /\ (u # None => U(d) # u)
Quiet(m) ==
    OneAtATime => ~Syncing(m) /\ \A d \in Calls : M(d) = m => call[d].kind \notin HostKinds

\* Bound: calls and page loads of the host.
HostActs == begun < MaxCalls /\ begun' = begun + 1

Begin(c, kind, u, pc) ==
    /\ ~Busy(c) /\ kind \in Kinds[c] /\ booting[M(c)] = None
    /\ HostActs
    /\ call' = [call EXCEPT ![c] = [Idle EXCEPT !.pc = pc, !.kind = kind, !.user = u,
                                               !.ref = Ref(book[M(c)], u)]]

-----------------------------------------------------------------------------
\* addProfile.

StartAdd(c) ==
    /\ Alone(c, None) /\ Begin(c, "add", None, "queued")
    /\ UNCHANGED <<registry, book, sessions, booting, mail, gone>>

\* stagingLock: one add of a manager at a time, however the last one ended.
Staging(m) == \E d \in Calls : M(d) = m /\ Is(d, "add") /\ call[d].pc \in {"staging", "install"}

StageLogin(c) ==
    /\ At(c, "queued") /\ ~Staging(M(c)) /\ Goto(c, "staging")
    /\ UNCHANGED <<registry, book, sessions, booting, mail, gone, begun>>

\* Someone logs in on the staged SDK: the record is looked up, the instance
\* made and its session set.
LoginAs(c, u) ==
    LET t == [owner |-> u, bearer |-> "live"] IN
    /\ At(c, "staging") /\ Alone(c, u)
    /\ cookie' = Cookie(u)
    /\ InstanceFor(M(c), u)
    /\ tok' = [tok EXCEPT ![M(c)][u] = t] /\ store' = [store EXCEPT ![u] = Stored(t)]
    /\ call' = [d \in Calls |->
                 IF d = c THEN [call[c] EXCEPT !.pc = "install", !.user = u, !.ref = Ref(book[M(c)], u)]
                 ELSE [call[d] EXCEPT !.out = IF @ = u THEN None ELSE @]]
    /\ gone' = gone \ {u}
    /\ UNCHANGED <<registry, book, booting, mail, begun>>

LoginFails(c) ==
    /\ At(c, "staging") /\ Return(c)
    /\ UNCHANGED <<registry, book, sessions, booting, mail, gone, begun>>

\* The record found is brought up to date, or one is pushed; unless a sign-out
\* of the instance began while its session was saved.
InstallProfile(c) ==
    LET u == U(c)  b == book[M(c)] IN
    /\ At(c, "install")
    /\ \/ /\ call[c].ref = "revoked" /\ SetSession(c, NoToken)
          /\ UNCHANGED <<book, registry, mail>>
       \/ /\ call[c].ref # "revoked" /\ UNCHANGED <<tok, store>>
          /\ Persist(M(c),
               [count |-> [b.count EXCEPT ![u] = IF call[c].ref = "none" /\ @ < 2 THEN @ + 1 ELSE @],
                reauth |-> IF call[c].ref = "attached" THEN b.reauth \ {u} ELSE b.reauth,
                active |-> u])
    /\ Return(c)
    /\ UNCHANGED <<sdk, cookie, booting, gone, begun>>

-----------------------------------------------------------------------------
\* hydrate: for switchTo, for the profile a removal promotes, for the one
\* another tab made active.

\* Tokens t are what a restore of the call's instance ends with.
Restores(c, t) ==
    /\ t \in Restored(Held(c), U(c))
    /\ Hold(c, t) /\ Keep(U(c), Held(c), t)

Holds(c, t) == t = Held(c) /\ UNCHANGED <<tok, store, cookie>>

\* ready: the first restore of the instance.
AwaitReady(c) ==
    LET first == call[c].kept /\ sdk[M(c)][U(c)] = "new" IN
    /\ At(c, "ready")
    /\ \E t \in Tokens :
        /\ IF first THEN Restores(c, t) ELSE Holds(c, t)
        /\ call' = [call EXCEPT ![c].pc = "live", ![c].before = t, ![c].got = t]
    /\ sdk' = IF first THEN [sdk EXCEPT ![M(c)][U(c)] = "up"] ELSE sdk
    /\ UNCHANGED <<registry, book, booting, mail, gone, begun>>

\* ensureLiveSession: a live bearer, or a restore; a bearer that hydrate did not
\* see before has its owner looked up.
Foreign(c, t) == t # call[c].before

EnsureLive(c) ==
    /\ At(c, "live")
    /\ \E t \in Tokens :
        /\ IF Held(c).bearer = "live" THEN Holds(c, t) ELSE Restores(c, t)
        /\ call' = [call EXCEPT ![c].got = t,
                    ![c].pc = IF t.bearer = "live" /\ Foreign(c, t) THEN "owns" ELSE "settle"]
    /\ UNCHANGED <<registry, book, sdk, booting, mail, gone, begun>>

\* ownsSession: the server names the bearer's owner, or no answer comes; while
\* the instance acts as a managed user it is not asked.
OwnsSession(c) ==
    /\ At(c, "owns")
    /\ \/ /\ call[c].got.owner = U(c) \/ Delegating
          /\ Goto(c, "settle") /\ UNCHANGED <<tok, store>>
       \/ SetSession(c, NoToken) /\ call' = [call EXCEPT ![c].pc = "settle", ![c].got = NoToken]
    /\ UNCHANGED <<registry, book, sdk, cookie, booting, mail, gone, begun>>

Usable(c) == call[c].got.bearer = "live"

\* The record follows the outcome.
Reconciled(c, b) ==
    IF call[c].ref # "attached" THEN b
    ELSE [b EXCEPT !.reauth = IF Usable(c) THEN @ \ {U(c)}
                              ELSE IF Held(c) = NoToken THEN @ \cup {U(c)} ELSE @]

\* switchTo activates what hydrate brought up and else throws; a removal is
\* done either way; following another tab saves nothing.
SettleHydrate(c) ==
    LET b == Reconciled(c, book[M(c)]) IN
    /\ At(c, "settle") /\ Return(c)
    /\ \/ /\ Is(c, "switch") /\ UNCHANGED gone
          /\ Persist(M(c), IF Usable(c) THEN [b EXCEPT !.active = U(c)] ELSE b)
       \/ Is(c, "remove") /\ Persist(M(c), b) /\ gone' = gone \cup ({call[c].out} \ {None})
       \/ Is(c, "sync") /\ book' = [book EXCEPT ![M(c)] = b] /\ UNCHANGED <<registry, mail, gone>>
    /\ UNCHANGED <<sessions, booting, begun>>

\* switchTo throws at once for a profile that is not listed.
StartSwitch(c, u) ==
    /\ u \in Listed(book[M(c)])
    /\ Alone(c, u) /\ Begin(c, "switch", u, "ready")
    /\ InstanceFor(M(c), u)
    /\ UNCHANGED <<registry, book, tok, store, cookie, booting, mail, gone>>

-----------------------------------------------------------------------------
\* remove; signOutAll is one after the other.

StartRemove(c, u) ==
    /\ u \in Listed(book[M(c)])
    /\ Alone(c, u) /\ Begin(c, "remove", u, "leaving")
    /\ InstanceFor(M(c), u)
    /\ UNCHANGED <<registry, book, tok, store, cookie, booting, mail, gone>>

\* logout, or clearSession when it fails: the tokens go, the stored ones if
\* the store is there; an add that is saving this session is undone.
SignOutProfile(c) ==
    LET m == M(c)  u == U(c) IN
    /\ At(c, "leaving")
    /\ tok' = IF call[c].kept THEN [tok EXCEPT ![m][u] = NoToken] ELSE tok
    /\ store' \in {store, [store EXCEPT ![u] = NoToken]}
    /\ cookie' \in {cookie, None}
    /\ sdk' = IF call[c].kept THEN [sdk EXCEPT ![m][u] = "up"] ELSE sdk
    /\ call' = [d \in Calls |->
                 IF d = c THEN [call[c] EXCEPT !.pc = "torn"]
                 ELSE IF M(d) = m /\ U(d) = u /\ At(d, "install") THEN [call[d] EXCEPT !.ref = "revoked"]
                 ELSE call[d]]
    /\ UNCHANGED <<registry, book, booting, mail, gone, begun>>

\* The index is looked up again after the teardown: the record of the profile
\* goes, not the one at the place it had before.
SpliceFirst(b, u) == LET v == CHOOSE w \in Users : b.count[w] > 0 \/ Listed(b) = {} IN [b.count EXCEPT ![v] = 0]
Spliced(b, u) == [b.count EXCEPT ![u] = IF @ = 0 THEN 0 ELSE @ - 1]

\* The next active profile is looked for in the list without the one removed.
PromotedEarly(before, after) == Listed(before)
Promotable(before, after) == Listed(after)

\* The record goes; another profile becomes active if this one was.
DropProfile(c) ==
    LET m == M(c)  u == U(c)
        b == [book[m] EXCEPT !.count = Spliced(book[m], u)]
        cs == LetGo(m, {u}, {u})
        rest == [sdk EXCEPT ![m][u] = "none"] IN
    /\ At(c, "torn")
    /\ tok' = [tok EXCEPT ![m][u] = NoToken]
    /\ \/ \E v \in Promotable(book[m], b) :
            /\ b.active = u
            /\ book' = [book EXCEPT ![m] = [b EXCEPT !.active = v]]
            /\ call' = [Hydrating(cs, c, v, b) EXCEPT ![c].out = u]
            /\ sdk' = [rest EXCEPT ![m][v] = IF @ = "none" THEN "new" ELSE @]
            /\ UNCHANGED <<registry, mail, gone>>
       \/ /\ b.active # u \/ Promotable(book[m], b) = {}
          /\ Persist(m, [b EXCEPT !.active = IF @ = u THEN None ELSE @])
          /\ call' = [cs EXCEPT ![c] = Idle]
          /\ sdk' = rest /\ gone' = gone \cup {u}
    /\ UNCHANGED <<store, cookie, booting, begun>>

-----------------------------------------------------------------------------
\* What the managers do unasked.

\* syncFromRegistry, called for a message, loads the registry.
LoadRegistry(c) ==
    /\ ~Busy(c) /\ "sync" \in Kinds[c] /\ M(c) \in mail /\ Quiet(M(c))
    /\ mail' = mail \ {M(c)}
    /\ call' = [call EXCEPT ![c] = [Idle EXCEPT !.pc = "loaded", !.kind = "sync", !.snap = registry]]
    /\ UNCHANGED <<registry, book, sessions, booting, gone, begun>>

\* Then the list is replaced by what was read, the instances of profiles that
\* are no longer in it are let go of, and a new active profile is followed.
TakenList(m, b) == [b EXCEPT !.active = book[m].active]
Taken(m, b) == b

SyncFromRegistry(c) ==
    LET m == M(c)  b == call[c].snap  a == b.active
        lost == Users \ Listed(b)
        cs == LetGo(m, Users, lost)
        rest == [sdk EXCEPT ![m] = [u \in Users |-> IF u \in lost THEN "none" ELSE sdk[m][u]]] IN
    /\ At(c, "loaded")
    /\ book' = [book EXCEPT ![m] = Taken(m, b)]
    /\ tok' = [tok EXCEPT ![m] = [u \in Users |-> IF u \in lost THEN NoToken ELSE tok[m][u]]]
    /\ IF a \notin {None, book[m].active}
       THEN /\ call' = Hydrating(cs, c, a, b)
            /\ sdk' = [rest EXCEPT ![m][a] = IF @ = "none" THEN "new" ELSE @]
       ELSE call' = [cs EXCEPT ![c] = Idle] /\ sdk' = rest
    /\ UNCHANGED <<registry, store, cookie, booting, mail, gone, begun>>

\* onUnauthorized, for a request in the background as much as for the host's:
\* the refresh of a session was rejected, which clears it; then its record is
\* flagged and the registry saved.
SessionExpired(c, u) ==
    /\ Begin(c, "expired", u, "flag")
    /\ sdk[M(c)][u] # "none" /\ tok[M(c)][u] # NoToken
    /\ tok' = [tok EXCEPT ![M(c)][u] = NoToken] /\ store' = [store EXCEPT ![u] = NoToken]
    /\ UNCHANGED <<registry, book, sdk, cookie, booting, mail, gone>>

OnUnauthorized(c) ==
    LET b == book[M(c)] IN
    /\ At(c, "flag") /\ Fresh(M(c)) /\ Return(c)
    /\ IF U(c) \in Listed(b) \ b.reauth
       THEN Persist(M(c), [b EXCEPT !.reauth = @ \cup {U(c)}])
       ELSE UNCHANGED <<registry, book, mail>>
    /\ UNCHANGED <<sessions, booting, gone, begun>>

\* The page is loaded again.  restore takes the registry, with another active
\* profile if that one's record is gone, and brings its session up.
Reload(m) ==
    /\ m \in Reloading /\ booting[m] = None /\ HostActs
    /\ \E a \in IF registry.active \in Listed(registry) \cup {None} THEN {registry.active}
                ELSE IF Listed(registry) = {} THEN {None} ELSE Listed(registry) :
        /\ book' = [book EXCEPT ![m] = [registry EXCEPT !.active = a]]
        /\ sdk' = [sdk EXCEPT ![m] = [u \in Users |-> IF u = a THEN "new" ELSE "none"]]
        /\ booting' = [booting EXCEPT ![m] = a]
    /\ tok' = [tok EXCEPT ![m] = [u \in Users |-> NoToken]]
    /\ call' = [c \in Calls |-> IF M(c) = m THEN Idle ELSE call[c]]
    /\ mail' = mail \ {m}
    /\ UNCHANGED <<registry, store, cookie, gone>>

\* A bearer that came up clears the flag of its record.
Restore(m) ==
    LET u == booting[m] IN
    /\ u # None
    /\ booting' = [booting EXCEPT ![m] = None]
    /\ \/ /\ sdk[m][u] = "new" /\ sdk' = [sdk EXCEPT ![m][u] = "up"]
          /\ \E t \in Restored(tok[m][u], u) :
                /\ tok' = [tok EXCEPT ![m][u] = t] /\ Keep(u, tok[m][u], t)
       \/ sdk[m][u] # "new" /\ UNCHANGED sessions
    /\ book' = IF tok'[m][u].bearer \in {"live", "stale"} /\ u \in Listed(book[m])
               THEN [book EXCEPT ![m].reauth = @ \ {u}] ELSE book
    /\ UNCHANGED <<registry, mail, call, gone, begun>>

\* A lifetime passes without a refresh: the bearers of a session expire.
Aged(t) == IF t.bearer = "live" THEN [t EXCEPT !.bearer = "stale"] ELSE t
Expire(u) ==
    /\ \E t \in {store[u]} \cup {tok[m][u] : m \in Managers} : t.bearer = "live"
    /\ tok' = [m \in Managers |-> [tok[m] EXCEPT ![u] = Aged(@)]]
    /\ store' = [store EXCEPT ![u] = Aged(@)]
    /\ UNCHANGED <<registry, book, sdk, cookie, booting, mail, call, gone, begun>>

-----------------------------------------------------------------------------
CallStep(c) ==
    \/ StartAdd(c) \/ StageLogin(c) \/ LoginFails(c) \/ InstallProfile(c)
    \/ AwaitReady(c) \/ EnsureLive(c) \/ OwnsSession(c) \/ SettleHydrate(c)
    \/ SignOutProfile(c) \/ DropProfile(c) \/ LoadRegistry(c) \/ SyncFromRegistry(c)
    \/ OnUnauthorized(c)
    \/ \E u \in Users : LoginAs(c, u) \/ StartSwitch(c, u) \/ StartRemove(c, u) \/ SessionExpired(c, u)

Next == \/ \E c \in Calls : CallStep(c)
        \/ \E m \in Managers : Reload(m) \/ Restore(m)
        \/ \E u \in Users : Expire(u)

Spec == Init /\ [][Next]_vars

-----------------------------------------------------------------------------
\* Type invariant.
TypeOK ==
    /\ registry \in Book /\ book \in [Managers -> Book]
    /\ sdk \in [Managers -> [Users -> {"none", "new", "up"}]]
    /\ tok \in [Managers -> [Users -> Tokens]] /\ store \in [Users -> Tokens]
    /\ cookie \in Users \cup {None} /\ booting \in [Managers -> Users \cup {None}]
    /\ mail \subseteq Managers /\ call \in [Calls -> Call] /\ gone \subseteq Users
    /\ begun \in 0..MaxCalls

\* The active profile is one of the listed, and one is active while any is
\* listed: in every tab and in the registry, also between the steps of two
\* removals that overlap (remove promotes, restore heals the pointer).
ActiveIsListed ==
    \A b \in {registry} \cup {book[m] : m \in Managers} :
        IF Listed(b) = {} THEN b.active = None ELSE b.active \in Listed(b)

\* With no call in progress and no message to read, every tab lists the same
\* profiles and agrees on who is signed in (syncFromRegistry's comment).
AtRest == mail = {} /\ (\A c \in Calls : ~Busy(c)) /\ \A m \in Managers : booting[m] = None
TabsAgree ==
    AtRest => \A m \in Managers :
        Listed(book[m]) = Listed(registry) /\ book[m].active = registry.active

\* A profile that was signed out is listed in no tab when all is at rest, unless
\* its user signed in again, after a removal that overlapped other calls of its
\* tab, syncs of the others and expiries in any of them.
RemovedStaysOut ==
    AtRest => \A u \in gone : \A m \in Managers : u \notin Listed(book[m])
=============================================================================
