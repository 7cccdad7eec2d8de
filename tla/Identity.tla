------------------------------ MODULE Identity ------------------------------
(***************************************************************************)
(* As whom a request is sent.  The tabs of one origin share a local storage *)
(* with the acting context (delegated access to another account) and, as    *)
(* the token provider has it, with tokens; each tab has its own memory.     *)
(* Requests take their headers when they are sent and are answered later,   *)
(* while contexts are set, expire and are rejected, pages are loaded again  *)
(* and a sign-out in one tab reaches the others as a message.  A sign-out   *)
(* drops the context when it begins and the bearer when it ends: its own    *)
(* POST, and whatever else the tab sends in between, has the old bearer.    *)
(***************************************************************************)
EXTENDS Naturals

CONSTANTS
    Tabs, Reqs, None,
    MaxSets,      \* bound: contexts set
    MaxOuts,      \* bound: sign-outs
    MaxReloads    \* bound: reloads

VARIABLES
    provider,   \* which TokenProvider is in use
    access,     \* the access token in each tab's memory
    tokens,     \* the tokens in the local storage
    acting,     \* actingContext, in each tab's memory
    stored,     \* actingContextKey in the local storage
    expired,    \* the contexts whose expiresAt has passed
    req,        \* the requests
    mail,       \* tabs that have yet to hear of a sign-out
    leaving,    \* the tabs amid a sign-out of theirs
    outs,       \* sign-outs so far
    heard,      \* ghost: the last sign-out each tab began or heard of
    dropped,    \* ghost: the last one after which it dropped its bearer
    sets, reloads

vars == <<provider, access, tokens, acting, stored, expired, req, mail, leaving,
          outs, heard, dropped, sets, reloads>>
signOuts == <<mail, leaving, outs, heard, dropped>>

Providers == {"memory", "storage", "hybrid"}
\* A context, and a session, knows how many sign-outs came before it.
Contexts == [id : 1..MaxSets, born : 0..MaxOuts]
Sessions == 0..MaxOuts

Idle == [pc |-> "idle", tab |-> None, bearer |-> None, context |-> None,
         since |-> 0, dropped |-> 0]

Init ==
    /\ provider \in Providers
    /\ access = [t \in Tabs |-> None] /\ tokens = None
    /\ acting = [t \in Tabs |-> None] /\ stored = None /\ expired = {}
    /\ req = [r \in Reqs |-> Idle] /\ mail = {} /\ leaving = {} /\ outs = 0
    /\ heard = [t \in Tabs |-> 0] /\ dropped = [t \in Tabs |-> 0] /\ sets = 0 /\ reloads = 0

-----------------------------------------------------------------------------
\* The token providers.

\* The bearer getTokens() returns: from memory, or from the local storage.
GetAccess(t) == IF provider = "storage" THEN tokens ELSE access[t]

\* memory keeps the tokens in the tab, storage in the local storage, hybrid the
\* access token in the tab and the refresh token in the local storage.
SetTokens(t, s) ==
    /\ access' = IF provider = "storage" THEN access ELSE [access EXCEPT ![t] = s]
    /\ tokens' = IF provider = "memory" THEN tokens ELSE s

-----------------------------------------------------------------------------
\* The acting context.

ActAs(t, c) == acting' = [acting EXCEPT ![t] = c] /\ stored' = c

\* A bug to rule out: only the memory of the tab is cleared.
ForgetsInMemory(t) == acting' = [acting EXCEPT ![t] = None] /\ stored' = stored

ClearActingContext(t) == ActAs(t, None)

\* isActing(): an expired context is dropped, here and in the local storage.
Expired(t) == acting[t] # None /\ acting[t].id \in expired
DropExpired(t) == IF Expired(t) THEN ClearActingContext(t) ELSE UNCHANGED <<acting, stored>>
ActingNow(t) == IF Expired(t) THEN None ELSE acting[t]

SetActingContext(t) ==
    /\ sets < MaxSets
    /\ sets' = sets + 1
    /\ ActAs(t, [id |-> sets + 1, born |-> outs])
    /\ UNCHANGED <<provider, access, tokens, expired, req, reloads, signOuts>>

\* getActingContext(): memory first, else what the local storage has.
GetActingContext(t) ==
    /\ acting[t] = None /\ stored # None
    /\ acting' = [acting EXCEPT ![t] = stored]
    /\ UNCHANGED <<provider, access, tokens, stored, expired, req, sets, reloads,
                   signOuts>>

StopActing(t) ==
    /\ acting[t] # None \/ stored # None
    /\ ClearActingContext(t)
    /\ UNCHANGED <<provider, access, tokens, expired, req, sets, reloads, signOuts>>

IsActing(t) ==
    /\ Expired(t) /\ ClearActingContext(t)
    /\ UNCHANGED <<provider, access, tokens, expired, req, sets, reloads, signOuts>>

Expire(i) ==
    /\ i <= sets /\ i \notin expired
    /\ expired' = expired \cup {i}
    /\ UNCHANGED <<provider, access, tokens, acting, stored, req, sets, reloads,
                   signOuts>>

-----------------------------------------------------------------------------
\* Requests.

\* The headers are taken from the tokens and the context of the moment.
Send(t, r) ==
    /\ req[r].pc = "idle"
    /\ req' = [req EXCEPT ![r] = [pc |-> "out", tab |-> t, bearer |-> GetAccess(t),
                                  context |-> ActingNow(t), since |-> heard[t],
                                  dropped |-> dropped[t]]]
    /\ DropExpired(t)
    /\ UNCHANGED <<provider, access, tokens, expired, sets, reloads, signOuts>>

Answered(r) ==
    /\ req[r].pc \in {"out", "replayed"}
    /\ req' = [req EXCEPT ![r] = Idle]
    /\ UNCHANGED <<provider, access, tokens, acting, stored, expired, sets, reloads,
                   signOuts>>

\* The context is rejected: whatever context the tab has by now is cleared.
ContextRejected(r) ==
    /\ req[r].pc = "out" /\ req[r].context # None
    /\ req' = [req EXCEPT ![r] = Idle]
    /\ ClearActingContext(req[r].tab)
    /\ UNCHANGED <<provider, access, tokens, expired, sets, reloads, signOuts>>

\* The bearer is rejected and another is live by now: the same headers go out
\* again with the live bearer.
Replay(r) ==
    /\ req[r].pc = "out" /\ GetAccess(req[r].tab) \notin {None, req[r].bearer}
    /\ req' = [req EXCEPT ![r].pc = "replayed", ![r].bearer = GetAccess(req[r].tab)]
    /\ UNCHANGED <<provider, access, tokens, acting, stored, expired, sets, reloads,
                   signOuts>>

-----------------------------------------------------------------------------
\* Sessions.

Login(t) ==
    /\ GetAccess(t) = None
    /\ SetTokens(t, outs)
    /\ UNCHANGED <<provider, acting, stored, expired, req, sets, reloads, signOuts>>

\* beginSignOut: the context is dropped and the other tabs are told; the
\* tokens stay until finishSignOut.
BeginSignOut(t) ==
    /\ outs < MaxOuts /\ t \notin leaving
    /\ leaving' = leaving \cup {t}
    /\ outs' = outs + 1 /\ heard' = [heard EXCEPT ![t] = outs + 1]
    /\ ClearActingContext(t)
    /\ mail' = mail \cup (Tabs \ {t})
    /\ UNCHANGED <<provider, access, tokens, expired, req, dropped, sets, reloads>>

\* finishSignOut, once the POST of logout() is answered: clearSession.
FinishSignOut(t) ==
    /\ t \in leaving
    /\ leaving' = leaving \ {t}
    /\ SetTokens(t, None) /\ dropped' = [dropped EXCEPT ![t] = heard[t]]
    /\ UNCHANGED <<provider, acting, stored, expired, req, mail, outs, heard, sets, reloads>>

\* onRemoteSignOut: both at once.
RemoteSignOut(t) ==
    /\ t \in mail
    /\ mail' = mail \ {t}
    /\ heard' = [heard EXCEPT ![t] = outs] /\ dropped' = [dropped EXCEPT ![t] = outs]
    /\ ClearActingContext(t)
    /\ SetTokens(t, None)
    /\ UNCHANGED <<provider, leaving, expired, req, outs, sets, reloads>>

\* The page is loaded again: its memory, requests and messages are gone, and
\* so is the rest of a sign-out it began.
Reload(t) ==
    /\ reloads < MaxReloads /\ reloads' = reloads + 1
    /\ acting' = [acting EXCEPT ![t] = None] /\ access' = [access EXCEPT ![t] = None]
    /\ req' = [r \in Reqs |-> IF req[r].tab = t THEN Idle ELSE req[r]]
    /\ mail' = mail \ {t} /\ leaving' = leaving \ {t}
    /\ UNCHANGED <<provider, tokens, stored, expired, outs, heard, dropped, sets>>

Next ==
    \/ \E t \in Tabs : \/ SetActingContext(t) \/ GetActingContext(t) \/ StopActing(t)
                       \/ IsActing(t) \/ Login(t) \/ BeginSignOut(t) \/ FinishSignOut(t)
                       \/ RemoteSignOut(t) \/ Reload(t) \/ \E r \in Reqs : Send(t, r)
    \/ \E r \in Reqs : Answered(r) \/ ContextRejected(r) \/ Replay(r)
    \/ \E i \in 1..MaxSets : Expire(i)

Spec == Init /\ [][Next]_vars

-----------------------------------------------------------------------------
\* Properties.

\* Type invariant.
TypeOK ==
    /\ provider \in Providers
    /\ access \in [Tabs -> Sessions \cup {None}] /\ tokens \in Sessions \cup {None}
    /\ acting \in [Tabs -> Contexts \cup {None}] /\ stored \in Contexts \cup {None}
    /\ expired \subseteq 1..MaxSets /\ mail \subseteq Tabs /\ leaving \subseteq Tabs
    /\ req \in [Reqs -> [pc : {"idle", "out", "replayed"}, tab : Tabs \cup {None},
                         bearer : Sessions \cup {None}, context : Contexts \cup {None},
                         since : 0..MaxOuts, dropped : 0..MaxOuts]]
    /\ outs \in 0..MaxOuts
    /\ heard \in [Tabs -> 0..MaxOuts] /\ dropped \in [Tabs -> 0..MaxOuts]
    /\ sets \in 0..MaxSets /\ reloads \in 0..MaxReloads

\* A tab that began a sign-out or heard of one sends no request as an account
\* it came to act for before it, and one that ended a sign-out or heard of one
\* sends none with a bearer of before it: not from its memory, and not from
\* the local storage after a reload.  (A tab amid its own sign-out still has
\* its bearer, and logout() posts with it.  A context set in that window is of
\* after the beginning: nothing drops it.  A replay keeps its first context.)
NothingAcrossSignOut ==
    \A r \in Reqs : req[r].pc = "out" =>
        /\ req[r].context # None => req[r].context.born >= req[r].since
        /\ req[r].bearer # None => req[r].bearer >= req[r].dropped
=============================================================================
