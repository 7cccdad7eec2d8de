----------------------------- MODULE HttpClient -----------------------------
(***************************************************************************)
(* The 401 handling of HttpClient (src/httpClient.ts): requests that race  *)
(* with each other, with the refresh of the bearer they were rejected for, *)
(* with the host's onUnauthorized callback and with whatever installs or   *)
(* ends a session meanwhile.  Each action runs one request from one await  *)
(* to the next.                                                            *)
(***************************************************************************)
EXTENDS Naturals

CONSTANTS
    Reqs,         \* requests that may be out at once
    Users,        \* the subjects bearers are issued for
    MidCascade,   \* TRUE: a session may be installed while onUnauthorized runs
    MaxGen,       \* bound: bearers issued
    None

ASSUME BoundAssumption == MaxGen \in Nat
\* Whose a bearer is can be read from a JWT, not from an opaque token.
Bearer == [user : Users, gen : 1..MaxGen, readable : BOOLEAN]
Maybe == Bearer \cup {None}
ASSUME NoneAssumption == None \notin Bearer

VARIABLES
    hasHandler,    \* options.onRefreshTokens is given
    bearer,        \* the access token getAuthTokens() returns
    issued,        \* bearers issued so far
    isRefreshing,
    isLoggingOut,  \* the one-shot logout latch
    blocked,       \* Date.now() < refreshBlockedUntil
    req,           \* the requests; those at "queued" make up refreshQueue
    condemned      \* ghost: the session was found dead and none installed since

vars == <<hasHandler, bearer, issued, isRefreshing, isLoggingOut, blocked, req, condemned>>

PCs == {"idle", "out", "queued", "refreshing", "granted", "expired", "failed", "cascade", "retry"}

Request == [pc : PCs, sent : Maybe, got : Maybe]

Idle == [pc |-> "idle", sent |-> None, got |-> None]

Init ==
    /\ hasHandler \in BOOLEAN /\ bearer = None /\ issued = 0
    /\ isRefreshing = FALSE /\ isLoggingOut = FALSE /\ blocked = FALSE
    /\ req = [r \in Reqs |-> Idle] /\ condemned = FALSE

At(r, pc) == req[r].pc = pc

-----------------------------------------------------------------------------
\* A session is installed: setTokens() clears the latch and the backoff.

ResetAuthLatch == isLoggingOut' = FALSE /\ blocked' = FALSE

Installs(b) ==
    /\ issued < MaxGen /\ b.gen = issued + 1
    /\ bearer' = b /\ issued' = b.gen
    /\ ResetAuthLatch
    /\ condemned' = FALSE

\* A login, a restored session or a refresh the host asked for itself.
Install(b) ==
    /\ MidCascade \/ \A r \in Reqs : req[r].pc \notin {"expired", "cascade"}
    /\ Installs(b)
    /\ UNCHANGED <<hasHandler, isRefreshing, req>>

\* clearSession, logout, a sign-out broadcast.
SessionEnds ==
    /\ bearer # None
    /\ bearer' = None
    /\ UNCHANGED <<hasHandler, issued, isRefreshing, isLoggingOut, blocked, req, condemned>>

\* REFRESH_BACKOFF_MS have passed.
BackoffEnds ==
    /\ blocked
    /\ blocked' = FALSE
    /\ UNCHANGED <<hasHandler, bearer, issued, isRefreshing, isLoggingOut, req, condemned>>

-----------------------------------------------------------------------------
\* request(): send, and the answer to the first fetch.

AnySubject(a, b) == TRUE

\* Bearers that cannot be compared, missing or opaque, count as a match.
SameSubject(a, b) == a = None \/ ~a.readable \/ ~b.readable \/ a.user = b.user

\* A request that got a bearer, from a refresh or because it moved on: replay
\* it for the same user, report the 401 otherwise or when it got none.
Replay(q, b) ==
    IF b # None /\ SameSubject(q.sent, b) THEN [q EXCEPT !.pc = "retry", !.got = b] ELSE Idle

Send(r) ==
    /\ At(r, "idle")
    /\ req' = [req EXCEPT ![r] = [Idle EXCEPT !.pc = "out", !.sent = bearer]]
    /\ UNCHANGED <<hasHandler, bearer, issued, isRefreshing, isLoggingOut, blocked, condemned>>

\* Anything but a 401 for the bearer, of the first fetch or of the retry.
Answered(r) ==
    /\ req[r].pc \in {"out", "retry"}
    /\ req' = [req EXCEPT ![r] = Idle]
    /\ UNCHANGED <<hasHandler, bearer, issued, isRefreshing, isLoggingOut, blocked, condemned>>

\* The bearer moved on while the request was out.
RejectedStale(r) ==
    /\ At(r, "out") /\ bearer # None /\ bearer # req[r].sent
    /\ req' = [req EXCEPT ![r] = Replay(@, bearer)]
    /\ UNCHANGED <<hasHandler, bearer, issued, isRefreshing, isLoggingOut, blocked, condemned>>

\* refreshTokens() is called: no later bearer is there to retry with.
Unrecovered(r) == At(r, "out") /\ (bearer = None \/ bearer = req[r].sent)

NoFlight == FALSE

FlightOn == isRefreshing

\* The early returns: the latch is set, or the backoff window is open.
RefreshSkipped(r) ==
    /\ Unrecovered(r)
    /\ isLoggingOut \/ (hasHandler /\ ~FlightOn /\ blocked)
    /\ req' = [req EXCEPT ![r] = Idle]
    /\ UNCHANGED <<hasHandler, bearer, issued, isRefreshing, isLoggingOut, blocked, condemned>>

NoLatch == UNCHANGED isLoggingOut

Latch == isLoggingOut' = TRUE

\* Without a handler a 401 is final.
NoRefreshHandler(r) ==
    /\ Unrecovered(r) /\ ~isLoggingOut /\ ~hasHandler
    /\ Latch
    /\ req' = [req EXCEPT ![r].pc = "cascade"]
    /\ condemned' = TRUE
    /\ UNCHANGED <<hasHandler, bearer, issued, isRefreshing, blocked>>

JoinRefresh(r) ==
    /\ Unrecovered(r) /\ ~isLoggingOut /\ hasHandler /\ FlightOn
    /\ req' = [req EXCEPT ![r].pc = "queued"]
    /\ UNCHANGED <<hasHandler, bearer, issued, isRefreshing, isLoggingOut, blocked, condemned>>

StartRefresh(r) ==
    /\ Unrecovered(r) /\ ~isLoggingOut /\ hasHandler /\ ~FlightOn /\ ~blocked
    /\ isRefreshing' = TRUE
    /\ req' = [req EXCEPT ![r].pc = "refreshing"]
    /\ UNCHANGED <<hasHandler, bearer, issued, isLoggingOut, blocked, condemned>>

-----------------------------------------------------------------------------
\* onRefreshTokens, as SessionManager wires it to refreshTokenOrThrow: the new
\* tokens are installed before the promise resolves, a definitive rejection
\* clears the session first (or a sign-out that intervened does), a transient
\* failure leaves it.

HandlerGrants(r, b) ==
    /\ At(r, "refreshing")
    /\ Installs(b)
    /\ req' = [req EXCEPT ![r].pc = "granted", ![r].got = b]
    /\ UNCHANGED <<hasHandler, isRefreshing>>

\* The handler resolves with nothing: no session to refresh, a failure it
\* takes for temporary, a result that a sign-out discarded.
HandlerDeclines(r) ==
    /\ At(r, "refreshing")
    /\ req' = [req EXCEPT ![r].pc = "granted"]
    /\ UNCHANGED <<hasHandler, bearer, issued, isRefreshing, isLoggingOut, blocked, condemned>>

HandlerExpires(r) ==
    /\ At(r, "refreshing")
    /\ req' = [req EXCEPT ![r].pc = "expired"]
    /\ bearer' = None /\ condemned' = TRUE
    /\ UNCHANGED <<hasHandler, issued, isRefreshing, isLoggingOut, blocked>>

HandlerFails(r) ==
    /\ At(r, "refreshing")
    /\ req' = [req EXCEPT ![r].pc = "failed"]
    /\ UNCHANGED <<hasHandler, bearer, issued, isRefreshing, isLoggingOut, blocked, condemned>>

-----------------------------------------------------------------------------
\* The rest of refreshTokens(): the queue is settled with the leader.

SettledEmpty(q, b) == [q EXCEPT !.pc = "retry"]

Settled(q, b) == Replay(q, b)

RefreshLands(r) ==
    LET b == req[r].got IN
    /\ At(r, "granted")
    /\ blocked' = FALSE /\ isRefreshing' = FALSE
    /\ req' = [q \in Reqs |-> IF q = r \/ At(q, "queued") THEN Settled(req[q], b) ELSE req[q]]
    /\ UNCHANGED <<hasHandler, bearer, issued, isLoggingOut, condemned>>

QueueKept(q) == q

\* Queued callers reject with the refresh error.
Rejected(q) == IF q.pc = "queued" THEN Idle ELSE q

\* Definitive: the latch goes up and onUnauthorized is awaited with the flight
\* still marked as on.
RefreshRefused(r) ==
    /\ At(r, "expired")
    /\ IF isLoggingOut
       THEN /\ isRefreshing' = FALSE /\ UNCHANGED isLoggingOut
            /\ req' = [q \in Reqs |-> IF q = r THEN Idle ELSE Rejected(req[q])]
       ELSE /\ Latch /\ UNCHANGED isRefreshing
            /\ req' = [q \in Reqs |-> IF q = r THEN [req[r] EXCEPT !.pc = "cascade"]
                                                ELSE Rejected(req[q])]
    /\ UNCHANGED <<hasHandler, bearer, issued, blocked, condemned>>

TransientLatches == isLoggingOut' = TRUE

TransientSpares == UNCHANGED isLoggingOut

RefreshFailed(r) ==
    /\ At(r, "failed")
    /\ blocked' = TRUE /\ isRefreshing' = FALSE
    /\ TransientSpares
    /\ req' = [q \in Reqs |-> IF q = r THEN Idle ELSE Rejected(req[q])]
    /\ UNCHANGED <<hasHandler, bearer, issued, condemned>>

CascadeEnds(r) ==
    /\ At(r, "cascade")
    /\ isRefreshing' = (isRefreshing /\ ~hasHandler)
    /\ req' = [req EXCEPT ![r] = Idle]
    /\ UNCHANGED <<hasHandler, bearer, issued, isLoggingOut, blocked, condemned>>

-----------------------------------------------------------------------------
Answer(r) == Answered(r) \/ RejectedStale(r) \/ RefreshSkipped(r) \/ NoRefreshHandler(r)
             \/ JoinRefresh(r) \/ StartRefresh(r)

Handler(r) == (\E b \in Bearer : HandlerGrants(r, b)) \/ HandlerDeclines(r) \/ HandlerExpires(r)
              \/ HandlerFails(r)

Resume(r) == RefreshLands(r) \/ RefreshRefused(r) \/ RefreshFailed(r) \/ CascadeEnds(r)

Next == \/ \E r \in Reqs : Send(r) \/ Answer(r) \/ Handler(r) \/ Resume(r)
        \/ \E b \in Bearer : Install(b)
        \/ SessionEnds \/ BackoffEnds

Spec == Init /\ [][Next]_vars

\* Every fetch is answered, the refresh handler and onUnauthorized settle.
LiveSpec == Spec /\ \A r \in Reqs : WF_vars(Answer(r)) /\ WF_vars(Handler(r)) /\ WF_vars(Resume(r))

-----------------------------------------------------------------------------
\* Properties

\* The state has its type, and a request is replayed with a bearer only.
TypeOK ==
    /\ hasHandler \in BOOLEAN /\ bearer \in Maybe /\ issued \in 0..MaxGen
    /\ isRefreshing \in BOOLEAN /\ isLoggingOut \in BOOLEAN /\ blocked \in BOOLEAN
    /\ condemned \in BOOLEAN /\ req \in [Reqs -> Request]
    /\ \A r \in Reqs : At(r, "retry") => req[r].got # None

\* The logout cascade "fires exactly once": no two requests run onUnauthorized
\* side by side, whether they were refused a refresh or had no handler to ask.
OneCascade ==
    \A r, s \in Reqs : At(r, "cascade") /\ At(s, "cascade") => r = s

\* The latch is up only over a session that was definitively refused: neither a
\* transient failure nor a session installed since leaves 401s unrecoverable.
LatchNeedsVerdict == isLoggingOut => condemned

\* Replaying a request "would run this user's request as them": whichever way a
\* bearer reaches a rejected request, through the queue, its own refresh or
\* the token provider, it is replayed for the user it was sent as, wherever both
\* bearers say whose they are (opaque tokens count as a match).
ReplaySameUser ==
    [][\A r \in Reqs : /\ ~At(r, "retry") /\ req'[r].pc = "retry"
                       /\ req'[r].sent # None /\ req'[r].sent.readable /\ req'[r].got.readable
        => req'[r].got.user = req[r].sent.user]_vars

\* Every request settles: a caller that joined a refresh is not left behind.
RequestsSettle == \A r \in Reqs : ~At(r, "idle") ~> At(r, "idle")

\* The refresh queue keeps the promise of SharedFlight.
Role(r) == CASE req[r].pc \in {"refreshing", "granted", "expired", "failed"} -> "leading"
             [] req[r].pc = "queued" -> "joined"
             [] OTHER -> "idle"

roles == [r \in Reqs |-> Role(r)]

Flight == INSTANCE SharedFlight WITH Callers <- Reqs, caller <- roles

\* refreshTokens() implements a shared flight: one refresh at a time, joined
\* only while it can still settle the caller, and landing for everyone at once.
SharesOneFlight == Flight!Spec
=============================================================================
