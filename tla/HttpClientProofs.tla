-------------------------- MODULE HttpClientProofs --------------------------
(***************************************************************************)
(* Proofs about HttpClient, for any number of requests, users and bearers. *)
(***************************************************************************)
EXTENDS HttpClient, TLAPS

-----------------------------------------------------------------------------
\* What the updates of a request do to it.

LEMMA IdleRequest == Idle \in Request /\ Idle.pc = "idle"
  BY DEF Idle, Request, PCs, Maybe

LEMMA MoveUpdate ==
  ASSUME NEW q \in Request, NEW c \in PCs
  PROVE  /\ [q EXCEPT !.pc = c] \in Request
         /\ [q EXCEPT !.pc = c].pc = c
         /\ [q EXCEPT !.pc = c].got = q.got /\ [q EXCEPT !.pc = c].sent = q.sent
  BY DEF Request

LEMMA GetUpdate ==
  ASSUME NEW q \in Request, NEW c \in PCs, NEW b \in Maybe
  PROVE  /\ [q EXCEPT !.pc = c, !.got = b] \in Request
         /\ [q EXCEPT !.pc = c, !.got = b].pc = c
         /\ [q EXCEPT !.pc = c, !.got = b].got = b
         /\ [q EXCEPT !.pc = c, !.got = b].sent = q.sent
  BY DEF Request

LEMMA SendUpdate ==
  ASSUME NEW c \in PCs, NEW b \in Maybe
  PROVE  /\ [Idle EXCEPT !.pc = c, !.sent = b] \in Request
         /\ [Idle EXCEPT !.pc = c, !.sent = b].pc = c
  BY DEF Idle, Request, Maybe

LEMMA ReplayUpdates ==
  ASSUME NEW q \in Request, NEW b \in Maybe
  PROVE  /\ Replay(q, b) \in Request
         /\ Replay(q, b).pc \in {"idle", "retry"}
         /\ Replay(q, b).pc = "retry" => /\ Replay(q, b).got = b /\ Replay(q, b).sent = q.sent
                                         /\ b # None /\ SameSubject(q.sent, b)
  <1>1. "retry" \in PCs
    BY DEF PCs
  <1>2. CASE b # None /\ SameSubject(q.sent, b)
    BY <1>1, <1>2 DEF Replay, Request
  <1>3. CASE ~(b # None /\ SameSubject(q.sent, b))
    BY <1>3, IdleRequest DEF Replay
  <1> QED BY <1>2, <1>3

\* A step in which request r moves to c and no other request moves.
Moves(r, c) ==
    /\ req' \in [Reqs -> Request]
    /\ req'[r].pc = c
    /\ \A q \in Reqs \ {r} : req'[q] = req[q]

LEMMA OneMoves ==
  ASSUME TypeOK, NEW r \in Reqs, NEW c \in PCs, req' = [req EXCEPT ![r].pc = c]
  PROVE  Moves(r, c) /\ req'[r].got = req[r].got /\ req'[r].sent = req[r].sent
  <1>1. req[r] \in Request
    BY DEF TypeOK
  <1>2. req' = [req EXCEPT ![r] = [req[r] EXCEPT !.pc = c]]
    BY DEF TypeOK
  <1>3. [req[r] EXCEPT !.pc = c] \in Request
    BY <1>1, MoveUpdate
  <1>4. req'[r] = [req[r] EXCEPT !.pc = c]
    BY <1>2 DEF TypeOK
  <1>5. req'[r].pc = c /\ req'[r].got = req[r].got /\ req'[r].sent = req[r].sent
    BY <1>1, <1>4 DEF Request
  <1>6. req' \in [Reqs -> Request] /\ \A q \in Reqs \ {r} : req'[q] = req[q]
    BY <1>2, <1>3 DEF TypeOK
  <1> QED BY <1>5, <1>6 DEF Moves

LEMMA OneBecomes ==
  ASSUME TypeOK, NEW r \in Reqs, NEW q \in Request, req' = [req EXCEPT ![r] = q]
  PROVE  Moves(r, q.pc) /\ req'[r] = q
  BY DEF TypeOK, Moves

LEMMA OneGets ==
  ASSUME TypeOK, NEW r \in Reqs, NEW c \in PCs, NEW b \in Bearer,
         req' = [req EXCEPT ![r].pc = c, ![r].got = b]
  PROVE  Moves(r, c) /\ req'[r].got = b
  <1>1. req[r] \in Request /\ b \in Maybe
    BY DEF TypeOK, Maybe
  <1>2. req' = [req EXCEPT ![r] = [req[r] EXCEPT !.pc = c, !.got = b]]
    BY DEF TypeOK
  <1>3. [req[r] EXCEPT !.pc = c, !.got = b] \in Request
    BY <1>1, GetUpdate
  <1>4. req'[r] = [req[r] EXCEPT !.pc = c, !.got = b]
    BY <1>2 DEF TypeOK
  <1>5. req'[r].pc = c /\ req'[r].got = b
    BY <1>1, <1>4 DEF Request
  <1>6. req' \in [Reqs -> Request] /\ \A q \in Reqs \ {r} : req'[q] = req[q]
    BY <1>2, <1>3 DEF TypeOK
  <1> QED BY <1>5, <1>6 DEF Moves

\* The queue is refused: request r takes the state s, those queued end.
LEMMA AllRefused ==
  ASSUME TypeOK, NEW r \in Reqs, NEW s \in Request,
         req' = [q \in Reqs |-> IF q = r THEN s ELSE Rejected(req[q])]
  PROVE  /\ req' \in [Reqs -> Request]
         /\ req'[r] = s
         /\ \A q \in Reqs \ {r} : IF At(q, "queued") THEN req'[q].pc = "idle" ELSE req'[q] = req[q]
  BY IdleRequest DEF TypeOK, Rejected, At

\* The queue is served, and its leader r with it.
LEMMA AllServed ==
  ASSUME TypeOK, NEW r \in Reqs, NEW b \in Maybe,
         req' = [q \in Reqs |-> IF q = r \/ At(q, "queued") THEN Settled(req[q], b) ELSE req[q]]
  PROVE  /\ req' \in [Reqs -> Request]
         /\ \A q \in Reqs : IF q = r \/ At(q, "queued")
                             THEN req'[q] = Replay(req[q], b) ELSE req'[q] = req[q]
  <1>1. \A q \in Reqs : req[q] \in Request /\ Replay(req[q], b) \in Request
    BY ReplayUpdates DEF TypeOK
  <1> QED BY <1>1 DEF Settled

\* Each action that concerns one request, by where that request goes.
LEMMA RequestSteps ==
  ASSUME TypeOK, NEW r \in Reqs
  PROVE  /\ Send(r) => Moves(r, "out")
         /\ Answered(r) => Moves(r, "idle")
         /\ RefreshSkipped(r) => Moves(r, "idle")
         /\ NoRefreshHandler(r) => Moves(r, "cascade")
         /\ JoinRefresh(r) => Moves(r, "queued")
         /\ StartRefresh(r) => Moves(r, "refreshing")
         /\ HandlerExpires(r) => Moves(r, "expired")
         /\ HandlerFails(r) => Moves(r, "failed")
         /\ HandlerDeclines(r) => Moves(r, "granted")
         /\ CascadeEnds(r) => Moves(r, "idle")
         /\ \A b \in Bearer : HandlerGrants(r, b) => Moves(r, "granted") /\ req'[r].got = b
  <1>1. /\ "out" \in PCs /\ "cascade" \in PCs /\ "queued" \in PCs /\ "refreshing" \in PCs
        /\ "expired" \in PCs /\ "failed" \in PCs /\ "granted" \in PCs
    BY DEF PCs
  <1>2. bearer \in Maybe
    BY DEF TypeOK
  <1>3. ASSUME Send(r) PROVE Moves(r, "out")
    <2> DEFINE q == [Idle EXCEPT !.pc = "out", !.sent = bearer]
    <2>1. q \in Request /\ q.pc = "out"
      BY <1>1, <1>2, SendUpdate
    <2>2. req' = [req EXCEPT ![r] = q]
      BY <1>3 DEF Send
    <2> HIDE DEF q
    <2> QED BY <2>1, <2>2, OneBecomes
  <1>4. ASSUME Answered(r) \/ RefreshSkipped(r) \/ CascadeEnds(r) PROVE Moves(r, "idle")
    BY <1>4, IdleRequest, OneBecomes DEF Answered, RefreshSkipped, CascadeEnds
  <1>5. ASSUME NoRefreshHandler(r) PROVE Moves(r, "cascade")
    BY <1>1, <1>5, OneMoves DEF NoRefreshHandler
  <1>6. ASSUME JoinRefresh(r) PROVE Moves(r, "queued")
    BY <1>1, <1>6, OneMoves DEF JoinRefresh
  <1>7. ASSUME StartRefresh(r) PROVE Moves(r, "refreshing")
    BY <1>1, <1>7, OneMoves DEF StartRefresh
  <1>8. ASSUME HandlerExpires(r) PROVE Moves(r, "expired")
    BY <1>1, <1>8, OneMoves DEF HandlerExpires
  <1>9. ASSUME HandlerFails(r) PROVE Moves(r, "failed")
    BY <1>1, <1>9, OneMoves DEF HandlerFails
  <1>10. ASSUME NEW b \in Bearer, HandlerGrants(r, b)
         PROVE  Moves(r, "granted") /\ req'[r].got = b
    BY <1>1, <1>10, OneGets DEF HandlerGrants
  <1>11. ASSUME HandlerDeclines(r) PROVE Moves(r, "granted")
    BY <1>1, <1>11, OneMoves DEF HandlerDeclines
  <1> QED BY <1>3, <1>4, <1>5, <1>6, <1>7, <1>8, <1>9, <1>10, <1>11

\* A rejected request finds a newer bearer.
LEMMA StaleStep ==
  ASSUME TypeOK, NEW r \in Reqs, RejectedStale(r)
  PROVE  /\ bearer \in Bearer
         /\ req' \in [Reqs -> Request]
         /\ req'[r] = Replay(req[r], bearer)
         /\ \A q \in Reqs \ {r} : req'[q] = req[q]
  <1>1. bearer \in Bearer /\ req[r] \in Request
    BY DEF TypeOK, RejectedStale, Maybe
  <1>2. Replay(req[r], bearer) \in Request
    BY <1>1, ReplayUpdates DEF Maybe
  <1>3. req' = [req EXCEPT ![r] = Replay(req[r], bearer)]
    BY DEF RejectedStale
  <1> QED BY <1>1, <1>2, <1>3 DEF TypeOK

\* The two ways a refresh ends badly, as seen by the requests.
LEMMA RefusalStep ==
  ASSUME TypeOK, NEW r \in Reqs, RefreshRefused(r) \/ RefreshFailed(r)
  PROVE  /\ req' \in [Reqs -> Request]
         /\ req'[r].pc = IF RefreshRefused(r) /\ ~isLoggingOut THEN "cascade" ELSE "idle"
         /\ \A q \in Reqs \ {r} : IF At(q, "queued") THEN req'[q].pc = "idle" ELSE req'[q] = req[q]
  <1>1. req[r] \in Request /\ "cascade" \in PCs
    BY DEF TypeOK, PCs
  <1>2. [req[r] EXCEPT !.pc = "cascade"] \in Request /\ [req[r] EXCEPT !.pc = "cascade"].pc = "cascade"
    BY <1>1, MoveUpdate
  <1>3. CASE RefreshFailed(r)
    <2>1. ~RefreshRefused(r)
      BY <1>3 DEF RefreshFailed, RefreshRefused, At
    <2> QED BY <1>3, <2>1, IdleRequest, AllRefused DEF RefreshFailed
  <1>4. CASE RefreshRefused(r) /\ isLoggingOut
    BY <1>4, IdleRequest, AllRefused DEF RefreshRefused
  <1>5. CASE RefreshRefused(r) /\ ~isLoggingOut
    BY <1>2, <1>5, AllRefused DEF RefreshRefused
  <1> QED BY <1>3, <1>4, <1>5

\* A refresh that lands serves its leader and the queue with one bearer or none.
LEMMA LandingStep ==
  ASSUME TypeOK, NEW r \in Reqs, RefreshLands(r)
  PROVE  /\ req[r].got \in Maybe
         /\ req' \in [Reqs -> Request]
         /\ \A q \in Reqs : IF q = r \/ At(q, "queued")
                             THEN req'[q] = Replay(req[q], req[r].got) ELSE req'[q] = req[q]
  <1>1. req[r].got \in Maybe
    BY DEF TypeOK, Request
  <1> QED BY <1>1, AllServed DEF RefreshLands

-----------------------------------------------------------------------------
\* Type correctness

LEMMA InstallsTyped ==
  ASSUME TypeOK, NEW b \in Bearer, Installs(b)
  PROVE  /\ bearer' \in Maybe /\ issued' \in 0..MaxGen
         /\ ~isLoggingOut' /\ ~blocked' /\ ~condemned'
         /\ isLoggingOut' \in BOOLEAN /\ blocked' \in BOOLEAN /\ condemned' \in BOOLEAN
  <1>1. b.gen \in 0..MaxGen
    BY BoundAssumption DEF Bearer
  <1> QED BY <1>1 DEF Installs, ResetAuthLatch, Maybe

\* What TypeOK says of the requests alone.
RequestsTyped == /\ req \in [Reqs -> Request]
                 /\ \A r \in Reqs : At(r, "retry") => req[r].got # None

LEMMA RequestsStayTyped ==
  ASSUME TypeOK, NEW r \in Reqs, Send(r) \/ Answer(r) \/ Handler(r) \/ Resume(r)
  PROVE  RequestsTyped'
  <1> USE DEF At
  <1>0. None \notin Bearer
    BY NoneAssumption
  <1>1. ASSUME NEW c \in PCs \ {"retry"}, Moves(r, c)
        PROVE  RequestsTyped'
    BY <1>1 DEF RequestsTyped, Moves, TypeOK
  <1>2. CASE Send(r) \/ Answered(r) \/ RefreshSkipped(r) \/ NoRefreshHandler(r) \/ JoinRefresh(r)
             \/ StartRefresh(r) \/ Handler(r) \/ CascadeEnds(r)
    <2>1. \/ Moves(r, "out") \/ Moves(r, "idle") \/ Moves(r, "cascade") \/ Moves(r, "queued")
          \/ Moves(r, "refreshing") \/ Moves(r, "expired") \/ Moves(r, "failed")
          \/ Moves(r, "granted")
      BY <1>2, RequestSteps DEF Handler
    <2> QED BY <1>1, <2>1 DEF PCs
  <1>4. CASE RejectedStale(r)
    <2>1. bearer \in Bearer /\ req[r] \in Request
      BY <1>4, StaleStep DEF TypeOK
    <2>2. req'[r].pc = "retry" => req'[r].got \in Bearer
      BY <1>4, <2>1, StaleStep, ReplayUpdates DEF Maybe
    <2> QED BY <1>0, <1>4, <2>2, StaleStep DEF RequestsTyped, TypeOK
  <1>5. CASE RefreshLands(r)
    <2>1. \A q \in Reqs : req[q] \in Request
      BY DEF TypeOK
    <2>2. ASSUME NEW q \in Reqs, req'[q].pc = "retry"
          PROVE  req'[q].got # None
      <3>1. CASE q = r \/ At(q, "queued")
        BY <1>0, <1>5, <2>1, <2>2, <3>1, LandingStep, ReplayUpdates
      <3>2. CASE ~(q = r \/ At(q, "queued"))
        BY <1>5, <2>2, <3>2, LandingStep DEF TypeOK
      <3> QED BY <3>1, <3>2
    <2> QED BY <1>5, <2>2, LandingStep DEF RequestsTyped
  <1>6. CASE RefreshRefused(r) \/ RefreshFailed(r)
    BY <1>6, RefusalStep DEF RequestsTyped, TypeOK
  <1> QED BY <1>2, <1>4, <1>5, <1>6 DEF Answer, Resume

\* Whatever happens, the state of the client and of its requests has its type,
\* and no request is replayed without a bearer (request, refreshTokens).
THEOREM HttpTypeCorrect == Spec => []TypeOK
  <1>1. Init => TypeOK
    <2> SUFFICES ASSUME Init PROVE TypeOK
      OBVIOUS
    <2>1. req \in [Reqs -> Request] /\ \A r \in Reqs : req[r].pc = "idle"
      BY IdleRequest DEF Init
    <2>2. None \in Maybe /\ 0 \in 0..MaxGen
      BY BoundAssumption DEF Maybe
    <2> QED BY <2>1, <2>2 DEF Init, TypeOK, At
  <1>2. TypeOK /\ [Next]_vars => TypeOK'
    <2> SUFFICES ASSUME TypeOK, [Next]_vars PROVE TypeOK'
      OBVIOUS
    <2>1. ASSUME NEW r \in Reqs, Send(r) \/ Answer(r) \/ Handler(r) \/ Resume(r)
          PROVE  TypeOK'
      <3>1. RequestsTyped'
        BY <2>1, RequestsStayTyped
      <3>2. ASSUME NEW b \in Bearer, HandlerGrants(r, b)
            PROVE  TypeOK'
        BY <3>1, <3>2, InstallsTyped DEF HandlerGrants, TypeOK, RequestsTyped
      <3>3. CASE Send(r) \/ Answer(r) \/ HandlerExpires(r) \/ HandlerFails(r)
                 \/ HandlerDeclines(r)
        BY <3>1, <3>3
        DEF TypeOK, RequestsTyped, Maybe, Answer, Send, Answered, RejectedStale, RefreshSkipped,
            NoRefreshHandler, JoinRefresh, StartRefresh, HandlerExpires, HandlerFails,
            HandlerDeclines, Latch
      <3>4. CASE Resume(r)
        BY <3>1, <3>4
        DEF TypeOK, RequestsTyped, Resume, RefreshLands, RefreshRefused, RefreshFailed, CascadeEnds,
            Latch, TransientSpares
      <3> QED BY <2>1, <3>2, <3>3, <3>4 DEF Handler
    <2>2. ASSUME NEW b \in Bearer, Install(b)
          PROVE  TypeOK'
      BY <2>2, InstallsTyped DEF Install, TypeOK, At
    <2>3. CASE SessionEnds \/ BackoffEnds \/ UNCHANGED vars
      BY <2>3 DEF TypeOK, At, SessionEnds, BackoffEnds, vars, Maybe
    <2> QED BY <2>1, <2>2, <2>3 DEF Next
  <1> QED BY <1>1, <1>2, PTL DEF Spec

-----------------------------------------------------------------------------
\* One flight at a time

Leading(r) == req[r].pc \in {"refreshing", "granted", "expired", "failed"}

Busy(r) == Leading(r) \/ At(r, "cascade")

LeaderHolds == \A r \in Reqs : Leading(r) => hasHandler /\ isRefreshing /\ ~isLoggingOut

CascadeHolds == \A r \in Reqs : At(r, "cascade") => isLoggingOut /\ (hasHandler => isRefreshing)

OneBusy == \A r, s \in Reqs : Busy(r) /\ Busy(s) => r = s

FlightHasLeader == isRefreshing => hasHandler /\ \E r \in Reqs : Busy(r)

QueueHasLeader == \A r \in Reqs : At(r, "queued") => \E s \in Reqs : Leading(s)

VerdictStands == /\ LatchNeedsVerdict
                 /\ \A r \in Reqs : At(r, "expired") => condemned

FlightInv == LeaderHolds /\ CascadeHolds /\ OneBusy /\ FlightHasLeader /\ QueueHasLeader /\ VerdictStands

LEMMA FlightInvHolds ==
  ASSUME ~MidCascade
  PROVE  Spec => []FlightInv
  <1> USE DEF At, Leading, Busy, LatchNeedsVerdict
  <1>1. Init => FlightInv
    BY IdleRequest DEF Init, FlightInv, LeaderHolds, CascadeHolds, OneBusy, FlightHasLeader,
       QueueHasLeader, VerdictStands
  <1>2. TypeOK /\ FlightInv /\ [Next]_vars => FlightInv'
    <2> SUFFICES ASSUME TypeOK, FlightInv, [Next]_vars PROVE FlightInv'
      OBVIOUS
    <2> USE DEF FlightInv, LeaderHolds, CascadeHolds, OneBusy, FlightHasLeader, QueueHasLeader,
                VerdictStands
    <2>1. ASSUME NEW r \in Reqs, Send(r) \/ Answered(r) \/ RefreshSkipped(r)
          PROVE  FlightInv'
      <3>1. \/ Moves(r, "out") \/ Moves(r, "idle")
        BY <2>1, RequestSteps
      <3>2. req[r].pc \in {"idle", "out", "retry"}
        BY <2>1 DEF Send, Answered, RefreshSkipped, Unrecovered
      <3>3. UNCHANGED <<hasHandler, isRefreshing, isLoggingOut, condemned>>
        BY <2>1 DEF Send, Answered, RefreshSkipped
      <3> QED BY <3>1, <3>2, <3>3 DEF Moves
    <2>2. ASSUME NEW r \in Reqs, RejectedStale(r)
          PROVE  FlightInv'
      <3>1. req'[r].pc \in {"idle", "retry"} /\ \A q \in Reqs \ {r} : req'[q] = req[q]
        BY <2>2, StaleStep, ReplayUpdates DEF TypeOK, Maybe
      <3>2. req[r].pc = "out" /\ UNCHANGED <<hasHandler, isRefreshing, isLoggingOut, condemned>>
        BY <2>2 DEF RejectedStale
      <3> QED BY <3>1, <3>2
    <2>3. ASSUME NEW r \in Reqs, NoRefreshHandler(r)
          PROVE  FlightInv'
      <3>1. Moves(r, "cascade")
        BY <2>3, RequestSteps
      <3>2. \A q \in Reqs : ~Busy(q)
        BY <2>3 DEF NoRefreshHandler
      <3> QED BY <2>3, <3>1, <3>2 DEF Moves, NoRefreshHandler, Unrecovered, Latch
    <2>4. ASSUME NEW r \in Reqs, JoinRefresh(r)
          PROVE  FlightInv'
      <3>1. Moves(r, "queued")
        BY <2>4, RequestSteps
      <3>2. PICK s \in Reqs : Leading(s)
        BY <2>4 DEF JoinRefresh, FlightOn
      <3> QED BY <2>4, <3>1, <3>2 DEF Moves, JoinRefresh, Unrecovered
    <2>5. ASSUME NEW r \in Reqs, StartRefresh(r)
          PROVE  FlightInv'
      <3>1. Moves(r, "refreshing")
        BY <2>5, RequestSteps
      <3>2. \A q \in Reqs : ~Busy(q)
        BY <2>5 DEF StartRefresh, FlightOn
      <3> QED BY <2>5, <3>1, <3>2 DEF Moves, StartRefresh, Unrecovered
    <2>6. ASSUME NEW r \in Reqs, NEW b \in Bearer, HandlerGrants(r, b)
          PROVE  FlightInv'
      <3>1. Moves(r, "granted")
        BY <2>6, RequestSteps
      <3>2. Leading(r) /\ ~isLoggingOut' /\ ~condemned' /\ UNCHANGED <<hasHandler, isRefreshing>>
        BY <2>6, InstallsTyped DEF HandlerGrants
      <3> QED BY <3>1, <3>2 DEF Moves
    <2>7. ASSUME NEW r \in Reqs, HandlerExpires(r) \/ HandlerFails(r) \/ HandlerDeclines(r)
          PROVE  FlightInv'
      <3>2. Leading(r) /\ UNCHANGED <<hasHandler, isRefreshing, isLoggingOut>>
        BY <2>7 DEF HandlerExpires, HandlerFails, HandlerDeclines
      <3>3. \/ (Moves(r, "failed") \/ Moves(r, "granted")) /\ UNCHANGED condemned
            \/ Moves(r, "expired") /\ condemned'
        BY <2>7, RequestSteps DEF HandlerExpires, HandlerFails, HandlerDeclines
      <3> QED BY <3>2, <3>3 DEF Moves
    <2>8. ASSUME NEW r \in Reqs, RefreshLands(r)
          PROVE  FlightInv'
      <3>1. Leading(r) /\ ~isRefreshing' /\ UNCHANGED <<hasHandler, isLoggingOut, condemned>>
        BY <2>8 DEF RefreshLands
      <3>2. \A q \in Reqs : req[q] \in Request
        BY DEF TypeOK
      <3>3. \A q \in Reqs : IF q = r \/ At(q, "queued") THEN req'[q].pc \in {"idle", "retry"}
                                                        ELSE req'[q] = req[q]
        BY <2>8, <3>2, LandingStep, ReplayUpdates
      <3>4. \A q \in Reqs : ~Busy(q)' /\ ~At(q, "queued")'
        BY <3>1, <3>3
      <3> QED BY <3>1, <3>4
    <2>9. ASSUME NEW r \in Reqs, RefreshRefused(r)
          PROVE  FlightInv'
      <3>1. Leading(r) /\ ~isLoggingOut /\ condemned
        BY <2>9 DEF RefreshRefused
      <3>2. isLoggingOut' /\ UNCHANGED <<hasHandler, isRefreshing, condemned>>
        BY <2>9, <3>1 DEF RefreshRefused, Latch
      <3>3. req'[r].pc = "cascade" /\ \A q \in Reqs \ {r} : ~Busy(q)' /\ ~At(q, "queued")'
        BY <2>9, <3>1, RefusalStep
      <3> QED BY <3>1, <3>2, <3>3
    <2>10. ASSUME NEW r \in Reqs, RefreshFailed(r)
           PROVE  FlightInv'
      <3>1. /\ Leading(r) /\ ~RefreshRefused(r) /\ ~isRefreshing'
            /\ UNCHANGED <<hasHandler, isLoggingOut, condemned>>
        BY <2>10 DEF RefreshFailed, RefreshRefused, TransientSpares
      <3>2. \A q \in Reqs : ~Busy(q)' /\ ~At(q, "queued")'
        BY <2>10, <3>1, RefusalStep
      <3> QED BY <3>1, <3>2
    <2>11. ASSUME NEW r \in Reqs, CascadeEnds(r)
           PROVE  FlightInv'
      <3>1. Moves(r, "idle")
        BY <2>11, RequestSteps
      <3>2. /\ At(r, "cascade") /\ isRefreshing' = (isRefreshing /\ ~hasHandler)
            /\ UNCHANGED <<hasHandler, isLoggingOut, condemned>>
        BY <2>11 DEF CascadeEnds
      <3>3. \A q \in Reqs : ~Busy(q)' /\ ~At(q, "queued")'
        BY <3>1, <3>2 DEF Moves
      <3>4. ~isRefreshing'
        BY <3>2
      <3> QED BY <3>2, <3>3, <3>4
    <2>12. ASSUME NEW b \in Bearer, Install(b)
           PROVE  FlightInv'
      <3>1. \A r \in Reqs : req[r].pc \notin {"expired", "cascade"}
        BY <2>12 DEF Install
      <3>2. ~isLoggingOut' /\ ~condemned' /\ UNCHANGED <<hasHandler, isRefreshing, req>>
        BY <2>12, InstallsTyped DEF Install
      <3> QED BY <3>1, <3>2
    <2>13. CASE SessionEnds \/ BackoffEnds \/ UNCHANGED vars
      <3>1. UNCHANGED <<hasHandler, isRefreshing, isLoggingOut, condemned, req>>
        BY <2>13 DEF SessionEnds, BackoffEnds, vars
      <3> QED BY <3>1
    <2> QED BY <2>1, <2>2, <2>3, <2>4, <2>5, <2>6, <2>7, <2>8, <2>9, <2>10, <2>11, <2>12, <2>13
            DEF Next, Answer, Handler, Resume
  <1> QED BY <1>1, <1>2, HttpTypeCorrect, PTL DEF Spec

\* While nothing installs a session in the middle of a logout cascade, two
\* requests never run onUnauthorized side by side (refreshTokens).
THEOREM OneCascadeAlways ==
  ASSUME ~MidCascade
  PROVE  Spec => []OneCascade
  <1>1. FlightInv => OneCascade
    BY DEF FlightInv, OneBusy, OneCascade, Busy
  <1> QED BY <1>1, FlightInvHolds, PTL

\* While nothing installs a session in the middle of a logout cascade, the
\* latch stands for a definitive verdict on the session there is: a transient
\* failure never raises it and a new session never inherits it (refreshTokens,
\* resetAuthLatch).
THEOREM LatchNeedsVerdictAlways ==
  ASSUME ~MidCascade
  PROVE  Spec => []LatchNeedsVerdict
  <1>1. FlightInv => LatchNeedsVerdict
    BY DEF FlightInv, VerdictStands
  <1> QED BY <1>1, FlightInvHolds, PTL

\* However a rejected request comes by a bearer, it is replayed for the user it
\* was sent as, wherever both bearers can be read (request, sameSubject): there
\* is no assumption on the host here.
THEOREM ReplaySameUserAlways == Spec => ReplaySameUser
  <1> DEFINE SameUser(r) == /\ ~At(r, "retry") /\ req'[r].pc = "retry"
                            /\ req'[r].sent # None /\ req'[r].sent.readable /\ req'[r].got.readable
                            => req'[r].got.user = req[r].sent.user
  <1>1. TypeOK /\ Next => \A r \in Reqs : SameUser(r)
    <2> SUFFICES ASSUME TypeOK, Next, NEW q \in Reqs, ~At(q, "retry"), req'[q].pc = "retry",
                        req'[q].sent # None, req'[q].sent.readable, req'[q].got.readable
                 PROVE  req'[q].got.user = req[q].sent.user
      OBVIOUS
    <2> USE DEF At
    <2>1. req[q] \in Request
      BY DEF TypeOK
    <2>2. ASSUME NEW b \in Maybe, req'[q] = Replay(req[q], b)
          PROVE  req'[q].got.user = req[q].sent.user
      <3>1. req'[q].got = b /\ req'[q].sent = req[q].sent /\ SameSubject(req[q].sent, b)
        BY <2>1, <2>2, ReplayUpdates
      <3> QED BY <3>1, NoneAssumption DEF SameSubject
    <2>3. ASSUME NEW r \in Reqs, NEW c \in PCs, c # "retry", Moves(r, c)
          PROVE  FALSE
      BY <2>3 DEF Moves
    <2>4. ASSUME NEW r \in Reqs, RejectedStale(r)
          PROVE  req'[q].got.user = req[q].sent.user
      BY <2>2, <2>4, StaleStep DEF Maybe
    <2>5. ASSUME NEW r \in Reqs, RefreshLands(r)
          PROVE  req'[q].got.user = req[q].sent.user
      <3>1. q = r \/ At(q, "queued")
        BY <2>5, LandingStep
      <3> QED BY <2>2, <2>5, <3>1, LandingStep
    <2>6. ASSUME NEW r \in Reqs, RefreshRefused(r) \/ RefreshFailed(r)
          PROVE  FALSE
      BY <2>6, RefusalStep
    <2>7. ASSUME NEW r \in Reqs,
                 \/ Send(r) \/ Answered(r) \/ RefreshSkipped(r) \/ NoRefreshHandler(r)
                 \/ JoinRefresh(r) \/ StartRefresh(r) \/ HandlerExpires(r) \/ HandlerFails(r)
                 \/ CascadeEnds(r) \/ HandlerDeclines(r) \/ (\E b \in Bearer : HandlerGrants(r, b))
          PROVE  FALSE
      <3>1. \/ Moves(r, "out") \/ Moves(r, "idle") \/ Moves(r, "cascade") \/ Moves(r, "queued")
            \/ Moves(r, "refreshing") \/ Moves(r, "expired") \/ Moves(r, "failed")
            \/ Moves(r, "granted")
        BY <2>7, RequestSteps
      <3> QED BY <2>3, <3>1 DEF PCs
    <2>8. ASSUME UNCHANGED req
          PROVE  FALSE
      BY <2>8
    <2> QED BY <2>4, <2>5, <2>6, <2>7, <2>8
            DEF Next, Answer, Handler, Resume, Install, SessionEnds, BackoffEnds
  <1>2. TypeOK /\ [Next]_vars => [\A r \in Reqs : SameUser(r)]_vars
    BY <1>1
  <1> QED BY <1>2, HttpTypeCorrect, PTL DEF Spec, ReplaySameUser

-----------------------------------------------------------------------------
\* The refresh queue implements a shared flight

LEMMA RoleOf ==
  ASSUME NEW r \in Reqs
  PROVE  /\ Leading(r) => Role(r) = "leading"
         /\ At(r, "queued") => Role(r) = "joined"
         /\ ~Leading(r) /\ ~At(r, "queued") => Role(r) = "idle"
  BY DEF Role, Leading, At

LEMMA RoleOfNext ==
  ASSUME NEW r \in Reqs
  PROVE  /\ Leading(r)' => Role(r)' = "leading"
         /\ At(r, "queued")' => Role(r)' = "joined"
         /\ ~Leading(r)' /\ ~At(r, "queued")' => Role(r)' = "idle"
  BY DEF Role, Leading, At

\* While nothing installs a session in the middle of a logout cascade, every
\* step of the 401 handling is a step of one shared flight or none: a caller
\* joins only a refresh that is still to settle it, and all land together
\* (refreshTokens, RefreshCoordinator.run).
THEOREM RefreshIsASharedFlight ==
  ASSUME ~MidCascade
  PROVE  Spec => Flight!Safety
  <1>1. Init => Flight!Init
    BY IdleRequest DEF Init, Flight!Init, roles, Role
  <1>2. TypeOK /\ FlightInv /\ [Next]_vars => [Flight!Next]_roles
    <2> SUFFICES ASSUME TypeOK, FlightInv, [Next]_vars PROVE [Flight!Next]_roles
      OBVIOUS
    <2>1. ASSUME NEW r \in Reqs, req' \in [Reqs -> Request], Role(r)' = Role(r),
                 \A q \in Reqs \ {r} : req'[q] = req[q]
          PROVE  UNCHANGED roles
      BY <2>1 DEF roles, Role
    <2>2. ASSUME NEW r \in Reqs, NEW c \in PCs, Moves(r, c),
                 c \notin {"queued", "refreshing", "granted", "expired", "failed"},
                 req[r].pc \notin {"queued", "refreshing", "granted", "expired", "failed"}
          PROVE  UNCHANGED roles
      BY <2>1, <2>2, RoleOf, RoleOfNext DEF Moves, Leading, At
    <2>3. ASSUME NEW r \in Reqs, Send(r) \/ Answered(r) \/ RefreshSkipped(r) \/ NoRefreshHandler(r)
                                  \/ CascadeEnds(r)
          PROVE  UNCHANGED roles
      <3>1. Moves(r, "out") \/ Moves(r, "idle") \/ Moves(r, "cascade")
        BY <2>3, RequestSteps
      <3>2. req[r].pc \notin {"queued", "refreshing", "granted", "expired", "failed"}
        BY <2>3 DEF Send, Answered, RefreshSkipped, NoRefreshHandler, CascadeEnds, Unrecovered, At
      <3> QED BY <2>2, <3>1, <3>2 DEF PCs
    <2>4. ASSUME NEW r \in Reqs, RejectedStale(r)
          PROVE  UNCHANGED roles
      <3>1. req[r].pc = "out" /\ req'[r].pc \in {"idle", "retry"}
        BY <2>4, StaleStep, ReplayUpdates DEF RejectedStale, TypeOK, At, Maybe
      <3>2. Role(r)' = Role(r)
        BY <3>1, RoleOf, RoleOfNext DEF Leading, At
      <3> QED BY <2>1, <2>4, <3>2, StaleStep
    <2>5. ASSUME NEW r \in Reqs, NEW c \in {"granted", "expired", "failed"}, Moves(r, c), Leading(r)
          PROVE  UNCHANGED roles
      <3>1. Role(r)' = Role(r)
        BY <2>5, RoleOf, RoleOfNext DEF Moves, Leading, At
      <3> QED BY <2>1, <2>5, <3>1 DEF Moves
    <2>6. ASSUME NEW r \in Reqs, Handler(r)
          PROVE  UNCHANGED roles
      <3>1. Leading(r)
        BY <2>6 DEF Handler, HandlerGrants, HandlerDeclines, HandlerExpires, HandlerFails, Leading, At
      <3>2. Moves(r, "granted") \/ Moves(r, "expired") \/ Moves(r, "failed")
        BY <2>6, RequestSteps DEF Handler
      <3> QED BY <2>5, <3>1, <3>2
    <2>7. ASSUME NEW r \in Reqs, JoinRefresh(r)
          PROVE  Flight!Next
      <3>1. Moves(r, "queued") /\ req[r].pc = "out"
        BY <2>7, RequestSteps DEF JoinRefresh, Unrecovered, At
      <3>2. PICK s \in Reqs : Leading(s)
        BY <2>7 DEF JoinRefresh, FlightOn, FlightInv, FlightHasLeader, CascadeHolds, Busy
      <3>3. Role(r) = "idle" /\ Role(s) = "leading" /\ Role(r)' = "joined"
        BY <3>1, <3>2, RoleOf, RoleOfNext DEF Moves, Leading, At
      <3>4. \A q \in Reqs \ {r} : Role(q)' = Role(q)
        BY <3>1 DEF Moves, Role
      <3>5. Flight!Join(r)
        BY <3>3, <3>4 DEF Flight!Join, Flight!InFlight, roles
      <3> QED BY <3>5 DEF Flight!Next
    <2>8. ASSUME NEW r \in Reqs, StartRefresh(r)
          PROVE  Flight!Next
      <3>1. Moves(r, "refreshing") /\ req[r].pc = "out"
        BY <2>8, RequestSteps DEF StartRefresh, Unrecovered, At
      <3>2. \A q \in Reqs : ~Leading(q)
        BY <2>8 DEF StartRefresh, FlightOn, FlightInv, LeaderHolds
      <3>3. Role(r) = "idle" /\ Role(r)' = "leading"
        BY <3>1, RoleOf, RoleOfNext DEF Moves, Leading, At
      <3>4. \A q \in Reqs \ {r} : Role(q)' = Role(q)
        BY <3>1 DEF Moves, Role
      <3>5. \A q \in Reqs : Role(q) # "leading"
        BY <3>2, RoleOf
      <3>6. Flight!Lead(r)
        BY <3>3, <3>4, <3>5 DEF Flight!Lead, Flight!InFlight, roles
      <3> QED BY <3>6 DEF Flight!Next
    <2>9. ASSUME NEW r \in Reqs, RefreshLands(r) \/ RefreshRefused(r) \/ RefreshFailed(r)
          PROVE  Flight!Next
      <3>1. Leading(r) /\ \A q \in Reqs \ {r} : ~Leading(q)
        BY <2>9 DEF RefreshLands, RefreshRefused, RefreshFailed, FlightInv, OneBusy, Busy, Leading, At
      <3>2. \A q \in Reqs : ~Leading(q)' /\ ~At(q, "queued")'
        <4>1. CASE RefreshLands(r)
          <5>1. \A q \in Reqs : IF q = r \/ At(q, "queued") THEN req'[q].pc \in {"idle", "retry"}
                                                            ELSE req'[q] = req[q]
            BY <4>1, LandingStep, ReplayUpdates DEF TypeOK
          <5> QED BY <3>1, <5>1 DEF Leading, At
        <4>2. CASE RefreshRefused(r) \/ RefreshFailed(r)
          BY <3>1, <4>2, RefusalStep DEF Leading, At
        <4> QED BY <2>9, <4>1, <4>2
      <3>3. \A q \in Reqs : Role(q)' = "idle"
        BY <3>2, RoleOfNext
      <3>4. Role(r) = "leading"
        BY <3>1, RoleOf
      <3>5. Flight!Land
        BY <3>3, <3>4 DEF Flight!Land, Flight!InFlight, roles
      <3> QED BY <3>5 DEF Flight!Next
    <2>10. ASSUME UNCHANGED req
           PROVE  UNCHANGED roles
      BY <2>10 DEF roles, Role
    <2>11. CASE UNCHANGED vars \/ (\E b \in Bearer : Install(b)) \/ SessionEnds \/ BackoffEnds
      BY <2>10, <2>11 DEF vars, Install, SessionEnds, BackoffEnds
    <2> QED BY <2>3, <2>4, <2>6, <2>7, <2>8, <2>9, <2>11 DEF Next, Answer, Resume
  <1> QED BY <1>1, <1>2, HttpTypeCorrect, FlightInvHolds, PTL DEF Spec, Flight!Safety
=============================================================================
