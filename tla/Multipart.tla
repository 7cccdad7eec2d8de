----------------------------- MODULE Multipart ------------------------------
(***************************************************************************)
(* MultipartUpload (src/multipartUpload.ts): a file goes to S3 in parts, by *)
(* a pool of workers per call of start, with retries, a stall watchdog,     *)
(* waits for the network, pause, resume and abort.                          *)
(*                                                                         *)
(* Each action is one task of the object, from one await to the next.  The  *)
(* upload session, the stored parts and the answers are the server's.       *)
(***************************************************************************)
EXTENDS Naturals, FiniteSets

CONSTANTS
    totalParts,
    maxConcurrentUploads,
    partRetryLimit,
    MaxStarts,     \* bound: calls of start and resume
    Patient,       \* TRUE: the host starts again only when nothing of the last start is left
    MaxDrops       \* bound: how often the network goes

ASSUME PartsAssumption == totalParts \in Nat /\ maxConcurrentUploads \in Nat \ {0}
ASSUME RetryAssumption == partRetryLimit \in Nat \ {0} /\ MaxDrops \in Nat /\ MaxStarts \in Nat

Parts == 1..totalParts
Workers == 1..maxConcurrentUploads
Runs == 1..MaxStarts   \* the calls, in the order they are made

VARIABLES
    known,          \* uploadId and key are set
    uploadedParts,
    uploading, aborted,
    start,          \* where each call of start, or the resume before it, is
    uploadQueue,    \* per call
    worker,         \* per call and worker
    online, drops,  \* connectivity, and how often it went
    stored,         \* the parts S3 has of the current session
    alive,          \* the server has not been told to abort it
    leaving         \* an abort request is on its way

object == <<known, uploadedParts, uploading, aborted, start, uploadQueue, worker>>
network == <<online, drops>>
server == <<stored, alive, leaving>>
vars == <<object, network, server>>

Worker == [pc : {"ended", "gate", "put", "refresh", "reput", "backoff"},
           part : 0..totalParts, attempt : 0..partRetryLimit]
Ended == [pc |-> "ended", part |-> 0, attempt |-> 0]
TakingNext(p) == [Ended EXCEPT !.pc = "gate", !.part = p + 1]
Taking(p) == [Ended EXCEPT !.pc = "gate", !.part = p]
Off == [w \in Workers |-> Ended]

Settled == {"no", "done", "failed"}

Init ==
    /\ known = FALSE /\ uploadedParts = {} /\ uploading = FALSE /\ aborted = FALSE
    /\ start = [r \in Runs |-> "no"] /\ uploadQueue = [r \in Runs |-> {}]
    /\ worker = [r \in Runs |-> Off]
    /\ online = TRUE /\ drops = 0
    /\ stored = {} /\ alive = FALSE /\ leaving = FALSE

Working(r, w) == worker[r][w].pc # "ended"
Running(r) == \E w \in Workers : Working(r, w)
Goto(r, pc) == start' = [start EXCEPT ![r] = pc]
Is(r, w, pc) == worker[r][w].pc = pc
First(S) == CHOOSE p \in S : \A q \in S : p <= q

-----------------------------------------------------------------------------
\* start: up to the workers.

Free(r) ==
    /\ start[r] = "no" /\ \A q \in Runs : q < r => start[q] # "no"
    /\ Patient => \A q \in Runs : start[q] \in Settled /\ ~Running(q)

\* A call while one is uploading only warns.
StartCalled(r) ==
    /\ Free(r)
    /\ Goto(r, IF uploading THEN "done" ELSE IF known THEN "urls" ELSE "init")
    /\ UNCHANGED <<known, uploadedParts, uploading, aborted, uploadQueue, worker, network, server>>

\* initialize: a session of its own for each call that found none.
Initialized(r) ==
    /\ start[r] = "init"
    /\ \/ Goto(r, "urls") /\ known' = TRUE /\ stored' = {} /\ alive' = TRUE
       \/ Goto(r, "failed") /\ UNCHANGED <<known, stored, alive>>
    /\ UNCHANGED <<uploadedParts, uploading, aborted, uploadQueue, worker, network, leaving>>

\* The queue, shared by the workers of this call, of the parts that are not
\* uploaded; each worker takes one at once, in order, while there are any.
GotUploadUrls(r) ==
    LET todo == Parts \ uploadedParts
        Rank(p) == Cardinality({q \in todo : q <= p}) IN
    /\ start[r] = "urls"
    /\ Goto(r, "uploading")
    /\ uploading' = TRUE /\ aborted' = FALSE
    /\ worker' = [worker EXCEPT ![r] =
            [w \in Workers |-> IF \E p \in todo : Rank(p) = w
                               THEN Taking(CHOOSE p \in todo : Rank(p) = w) ELSE Ended]]
    /\ uploadQueue' = [uploadQueue EXCEPT ![r] = {p \in todo : Rank(p) > maxConcurrentUploads}]
    /\ UNCHANGED <<known, uploadedParts, network, server>>

NoUploadUrls(r) ==
    /\ start[r] = "urls" /\ Goto(r, "failed")
    /\ UNCHANGED <<known, uploadedParts, uploading, aborted, uploadQueue, worker, network, server>>

-----------------------------------------------------------------------------
\* uploadNextPart: the loop of a worker.

SetWorker(r, w, pc) == worker' = [worker EXCEPT ![r][w].pc = pc]

KeepsFirst(q) == q
Rest(q) == q \ {First(q)}

\* The top of the loop: the next part of the queue, or the end.
TakeNext(r, w) ==
    IF aborted \/ uploadQueue[r] = {}
    THEN worker' = [worker EXCEPT ![r][w] = Ended] /\ UNCHANGED uploadQueue
    ELSE /\ worker' = [worker EXCEPT ![r][w] = Taking(First(uploadQueue[r]))]
         /\ uploadQueue' = [uploadQueue EXCEPT ![r] = Rest(@)]

\* waitForOnline, then the PUT unless the upload was aborted meanwhile.
PassGate(r, w) ==
    /\ Is(r, w, "gate") /\ online
    /\ IF aborted THEN worker' = [worker EXCEPT ![r][w] = Ended] ELSE SetWorker(r, w, "put")
    /\ UNCHANGED <<known, uploadedParts, uploading, aborted, start, uploadQueue, network, server>>

Sent(r, w) == worker[r][w].pc \in {"put", "reput"}

\* A part counts as uploaded with the ETag of its PUT, and not before.
CountedWhenSent(p, done) == uploadedParts \cup {p}
Counted(p, done) == uploadedParts \cup (IF done THEN {p} ELSE {})

PartUploaded(r, w) ==
    LET p == worker[r][w].part IN
    /\ Sent(r, w) /\ online /\ alive
    /\ stored' = stored \cup {p}
    /\ uploadedParts' = Counted(p, TRUE)
    /\ TakeNext(r, w)
    /\ UNCHANGED <<known, uploading, aborted, start, network, alive, leaving>>

\* The catch of the loop.  A known-dead network costs no try; the last try and
\* a CORS error end the call, while the other workers go on; any other error is
\* slept on.
StartEnds(r, pc) == Goto(r, pc) /\ uploading' = FALSE

Tries(r, w) == worker[r][w].attempt + (IF online THEN 1 ELSE 0)

Caught(r, w, fatal) ==
    LET n == Tries(r, w)
        gives == online /\ ~aborted /\ (fatal \/ n >= partRetryLimit) IN
    /\ worker' = [worker EXCEPT ![r][w] =
            IF aborted \/ gives THEN Ended
            ELSE [@ EXCEPT !.pc = IF online THEN "backoff" ELSE "gate",
                           !.attempt = n]]
    /\ IF gives /\ start[r] = "uploading" THEN StartEnds(r, "failed") ELSE UNCHANGED <<start, uploading>>

\* The PUT fails, or its answer is lost; a second 403 counts as a failure.
\* Errors that name CORS are fatal while the network is there.
PartFails(r, w) ==
    /\ Sent(r, w)
    /\ \E fatal \in BOOLEAN : Caught(r, w, fatal)
    /\ stored' \in {stored} \cup (IF alive THEN {stored \cup {worker[r][w].part}} ELSE {})
    /\ uploadedParts' = Counted(worker[r][w].part, FALSE)
    /\ UNCHANGED <<known, aborted, uploadQueue, network, alive, leaving>>

\* The watchdog: no byte moves for partStallTimeoutMs.
NotArmed(r, w) == FALSE
Armed(r, w) == Sent(r, w)

PartStalls(r, w) ==
    /\ Armed(r, w) /\ Caught(r, w, FALSE)
    /\ UNCHANGED <<known, uploadedParts, aborted, uploadQueue, network, server>>

\* The presigned URL has expired: one fresh URL, whatever happened meanwhile.
UrlExpired(r, w) ==
    /\ Is(r, w, "put") /\ online /\ SetWorker(r, w, "refresh")
    /\ UNCHANGED <<known, uploadedParts, uploading, aborted, start, uploadQueue, network, server>>

UrlRefreshed(r, w) ==
    /\ Is(r, w, "refresh") /\ SetWorker(r, w, "reput")
    /\ UNCHANGED <<known, uploadedParts, uploading, aborted, start, uploadQueue, network, server>>

RefreshFails(r, w) ==
    /\ Is(r, w, "refresh") /\ Caught(r, w, FALSE)
    /\ UNCHANGED <<known, uploadedParts, aborted, uploadQueue, network, server>>

BackedOff(r, w) ==
    /\ Is(r, w, "backoff")
    /\ IF aborted THEN worker' = [worker EXCEPT ![r][w] = Ended] ELSE SetWorker(r, w, "gate")
    /\ UNCHANGED <<known, uploadedParts, uploading, aborted, start, uploadQueue, network, server>>

-----------------------------------------------------------------------------
\* start: its end.

AllEnded(r) == start[r] = "uploading" /\ \A w \in Workers : Is(r, w, "ended")

PartsDone(r) ==
    /\ AllEnded(r) /\ ~aborted
    /\ IF uploadedParts = Parts THEN Goto(r, "completing") /\ UNCHANGED uploading ELSE StartEnds(r, "failed")
    /\ UNCHANGED <<known, uploadedParts, aborted, uploadQueue, worker, network, server>>

Stopped(r) ==
    /\ AllEnded(r) /\ aborted
    /\ StartEnds(r, "done")
    /\ UNCHANGED <<known, uploadedParts, aborted, uploadQueue, worker, network, server>>

\* The server puts the file together and forgets the session, and its answer
\* may be lost; or it refuses.
Completed(r) ==
    /\ start[r] = "completing"
    /\ \/ alive /\ alive' = FALSE /\ \E pc \in {"done", "failed"} : StartEnds(r, pc)
       \/ StartEnds(r, "failed") /\ UNCHANGED alive
    /\ UNCHANGED <<known, uploadedParts, aborted, uploadQueue, worker, network, stored, leaving>>

-----------------------------------------------------------------------------
\* pause, abort, resume.

\* xhr.abort rejects the PUTs in flight, and their workers end.
Dropped == [r \in Runs |-> [w \in Workers |-> IF Sent(r, w) THEN Ended ELSE worker[r][w]]]

Live == \E r \in Runs : start[r] \notin Settled \/ Running(r)

Pause ==
    /\ Live /\ (uploading \/ ~aborted)
    /\ aborted' = TRUE /\ uploading' = FALSE /\ worker' = Dropped
    /\ UNCHANGED <<known, uploadedParts, start, uploadQueue, network, server>>

\* abort tells the server if there is a session; a start that still waits for
\* its session or URLs does not notice.
Abort ==
    /\ Live /\ ~aborted
    /\ aborted' = TRUE /\ worker' = Dropped /\ leaving' = (leaving \/ known)
    /\ UNCHANGED <<known, uploadedParts, uploading, start, uploadQueue, network, stored, alive>>

\* The request may also be lost.
AbortArrives ==
    /\ leaving /\ leaving' = FALSE /\ alive' = FALSE /\ stored' = {}
    /\ UNCHANGED <<object, network>>

ResumeCalled(r) ==
    /\ Free(r) /\ known
    /\ Goto(r, "resuming")
    /\ UNCHANGED <<known, uploadedParts, uploading, aborted, uploadQueue, worker, network, server>>

\* The server names parts it has, and start follows.
ResumeAnswered(r) ==
    /\ start[r] = "resuming"
    /\ \/ \E S \in SUBSET stored :
            /\ alive /\ uploadedParts' = S
            /\ Goto(r, IF uploading THEN "done" ELSE "urls")
       \/ Goto(r, "failed") /\ UNCHANGED uploadedParts
    /\ UNCHANGED <<known, uploading, aborted, uploadQueue, worker, network, server>>

\* Connectivity.
GoOffline ==
    /\ online /\ drops < MaxDrops /\ online' = FALSE /\ drops' = drops + 1
    /\ UNCHANGED <<object, server>>

GoOnline ==
    /\ ~online /\ online' = TRUE
    /\ UNCHANGED <<object, drops, server>>

-----------------------------------------------------------------------------
WorkerStep(r, w) ==
    \/ PassGate(r, w) \/ PartUploaded(r, w) \/ PartFails(r, w) \/ PartStalls(r, w)
    \/ UrlExpired(r, w) \/ UrlRefreshed(r, w) \/ RefreshFails(r, w) \/ BackedOff(r, w)

StartStep(r) ==
    \/ StartCalled(r) \/ Initialized(r) \/ GotUploadUrls(r) \/ NoUploadUrls(r)
    \/ PartsDone(r) \/ Stopped(r) \/ Completed(r)
    \/ ResumeCalled(r) \/ ResumeAnswered(r)

Next ==
    \/ \E r \in Runs : StartStep(r) \/ \E w \in Workers : WorkerStep(r, w)
    \/ Pause \/ Abort \/ AbortArrives \/ GoOffline \/ GoOnline

\* What runs by itself: the loop of a worker, with the watchdog that ends a PUT
\* nobody answers; the answers of the API, good or bad; the network comes back.
WorkerMoves(r, w) ==
    PassGate(r, w) \/ PartStalls(r, w) \/ UrlRefreshed(r, w) \/ RefreshFails(r, w) \/ BackedOff(r, w)

StartMoves(r) ==
    Initialized(r) \/ GotUploadUrls(r) \/ NoUploadUrls(r) \/ PartsDone(r)
    \/ Stopped(r) \/ Completed(r) \/ ResumeAnswered(r)

Fairness ==
    /\ \A r \in Runs : WF_vars(StartMoves(r)) /\ \A w \in Workers : WF_vars(WorkerMoves(r, w))
    /\ WF_vars(GoOnline)

Spec == Init /\ [][Next]_vars /\ Fairness

-----------------------------------------------------------------------------
\* Type invariant.
TypeOK ==
    /\ known \in BOOLEAN /\ uploading \in BOOLEAN /\ aborted \in BOOLEAN
    /\ uploadedParts \subseteq Parts /\ stored \subseteq Parts
    /\ start \in [Runs -> Settled \cup {"init", "urls", "uploading", "completing", "resuming"}]
    /\ uploadQueue \in [Runs -> SUBSET Parts] /\ worker \in [Runs -> [Workers -> Worker]]
    /\ online \in BOOLEAN /\ drops \in 0..MaxDrops
    /\ alive \in BOOLEAN /\ leaving \in BOOLEAN

\* The server is asked to put the file together only when it has every part,
\* whatever was paused, retried, lost, resumed or left to an aborted session
\* (start's count of uploadedParts, resume's completedParts).
CompleteIsWhole ==
    \A r \in Runs : start[r] = "completing" => uploadedParts = Parts /\ (alive => stored = Parts)

\* While a call uploads, each part is uploaded, in its queue, or in the hands of
\* one worker: failures, retries and spells without a network neither lose a
\* part (the count at the end then never falls short) nor hand it out twice.
\* The host is Patient: after a pause and a resume that does not wait, the old
\* workers go on beside the new, and two of them may have the same part.
Holders(r, p) == {w \in Workers : Working(r, w) /\ worker[r][w].part = p}

EachPartOnce ==
    \A r \in Runs, p \in Parts : start[r] = "uploading" /\ ~aborted =>
        \/ p \in uploadedParts /\ p \notin uploadQueue[r] /\ Holders(r, p) = {}
        \/ p \notin uploadedParts /\ p \in uploadQueue[r] /\ Holders(r, p) = {}
        \/ p \notin uploadedParts /\ p \notin uploadQueue[r] /\ \E w \in Workers : Holders(r, p) = {w}

\* Every call of start, and of resume, settles: no stalled socket, dead network
\* or worker of the pool keeps it (partStallTimeoutMs, waitForOnline).
StartSettles == \A r \in Runs : start[r] \notin Settled ~> start[r] \in Settled
=============================================================================
