---------------------------- MODULE MediaProofs ----------------------------
(* A video on its way: each part has one place, the file is put together only *)
(* when all are there, and every watch of its post calls back once, for any   *)
(* number of parts, workers, calls, watchers, polls and connections.          *)
EXTENDS Media, FiniteSetTheorems, TLAPS

\* A call that is not over, or whose pool is not.
Busy(r) == start[r] \notin Settled \/ Running(r)

\* The queue of a call is worked off in order: the least part of some is one of them.
LEMMA FirstIsOne ==
    ASSUME NEW S, S \subseteq Parts, S # {}
    PROVE  First(S) \in S
<1> DEFINE T == {1..p : p \in S}
<1>1. Parts \subseteq Nat /\ IsFiniteSet(Parts) /\ \A p \in Parts : 1 <= p /\ 1..p \subseteq Parts
  BY PartsAssumption, FS_Interval DEF Parts
<1>2. T \subseteq FiniteSubsetsOf(Parts) /\ T # {}
  <2>1. \A p \in S : 1..p \in SUBSET Parts /\ IsFiniteSet(1..p)
    BY <1>1, FS_Interval
  <2> QED
    BY <2>1 DEF FiniteSubsetsOf
<1>3. PICK X \in T : \A Y \in T : ~(<<Y, X>> \in StrictSubsetOrdering(Parts))
  <2> HIDE DEF T
  <2> QED
    BY <1>1, <1>2, WFMin, FS_StrictSubsetOrderingWellFounded
<1>4. PICK p \in S : X = 1..p
  BY <1>3
<1>5. \A q \in S : p <= q
  <2> SUFFICES ASSUME NEW q \in S, q < p PROVE FALSE
    BY <1>1
  <2>1. 1..q \subseteq 1..p /\ p \in 1..p /\ p \notin 1..q
    BY <1>1
  <2>2. 1..q \in T /\ 1..q \in SUBSET Parts /\ 1..p \in SUBSET Parts
    BY <1>1
  <2>3. <<1..q, 1..p>> \in StrictSubsetOrdering(Parts)
    <3> DEFINE A == 1..q  B == 1..p
    <3>1. A \in SUBSET Parts /\ B \in SUBSET Parts /\ A \subseteq B /\ A # B
      BY <2>1, <2>2
    <3> HIDE DEF A, B
    <3>2. <<A, B>> \in StrictSubsetOrdering(Parts)
      BY <3>1 DEF StrictSubsetOrdering
    <3> QED
      BY <3>2 DEF A, B
  <2> QED
    BY <1>3, <1>4, <2>2, <2>3
<1> QED
  BY <1>5 DEF First

-----------------------------------------------------------------------------
\* The types of an upload in parts.

\* A worker that works has a part.
PoolWorker == {x \in Worker : x.pc # "ended" => x.part \in Parts}
WorkersOK == worker \in [Runs -> [Workers -> PoolWorker]]
StartsOK ==
    /\ known \in BOOLEAN /\ uploading \in BOOLEAN /\ aborted \in BOOLEAN
    /\ start \in [Runs -> Settled \cup {"init", "urls", "uploading", "completing", "resuming"}]
PartsOK == uploadedParts \subseteq Parts /\ stored \subseteq Parts /\ uploadQueue \in [Runs -> SUBSET Parts]
NetworkOK ==
    /\ online \in BOOLEAN /\ drops \in 0..MaxDrops
    /\ alive \in BOOLEAN /\ leaving \in BOOLEAN

TypeInv == WorkersOK /\ StartsOK /\ PartsOK /\ NetworkOK

LEMMA TypesAreOK == TypeInv => TypeOK
BY DEF TypeInv, TypeOK, WorkersOK, PoolWorker, StartsOK, PartsOK, NetworkOK

LEMMA WorkerTypes ==
    /\ Ended \in PoolWorker
    /\ \A p \in Parts : Taking(p) \in PoolWorker
<1>1. 0 \in 0..totalParts /\ 0 \in 0..partRetryLimit /\ Parts \subseteq 0..totalParts
  BY PartsAssumption, RetryAssumption DEF Parts
<1> QED
  BY <1>1 DEF Ended, Taking, Worker, PoolWorker

\* A worker that goes on with its part, or ends.
LEMMA SetWorkerTypes ==
    ASSUME WorkersOK, NEW r \in Runs, NEW w \in Workers, Working(r, w),
           \/ worker' = [worker EXCEPT ![r][w] = Ended]
           \/ \E pc \in {"gate", "put", "refresh", "reput", "backoff"} : SetWorker(r, w, pc)
    PROVE  WorkersOK'
<1>1. CASE worker' = [worker EXCEPT ![r][w] = Ended]
  BY <1>1, WorkerTypes DEF WorkersOK
<1>2. ASSUME NEW pc \in {"gate", "put", "refresh", "reput", "backoff"}, SetWorker(r, w, pc)
      PROVE  WorkersOK'
  <2>1. [worker[r][w] EXCEPT !.pc = pc] \in PoolWorker
    BY DEF WorkersOK, PoolWorker, Worker, Working
  <2> QED
    BY <1>2, <2>1 DEF SetWorker, WorkersOK
<1> QED
  BY <1>1, <1>2

LEMMA TakeNextTypes ==
    ASSUME WorkersOK, PartsOK, NEW r \in Runs, NEW w \in Workers, TakeNext(r, w)
    PROVE  WorkersOK' /\ uploadQueue' \in [Runs -> SUBSET Parts]
<1>1. CASE aborted \/ uploadQueue[r] = {}
  BY <1>1, WorkerTypes DEF TakeNext, WorkersOK, PartsOK
<1>2. CASE ~(aborted \/ uploadQueue[r] = {})
  <2>1. First(uploadQueue[r]) \in uploadQueue[r] /\ uploadQueue[r] \subseteq Parts
    BY <1>2, FirstIsOne DEF PartsOK
  <2>2. Taking(First(uploadQueue[r])) \in PoolWorker
    BY <2>1, WorkerTypes
  <2>3. WorkersOK'
    BY <1>2, <2>2 DEF TakeNext, WorkersOK
  <2>4. Rest(uploadQueue[r]) \in SUBSET Parts
    BY <2>1 DEF Rest
  <2>5. uploadQueue' = [uploadQueue EXCEPT ![r] = Rest(uploadQueue[r])]
    BY <1>2 DEF TakeNext, PartsOK
  <2> QED
    BY <2>3, <2>4, <2>5 DEF PartsOK
<1> QED
  BY <1>1, <1>2

\* A try that failed: the counter stays within the limit, as the last one gives up.
LEMMA CaughtTypes ==
    ASSUME WorkersOK, StartsOK, NetworkOK, NEW r \in Runs, NEW w \in Workers, NEW fatal \in BOOLEAN,
           Working(r, w), Caught(r, w, fatal), UNCHANGED <<known, aborted>>
    PROVE  WorkersOK' /\ StartsOK'
<1> DEFINE n == Tries(r, w)
           gives == online /\ ~aborted /\ (fatal \/ n >= partRetryLimit)
           next == [worker[r][w] EXCEPT !.pc = IF online THEN "backoff" ELSE "gate", !.attempt = n]
<1>1. worker[r][w] \in Worker /\ worker[r][w].part \in Parts
  BY DEF WorkersOK, PoolWorker, Working
<1>2. aborted \/ gives \/ n \in 0..partRetryLimit
  BY <1>1, RetryAssumption DEF Tries, Worker, NetworkOK
<1>3. aborted \/ gives \/ next \in PoolWorker
  BY <1>1, <1>2 DEF Worker, PoolWorker
<1>4. (IF aborted \/ gives THEN Ended ELSE next) \in PoolWorker
  BY <1>3, WorkerTypes
<1>5. worker' = [worker EXCEPT ![r][w] = IF aborted \/ gives THEN Ended ELSE next]
  BY DEF Caught, WorkersOK
<1>6. WorkersOK'
  <2> HIDE DEF n, gives, next
  <2> QED
    BY <1>4, <1>5 DEF WorkersOK
<1>7. UNCHANGED <<start, uploading>> \/ StartEnds(r, "failed")
  BY DEF Caught
<1>8. StartsOK'
  BY <1>7 DEF StartsOK, StartEnds, Goto, Settled
<1> QED
  BY <1>6, <1>8

LEMMA WorkerKeepsTypes ==
    ASSUME TypeInv, NEW r \in Runs, NEW w \in Workers, WorkerStep(r, w)
    PROVE  TypeInv'
<1> USE DEF TypeInv
<1>1. WorkersOK /\ StartsOK /\ PartsOK /\ NetworkOK
  OBVIOUS
<1>2. Working(r, w)
  BY DEF WorkerStep, Working, Is, Sent, PassGate, UrlExpired, UrlRefreshed, BackedOff, PartUploaded, PartFails, PartStalls, RefreshFails, Armed
<1>3. CASE PassGate(r, w) \/ UrlExpired(r, w) \/ UrlRefreshed(r, w) \/ BackedOff(r, w)
  <2>1. WorkersOK'
    BY <1>1, <1>3, <1>2, SetWorkerTypes DEF PassGate, UrlExpired, UrlRefreshed, BackedOff
  <2> QED
    BY <1>1, <1>3, <2>1 DEF PassGate, UrlExpired, UrlRefreshed, BackedOff, StartsOK, PartsOK, NetworkOK, network, server
<1>4. CASE PartUploaded(r, w)
  <2>1. WorkersOK' /\ uploadQueue' \in [Runs -> SUBSET Parts]
    BY <1>1, <1>4, <1>2, TakeNextTypes DEF PartUploaded
  <2>2. worker[r][w].part \in Parts
    BY <1>1, <1>2 DEF WorkersOK, PoolWorker, Working
  <2> QED
    BY <1>1, <1>4, <2>1, <2>2 DEF PartUploaded, Counted, StartsOK, PartsOK, NetworkOK, network
<1>5. CASE PartFails(r, w)
  <2>1. PICK fatal \in BOOLEAN : Caught(r, w, fatal)
    BY <1>5 DEF PartFails
  <2>2. WorkersOK' /\ StartsOK'
    BY <1>1, <1>2, <1>5, <2>1, CaughtTypes DEF PartFails
  <2>3. worker[r][w].part \in Parts
    BY <1>1, <1>2 DEF WorkersOK, PoolWorker, Working
  <2>4. PartsOK'
    BY <1>1, <1>5, <2>3 DEF PartFails, Counted, PartsOK
  <2>5. NetworkOK'
    BY <1>1, <1>5 DEF PartFails, NetworkOK, network
  <2> QED
    BY <2>2, <2>4, <2>5
<1>6. CASE PartStalls(r, w) \/ RefreshFails(r, w)
  <2>1. WorkersOK' /\ StartsOK'
    BY <1>1, <1>6, <1>2, CaughtTypes DEF PartStalls, RefreshFails
  <2> QED
    BY <1>1, <1>6, <2>1 DEF PartStalls, RefreshFails, PartsOK, NetworkOK, network, server
<1> QED
  BY <1>3, <1>4, <1>5, <1>6 DEF WorkerStep

LEMMA StartKeepsTypes ==
    ASSUME TypeInv, NEW r \in Runs, StartStep(r)
    PROVE  TypeInv'
<1> USE DEF TypeInv
<1>1. WorkersOK /\ StartsOK /\ PartsOK /\ NetworkOK
  OBVIOUS
<1>2. CASE StartCalled(r) \/ NoUploadUrls(r) \/ ResumeCalled(r)
  <2>1. StartsOK'
    BY <1>1, <1>2 DEF StartCalled, NoUploadUrls, ResumeCalled, Goto, StartsOK, Settled
  <2> QED
    BY <1>1, <1>2, <2>1 DEF StartCalled, NoUploadUrls, ResumeCalled, WorkersOK, PartsOK, NetworkOK, network, server
<1>3. CASE Initialized(r)
  BY <1>1, <1>3 DEF Initialized, Goto, StartsOK, Settled, WorkersOK, PartsOK, NetworkOK, network
<1>4. CASE GotUploadUrls(r)
  <2> DEFINE todo == Parts \ uploadedParts
             Rank(p) == Cardinality({q \in todo : q <= p})
             pool == [w \in Workers |-> IF \E p \in todo : Rank(p) = w
                               THEN Taking(CHOOSE p \in todo : Rank(p) = w) ELSE Ended]
  <2>1. pool \in [Workers -> PoolWorker]
    <3> HIDE DEF Rank
    <3> QED
      BY WorkerTypes
  <2>2. worker' = [worker EXCEPT ![r] = pool]
    BY <1>4 DEF GotUploadUrls
  <2>3. WorkersOK'
    <3> HIDE DEF pool
    <3> QED
      BY <1>1, <2>1, <2>2 DEF WorkersOK
  <2>4. {p \in todo : Rank(p) > maxConcurrentUploads} \in SUBSET Parts
    OBVIOUS
  <2>5. PartsOK'
    BY <1>1, <1>4, <2>4 DEF GotUploadUrls, PartsOK, server
  <2>6. StartsOK' /\ NetworkOK'
    BY <1>1, <1>4 DEF GotUploadUrls, Goto, StartsOK, NetworkOK, Settled, network, server
  <2> QED
    BY <2>3, <2>5, <2>6
<1>5. CASE PartsDone(r) \/ Stopped(r) \/ Completed(r)
  <2>1. StartsOK'
    BY <1>1, <1>5 DEF PartsDone, Stopped, Completed, StartEnds, Goto, StartsOK, Settled
  <2> QED
    BY <1>1, <1>5, <2>1 DEF PartsDone, Stopped, Completed, WorkersOK, PartsOK, NetworkOK, network, server
<1>6. CASE ResumeAnswered(r)
  BY <1>1, <1>6 DEF ResumeAnswered, Goto, StartsOK, Settled, WorkersOK, PartsOK, NetworkOK, network, server
<1> QED
  BY <1>2, <1>3, <1>4, <1>5, <1>6 DEF StartStep

\* What Pause and Abort leave of the pools.
LEMMA DroppedTypes == WorkersOK => Dropped \in [Runs -> [Workers -> PoolWorker]]
BY WorkerTypes DEF Dropped, WorkersOK

LEMMA NextKeepsTypes ==
    ASSUME TypeInv, Next
    PROVE  TypeInv'
<1>1. CASE Pause \/ Abort
  BY <1>1, DroppedTypes DEF Pause, Abort, TypeInv, WorkersOK, StartsOK, PartsOK, NetworkOK, network, server
<1>2. CASE AbortArrives
  BY <1>2 DEF AbortArrives, TypeInv, WorkersOK, StartsOK, PartsOK, NetworkOK, object, network
<1>3. CASE GoOffline \/ GoOnline
  <2>1. drops' \in 0..MaxDrops
    BY <1>3, RetryAssumption DEF GoOffline, GoOnline, TypeInv, NetworkOK
  <2>2. online' \in BOOLEAN /\ UNCHANGED <<alive, leaving>>
    BY <1>3 DEF GoOffline, GoOnline, server
  <2>3. NetworkOK'
    BY <2>1, <2>2 DEF TypeInv, NetworkOK
  <2> QED
    BY <1>3, <2>3 DEF GoOffline, GoOnline, TypeInv, WorkersOK, StartsOK, PartsOK, object, server
<1> QED
  BY <1>1, <1>2, <1>3, WorkerKeepsTypes, StartKeepsTypes DEF Next

LEMMA InitTypes == Init => TypeInv
<1> SUFFICES ASSUME Init PROVE TypeInv
  OBVIOUS
<1>1. Off \in [Workers -> PoolWorker]
  BY WorkerTypes DEF Off
<1>2. WorkersOK
  BY <1>1 DEF Init, WorkersOK
<1>3. StartsOK
  BY DEF Init, StartsOK, Settled
<1>4. PartsOK
  BY DEF Init, PartsOK
<1>5. NetworkOK
  <2>1. drops \in 0..MaxDrops
    BY RetryAssumption DEF Init
  <2> QED
    BY <2>1 DEF Init, NetworkOK
<1> QED
  BY <1>2, <1>3, <1>4, <1>5 DEF TypeInv

-----------------------------------------------------------------------------
\* One call at a time, and what its pool has.

\* A patient host has one call under way at a time, and a pool works for a call
\* that uploads, or that one of its parts has failed.
OneBusy ==
    /\ \A r, q \in Runs : Busy(r) /\ Busy(q) => r = q
    /\ \A r \in Runs : Running(r) => start[r] \in {"uploading", "failed"}

\* A part is in the queue of the call, or with one worker of its pool.
Pool(r) ==
    /\ \A w \in Workers : Working(r, w) => worker[r][w].part \notin uploadQueue[r]
    /\ \A w, v \in Workers :
          Working(r, w) /\ Working(r, v) /\ worker[r][w].part = worker[r][v].part => w = v

\* The client counts no part that the server lacks, unless the session is gone;
\* a call without a session opens the first one.
SessionInv ==
    /\ alive => known /\ uploadedParts \subseteq stored
    /\ ~known => uploadedParts = {}
    /\ \A r \in Runs : start[r] = "init" => ~known
    /\ \A r \in Runs : start[r] = "completing" => uploadedParts = Parts

\* A part of a call that uploads is uploaded, or in its queue or pool, not both.
Has(r, w, p) == Working(r, w) /\ worker[r][w].part = p
Spread(r) ==
    start[r] = "uploading" /\ ~aborted =>
        \A p \in Parts :
            /\ p \in uploadedParts \/ p \in uploadQueue[r] \/ \E w \in Workers : Has(r, w, p)
            /\ p \in uploadedParts => p \notin uploadQueue[r] /\ \A w \in Workers : ~Has(r, w, p)

PartsInv == OneBusy /\ SessionInv /\ \A r \in Runs : Pool(r) /\ Spread(r)

\* A step of a worker leaves the other workers alone, and its call unless it fails it.
WorkerLocal(r, w) ==
    /\ Working(r, w)
    /\ \A q \in Runs, v \in Workers : q # r \/ v # w => worker'[q][v] = worker[q][v]
    /\ \A q \in Runs : start'[q] = start[q] \/ (q = r /\ start[r] = "uploading" /\ start'[r] = "failed")

LEMMA WorkersLocal ==
    ASSUME TypeInv, NEW r \in Runs, NEW w \in Workers, WorkerStep(r, w)
    PROVE  WorkerLocal(r, w)
<1>1. /\ worker \in [Runs -> [Workers -> PoolWorker]]
      /\ start \in [Runs -> Settled \cup {"init", "urls", "uploading", "completing", "resuming"}]
  BY DEF TypeInv, WorkersOK, StartsOK
<1>2. ASSUME NEW fatal \in BOOLEAN, Caught(r, w, fatal), Working(r, w) PROVE WorkerLocal(r, w)
  <2>1. \E x : worker' = [worker EXCEPT ![r][w] = x]
    BY <1>1, <1>2 DEF Caught
  <2>2. \A q \in Runs, v \in Workers : q # r \/ v # w => worker'[q][v] = worker[q][v]
    BY <1>1, <2>1
  <2> QED
    BY <1>1, <1>2, <2>2 DEF Caught, StartEnds, Goto, WorkerLocal
<1>3. CASE PartFails(r, w) \/ PartStalls(r, w) \/ RefreshFails(r, w)
  BY <1>2, <1>3 DEF PartFails, PartStalls, RefreshFails, Armed, Sent, Is, Working
<1>4. CASE PartUploaded(r, w)
  BY <1>1, <1>4 DEF PartUploaded, TakeNext, Sent, Working, WorkerLocal
<1>5. CASE PassGate(r, w) \/ UrlExpired(r, w) \/ UrlRefreshed(r, w) \/ BackedOff(r, w)
  BY <1>1, <1>5 DEF PassGate, UrlExpired, UrlRefreshed, BackedOff, SetWorker, Is, Working, WorkerLocal
<1> QED
  BY <1>3, <1>4, <1>5 DEF WorkerStep

\* A step of a call: it was under way, or begins while nothing is.
StartLocal(r) ==
    /\ \A q \in Runs : q # r => start'[q] = start[q] /\ worker'[q] = worker[q]
    /\ \/ start[r] \notin Settled
       \/ \A q \in Runs : ~Busy(q)
    /\ \/ worker'[r] = worker[r] /\ ~Running(r)
       \/ start[r] = "urls" /\ start'[r] = "uploading"

LEMMA StartsLocal ==
    ASSUME TypeInv, Patient, OneBusy, NEW r \in Runs, StartStep(r)
    PROVE  StartLocal(r)
<1>1. /\ worker \in [Runs -> [Workers -> PoolWorker]]
      /\ start \in [Runs -> Settled \cup {"init", "urls", "uploading", "completing", "resuming"}]
  BY DEF TypeInv, WorkersOK, StartsOK
<1>2. Running(r) => start[r] \in {"uploading", "failed"}
  BY DEF OneBusy
<1>3. CASE StartCalled(r) \/ ResumeCalled(r)
  BY <1>1, <1>2, <1>3 DEF StartCalled, ResumeCalled, Free, Goto, Busy, StartLocal
<1>4. CASE Initialized(r) \/ NoUploadUrls(r) \/ ResumeAnswered(r) \/ Completed(r)
  BY <1>1, <1>2, <1>4 DEF Initialized, NoUploadUrls, ResumeAnswered, Completed, StartEnds, Goto, Settled, StartLocal
<1>5. CASE GotUploadUrls(r)
  BY <1>1, <1>2, <1>5 DEF GotUploadUrls, Goto, Settled, StartLocal
<1>6. CASE PartsDone(r) \/ Stopped(r)
  BY <1>1, <1>2, <1>6 DEF PartsDone, Stopped, AllEnded, Running, Working, Is, StartEnds, Goto, Settled, StartLocal
<1> QED
  BY <1>3, <1>4, <1>5, <1>6 DEF StartStep

LEMMA DroppedLess ==
    ASSUME TypeInv, Pause \/ Abort
    PROVE  /\ UNCHANGED <<start, uploadQueue>>
           /\ \A r \in Runs, w \in Workers : worker'[r][w] = worker[r][w] \/ worker'[r][w] = Ended
BY DEF Pause, Abort, Dropped

LEMMA NextOneBusy ==
    ASSUME TypeInv, Patient, OneBusy, Next
    PROVE  OneBusy'
<1> USE DEF OneBusy, Busy, Running, Working
<1>1. ASSUME NEW r \in Runs, NEW w \in Workers, WorkerStep(r, w) PROVE OneBusy'
  <2>1. WorkerLocal(r, w)
    BY <1>1, WorkersLocal
  <2> QED
    BY <2>1 DEF WorkerLocal, Settled
<1>2. ASSUME NEW r \in Runs, StartStep(r) PROVE OneBusy'
  <2>1. StartLocal(r)
    BY <1>2, StartsLocal
  <2> QED
    BY <2>1 DEF StartLocal, Settled
<1>3. CASE Pause \/ Abort
  BY <1>3, DroppedLess DEF Ended
<1>4. CASE AbortArrives \/ GoOffline \/ GoOnline
  BY <1>4 DEF AbortArrives, GoOffline, GoOnline, object
<1> QED
  BY <1>1, <1>2, <1>3, <1>4 DEF Next

\* What a worker has after its step: nothing, what it had, or the first of the queue.
Takes(r, w) ==
    \/ UNCHANGED uploadQueue /\ (Working(r, w)' => worker'[r][w].part = worker[r][w].part)
    \/ \E p \in uploadQueue[r] :
          /\ worker'[r][w].part = p
          /\ uploadQueue' = [uploadQueue EXCEPT ![r] = uploadQueue[r] \ {p}]

LEMMA WorkersTake ==
    ASSUME TypeInv, NEW r \in Runs, NEW w \in Workers, WorkerStep(r, w)
    PROVE  Takes(r, w)
<1>1. worker \in [Runs -> [Workers -> PoolWorker]] /\ uploadQueue \in [Runs -> SUBSET Parts]
  BY DEF TypeInv, WorkersOK, PartsOK
<1>2. worker[r][w] \in [pc : {"ended", "gate", "put", "refresh", "reput", "backoff"},
                        part : 0..totalParts, attempt : 0..partRetryLimit]
  BY <1>1 DEF PoolWorker, Worker
<1>3. ASSUME NEW fatal \in BOOLEAN, Caught(r, w, fatal), UNCHANGED uploadQueue PROVE Takes(r, w)
  <2> DEFINE next == [worker[r][w] EXCEPT !.pc = IF online THEN "backoff" ELSE "gate", !.attempt = Tries(r, w)]
  <2>1. worker'[r][w] = Ended \/ worker'[r][w] = next
    BY <1>1, <1>3 DEF Caught
  <2>2. next.part = worker[r][w].part
    BY <1>2
  <2>3. Working(r, w)' => worker'[r][w].part = worker[r][w].part
    <3> HIDE DEF next
    <3> QED
      BY <2>1, <2>2 DEF Working, Ended
  <2> QED
    BY <1>3, <2>3 DEF Takes
<1>4. CASE PartFails(r, w) \/ PartStalls(r, w) \/ RefreshFails(r, w)
  BY <1>3, <1>4 DEF PartFails, PartStalls, RefreshFails
<1>5. CASE PartUploaded(r, w)
  <2>1. CASE aborted \/ uploadQueue[r] = {}
    <3>1. worker' = [worker EXCEPT ![r][w] = Ended] /\ UNCHANGED uploadQueue
      BY <1>5, <2>1 DEF PartUploaded, TakeNext
    <3>2. worker'[r][w] = Ended
      BY <1>1, <3>1
    <3> QED
      BY <3>1, <3>2 DEF Takes, Working, Ended
  <2>2. CASE ~(aborted \/ uploadQueue[r] = {})
    <3>1. First(uploadQueue[r]) \in uploadQueue[r]
      BY <1>1, <2>2, FirstIsOne
    <3>2. /\ worker' = [worker EXCEPT ![r][w] = Taking(First(uploadQueue[r]))]
          /\ uploadQueue' = [uploadQueue EXCEPT ![r] = uploadQueue[r] \ {First(uploadQueue[r])}]
      BY <1>1, <1>5, <2>2 DEF PartUploaded, TakeNext, Rest
    <3>3. worker'[r][w].part = First(uploadQueue[r])
      BY <1>1, <3>2 DEF Taking, Ended
    <3> QED
      BY <3>1, <3>2, <3>3 DEF Takes
  <2> QED
    BY <2>1, <2>2
<1>6. CASE PassGate(r, w) \/ UrlExpired(r, w) \/ UrlRefreshed(r, w) \/ BackedOff(r, w)
  <2>1. UNCHANGED uploadQueue
    BY <1>6 DEF PassGate, UrlExpired, UrlRefreshed, BackedOff
  <2>2. CASE worker' = [worker EXCEPT ![r][w] = Ended]
    <3>1. worker'[r][w] = Ended
      BY <1>1, <2>2
    <3> QED
      BY <2>1, <3>1 DEF Takes, Working, Ended
  <2>3. ASSUME NEW pc \in {"gate", "put", "refresh", "reput"}, SetWorker(r, w, pc) PROVE Takes(r, w)
    <3>1. worker'[r][w].part = worker[r][w].part
      BY <1>1, <1>2, <2>3 DEF SetWorker
    <3> QED
      BY <2>1, <3>1 DEF Takes
  <2> QED
    BY <1>6, <2>2, <2>3 DEF PassGate, UrlExpired, UrlRefreshed, BackedOff
<1> QED
  BY <1>4, <1>5, <1>6 DEF WorkerStep

\* A new pool: the worker w has the part of rank w, and the queue has the rest.
LEMMA NewPool ==
    ASSUME TypeInv, NEW r \in Runs, GotUploadUrls(r)
    PROVE  Pool(r)' /\ \A q \in Runs : q # r => uploadQueue'[q] = uploadQueue[q]
<1> DEFINE todo == Parts \ uploadedParts
           Rank(p) == Cardinality({q \in todo : q <= p})
           pool == [w \in Workers |-> IF \E p \in todo : Rank(p) = w
                             THEN Taking(CHOOSE p \in todo : Rank(p) = w) ELSE Ended]
           left == {p \in todo : Rank(p) > maxConcurrentUploads}
<1>1. worker \in [Runs -> [Workers -> PoolWorker]] /\ uploadQueue \in [Runs -> SUBSET Parts]
  BY DEF TypeInv, WorkersOK, PartsOK
<1>2. worker' = [worker EXCEPT ![r] = pool] /\ uploadQueue' = [uploadQueue EXCEPT ![r] = left]
  BY DEF GotUploadUrls
<1>3. ASSUME NEW w \in Workers, pool[w].pc # "ended"
      PROVE  pool[w].part \in todo /\ Rank(pool[w].part) = w
  <2> HIDE DEF Rank, todo
  <2>1. \E p \in todo : Rank(p) = w
    BY <1>3 DEF Ended
  <2>2. pool[w].part = CHOOSE p \in todo : Rank(p) = w
    BY <2>1 DEF Taking, Ended
  <2> QED
    BY <2>1, <2>2
<1>4. worker'[r] = pool /\ uploadQueue'[r] = left
  <2> HIDE DEF pool, left
  <2> QED
    BY <1>1, <1>2
<1>5. \A w \in Workers : w <= maxConcurrentUploads /\ ~(w > maxConcurrentUploads)
  BY PartsAssumption DEF Workers
<1>6. \A w \in Workers : pool[w].pc # "ended" => pool[w].part \notin left
  <2> HIDE DEF Rank, pool
  <2> QED
    BY <1>3, <1>5
<1>7. \A w, v \in Workers : pool[w].pc # "ended" /\ pool[v].pc # "ended" /\ pool[w].part = pool[v].part => w = v
  <2> HIDE DEF Rank, pool
  <2> QED
    BY <1>3
<1>8. Pool(r)'
  <2> HIDE DEF pool, left
  <2> QED
    BY <1>4, <1>6, <1>7 DEF Pool, Working
<1>9. \A q \in Runs : q # r => uploadQueue'[q] = uploadQueue[q]
  <2> HIDE DEF left
  <2> QED
    BY <1>1, <1>2
<1> QED
  BY <1>8, <1>9

LEMMA NextPools ==
    ASSUME TypeInv, \A r \in Runs : Pool(r), Next
    PROVE  \A r \in Runs : Pool(r)'
<1> USE DEF Pool, Working
<1>1. ASSUME NEW r \in Runs, NEW w \in Workers, WorkerStep(r, w) PROVE \A q \in Runs : Pool(q)'
  <2>1. WorkerLocal(r, w) /\ Takes(r, w)
    BY <1>1, WorkersLocal, WorkersTake
  <2>2. uploadQueue \in [Runs -> SUBSET Parts]
    BY DEF TypeInv, PartsOK
  <2>3. ASSUME NEW q \in Runs, q # r PROVE Pool(q)'
    <3>1. uploadQueue'[q] = uploadQueue[q]
      BY <2>1, <2>2, <2>3 DEF Takes
    <3> QED
      BY <2>1, <2>3, <3>1 DEF WorkerLocal
  <2>4. CASE UNCHANGED uploadQueue /\ (Working(r, w)' => worker'[r][w].part = worker[r][w].part)
    BY <2>1, <2>3, <2>4 DEF WorkerLocal
  <2>5. ASSUME NEW p \in uploadQueue[r], worker'[r][w].part = p,
               uploadQueue' = [uploadQueue EXCEPT ![r] = uploadQueue[r] \ {p}]
        PROVE  Pool(r)'
    <3>1. uploadQueue'[r] = uploadQueue[r] \ {p}
      BY <2>2, <2>5
    <3> QED
      BY <2>1, <2>5, <3>1 DEF WorkerLocal
  <2> QED
    BY <2>1, <2>3, <2>4, <2>5 DEF Takes
<1>2. ASSUME NEW r \in Runs, StartStep(r) PROVE \A q \in Runs : Pool(q)'
  <2>1. CASE UNCHANGED <<worker, uploadQueue>>
    BY <2>1
  <2>2. CASE GotUploadUrls(r)
    <3>1. \A q \in Runs : q # r => worker'[q] = worker[q] /\ uploadQueue'[q] = uploadQueue[q]
      BY <2>2, NewPool DEF GotUploadUrls, TypeInv, WorkersOK
    <3> QED
      BY <2>2, <3>1, NewPool
  <2> QED
    BY <1>2, <2>1, <2>2 DEF StartStep, StartCalled, Initialized, NoUploadUrls, PartsDone, Stopped, Completed,
       ResumeCalled, ResumeAnswered
<1>3. CASE Pause \/ Abort
  BY <1>3, DroppedLess DEF Ended
<1>4. CASE AbortArrives \/ GoOffline \/ GoOnline
  BY <1>4 DEF AbortArrives, GoOffline, GoOnline, object
<1> QED
  BY <1>1, <1>2, <1>3, <1>4 DEF Next

-----------------------------------------------------------------------------
\* What the client counts, and what the server has.

LEMMA NextSession ==
    ASSUME TypeInv, Patient, OneBusy, SessionInv, Next
    PROVE  SessionInv'
<1> USE DEF SessionInv
<1>1. start \in [Runs -> Settled \cup {"init", "urls", "uploading", "completing", "resuming"}]
  BY DEF TypeInv, StartsOK
<1>2. ASSUME NEW r \in Runs, NEW w \in Workers, WorkerStep(r, w) PROVE SessionInv'
  <2>1. WorkerLocal(r, w)
    BY <1>2, WorkersLocal
  <2>2. \A q \in Runs : start'[q] \notin {"init", "completing"} /\ start[q] \notin {"init", "completing"}
    BY <1>1, <2>1 DEF WorkerLocal, OneBusy, Busy, Running, Settled
  <2>3. CASE PartUploaded(r, w)
    BY <2>2, <2>3 DEF PartUploaded, Counted
  <2>4. CASE ~PartUploaded(r, w)
    <3>1. UNCHANGED <<known, uploadedParts, alive>> /\ stored \subseteq stored'
      BY <1>2, <2>4 DEF WorkerStep, PartFails, PartStalls, RefreshFails, Counted,
         PassGate, UrlExpired, UrlRefreshed, BackedOff, server
    <3> QED
      BY <2>2, <3>1
  <2> QED
    BY <2>3, <2>4
<1>3. ASSUME NEW r \in Runs, StartStep(r) PROVE SessionInv'
  <2>1. StartLocal(r)
    BY <1>3, StartsLocal
  <2>2. \A q \in Runs : q # r => start[q] \in Settled /\ start'[q] = start[q]
    BY <1>3, <2>1 DEF StartLocal, OneBusy, Busy
  <2>3. CASE StartCalled(r) \/ ResumeCalled(r)
    BY <1>1, <2>2, <2>3 DEF StartCalled, ResumeCalled, Goto, server
  <2>4. CASE Initialized(r)
    BY <1>1, <2>2, <2>4 DEF Initialized, Goto, Settled
  <2>5. CASE NoUploadUrls(r) \/ GotUploadUrls(r) \/ Stopped(r)
    BY <1>1, <2>2, <2>5 DEF NoUploadUrls, GotUploadUrls, Stopped, StartEnds, Goto, server
  <2>6. CASE PartsDone(r)
    BY <1>1, <2>2, <2>6 DEF PartsDone, StartEnds, Goto, server
  <2>7. CASE Completed(r)
    BY <1>1, <2>2, <2>7 DEF Completed, StartEnds, Goto, Settled
  <2>8. CASE ResumeAnswered(r)
    BY <1>1, <2>2, <2>8 DEF ResumeAnswered, Goto, server, Settled
  <2> QED
    BY <1>3, <2>3, <2>4, <2>5, <2>6, <2>7, <2>8 DEF StartStep
<1>4. CASE Pause \/ Abort
  BY <1>4 DEF Pause, Abort, server
<1>5. CASE AbortArrives \/ GoOffline \/ GoOnline
  BY <1>5 DEF AbortArrives, GoOffline, GoOnline, object, server
<1> QED
  BY <1>2, <1>3, <1>4, <1>5 DEF Next

-----------------------------------------------------------------------------
\* No part is lost, or handed out again.

\* The ranks of the parts of a new queue: numbers from 1, and no two alike.
LEMMA Ranks ==
    ASSUME NEW todo, todo \subseteq Parts
    PROVE  /\ \A p \in todo : Cardinality({q \in todo : q <= p}) \in Nat \ {0}
           /\ \A p, q \in todo :
                Cardinality({x \in todo : x <= p}) = Cardinality({x \in todo : x <= q}) => p = q
<1> DEFINE Below(p) == {q \in todo : q <= p}
<1>1. todo \subseteq Nat /\ IsFiniteSet(todo)
  <2>1. Parts \subseteq Nat /\ IsFiniteSet(Parts)
    BY PartsAssumption, FS_Interval DEF Parts
  <2> QED
    BY <2>1, FS_Subset
<1>2. ASSUME NEW p \in todo PROVE IsFiniteSet(Below(p)) /\ Cardinality(Below(p)) \in Nat \ {0}
  <2>1. p \in Below(p) /\ Below(p) \in SUBSET todo
    BY <1>1
  <2> HIDE DEF Below
  <2>2. IsFiniteSet(Below(p)) /\ Below(p) # {}
    BY <1>1, <2>1, FS_Subset
  <2> QED
    BY <2>2, FS_CardinalityType, FS_EmptySet
<1>3. ASSUME NEW p \in todo, NEW q \in todo, p < q PROVE Cardinality(Below(p)) # Cardinality(Below(q))
  <2>0. p \in Nat /\ q \in Nat /\ ~(q <= p) /\ \A x \in todo : x \in Nat
    BY <1>1, <1>3
  <2>1. Below(p) \in SUBSET Below(q) /\ q \in Below(q) /\ q \notin Below(p)
    <3>1. \A x \in todo : x <= p => x <= q
      BY <1>3, <2>0
    <3>2. Below(p) \in SUBSET Below(q)
      BY <3>1
    <3>3. q <= q /\ q \in todo
      BY <1>3, <2>0
    <3>4. q \in Below(q) /\ q \notin Below(p)
      BY <2>0, <3>3
    <3> QED
      BY <3>2, <3>4
  <2> HIDE DEF Below
  <2> QED
    BY <1>2, <2>1, FS_Subset
<1>4. ASSUME NEW p \in todo, NEW q \in todo, Cardinality(Below(p)) = Cardinality(Below(q)) PROVE p = q
  <2>1. p \in Nat /\ q \in Nat
    BY <1>1, <1>4
  <2>2. ~(p < q) /\ ~(q < p)
    BY <1>3, <1>4
  <2> QED
    BY <2>1, <2>2
<1> QED
  BY <1>2, <1>4

LEMMA NewSpread ==
    ASSUME TypeInv, NEW r \in Runs, GotUploadUrls(r)
    PROVE  Spread(r)'
<1> DEFINE todo == Parts \ uploadedParts
           Rank(p) == Cardinality({q \in todo : q <= p})
           pool == [w \in Workers |-> IF \E p \in todo : Rank(p) = w
                             THEN Taking(CHOOSE p \in todo : Rank(p) = w) ELSE Ended]
           left == {p \in todo : Rank(p) > maxConcurrentUploads}
<1>1. worker \in [Runs -> [Workers -> PoolWorker]] /\ uploadQueue \in [Runs -> SUBSET Parts]
  BY DEF TypeInv, WorkersOK, PartsOK
<1>2. /\ worker' = [worker EXCEPT ![r] = pool] /\ uploadQueue' = [uploadQueue EXCEPT ![r] = left]
      /\ UNCHANGED uploadedParts
  BY DEF GotUploadUrls
<1>3. worker'[r] = pool /\ uploadQueue'[r] = left
  <2> HIDE DEF pool, left
  <2> QED
    BY <1>1, <1>2
<1>4. /\ \A p \in todo : Rank(p) \in Nat \ {0}
      /\ \A p, q \in todo : Rank(p) = Rank(q) => p = q
  BY Ranks
<1>5. ASSUME NEW w \in Workers, pool[w].pc # "ended" PROVE pool[w].part \in todo
  <2> HIDE DEF Rank, todo
  <2>1. \E p \in todo : Rank(p) = w
    BY <1>5 DEF Ended
  <2>2. pool[w].part = CHOOSE p \in todo : Rank(p) = w
    BY <2>1 DEF Taking, Ended
  <2> QED
    BY <2>1, <2>2
<1>6. ASSUME NEW p \in todo, p \notin left PROVE \E w \in Workers : pool[w].pc # "ended" /\ pool[w].part = p
  <2>1. Rank(p) \in Workers
    <3>1. Rank(p) \in Nat \ {0} /\ ~(Rank(p) > maxConcurrentUploads)
      BY <1>4, <1>6
    <3> HIDE DEF Rank, todo, left
    <3> QED
      BY <3>1, PartsAssumption DEF Workers
  <2> HIDE DEF Rank, todo, left
  <2>2. (CHOOSE q \in todo : Rank(q) = Rank(p)) = p
    BY <1>4, <1>6
  <2>3. pool[Rank(p)] = Taking(p)
    BY <1>6, <2>1, <2>2
  <2> QED
    BY <2>1, <2>3 DEF Taking, Ended
<1>7. left \subseteq todo
  OBVIOUS
<1>8. \A p \in Parts : p \in todo <=> p \notin uploadedParts
  OBVIOUS
<1> HIDE DEF pool, left, todo, Rank
<1> QED
  BY <1>2, <1>3, <1>5, <1>6, <1>7, <1>8 DEF Spread, Has, Working

\* What a step of a worker does to a call that still uploads after it: the part
\* stays where it is, or it is uploaded and the next one comes from the queue.
LEMMA WorkersSpread ==
    ASSUME TypeInv, NEW r \in Runs, NEW w \in Workers, WorkerStep(r, w),
           ~aborted, start'[r] = "uploading"
    PROVE  LET p == worker[r][w].part IN
           \/ /\ UNCHANGED <<uploadQueue, uploadedParts>>
              /\ Working(r, w)' /\ worker'[r][w].part = p
           \/ /\ uploadedParts' = uploadedParts \cup {p}
              /\ UNCHANGED uploadQueue /\ uploadQueue[r] = {} /\ ~Working(r, w)'
           \/ /\ uploadedParts' = uploadedParts \cup {p} /\ Working(r, w)'
              /\ worker'[r][w].part \in uploadQueue[r]
              /\ uploadQueue'[r] = uploadQueue[r] \ {worker'[r][w].part}
<1>1. /\ worker \in [Runs -> [Workers -> PoolWorker]] /\ uploadQueue \in [Runs -> SUBSET Parts]
      /\ start \in [Runs -> Settled \cup {"init", "urls", "uploading", "completing", "resuming"}]
  BY DEF TypeInv, WorkersOK, PartsOK, StartsOK
<1>2. worker[r][w] \in [pc : {"ended", "gate", "put", "refresh", "reput", "backoff"},
                        part : 0..totalParts, attempt : 0..partRetryLimit]
  BY <1>1 DEF PoolWorker, Worker
<1>3. start[r] = "uploading"
  BY WorkersLocal DEF WorkerLocal
<1>4. ASSUME NEW fatal \in BOOLEAN, Caught(r, w, fatal)
      PROVE  Working(r, w)' /\ worker'[r][w].part = worker[r][w].part
  <2> DEFINE next == [worker[r][w] EXCEPT !.pc = IF online THEN "backoff" ELSE "gate", !.attempt = Tries(r, w)]
  <2>1. ~(online /\ ~aborted /\ (fatal \/ Tries(r, w) >= partRetryLimit))
    <3> SUFFICES ASSUME online /\ ~aborted /\ (fatal \/ Tries(r, w) >= partRetryLimit) PROVE FALSE
      OBVIOUS
    <3>1. start' = [start EXCEPT ![r] = "failed"]
      BY <1>3, <1>4 DEF Caught, StartEnds, Goto
    <3> QED
      BY <1>1, <3>1
  <2>2. worker' = [worker EXCEPT ![r][w] = next]
    BY <1>4, <2>1 DEF Caught
  <2>3. next.pc # "ended" /\ next.part = worker[r][w].part
    BY <1>2
  <2> HIDE DEF next
  <2> QED
    BY <1>1, <2>2, <2>3 DEF Working
<1>5. CASE PartFails(r, w) \/ PartStalls(r, w) \/ RefreshFails(r, w)
  BY <1>4, <1>5 DEF PartFails, PartStalls, RefreshFails, Counted
<1>6. CASE PartUploaded(r, w)
  <2>1. uploadedParts' = uploadedParts \cup {worker[r][w].part} /\ TakeNext(r, w)
    BY <1>6 DEF PartUploaded, Counted
  <2>2. CASE uploadQueue[r] = {}
    <3>1. worker'[r][w] = Ended /\ UNCHANGED uploadQueue
      BY <1>1, <2>1, <2>2 DEF TakeNext
    <3> QED
      BY <2>1, <2>2, <3>1 DEF Working, Ended
  <2>3. CASE uploadQueue[r] # {}
    <3>1. First(uploadQueue[r]) \in uploadQueue[r]
      BY <1>1, <2>3, FirstIsOne
    <3>2. /\ worker' = [worker EXCEPT ![r][w] = Taking(First(uploadQueue[r]))]
          /\ uploadQueue' = [uploadQueue EXCEPT ![r] = uploadQueue[r] \ {First(uploadQueue[r])}]
      BY <1>1, <2>1, <2>3 DEF TakeNext, Rest
    <3>3. worker'[r][w].part = First(uploadQueue[r]) /\ worker'[r][w].pc = "gate"
      BY <1>1, <3>2 DEF Taking, Ended
    <3> QED
      BY <1>1, <2>1, <3>1, <3>2, <3>3 DEF Working
  <2> QED
    BY <2>2, <2>3
<1>7. CASE PassGate(r, w) \/ UrlExpired(r, w) \/ UrlRefreshed(r, w) \/ BackedOff(r, w)
  <2>1. PICK pc \in {"gate", "put", "refresh", "reput"} : SetWorker(r, w, pc)
    BY <1>7 DEF PassGate, UrlExpired, UrlRefreshed, BackedOff
  <2>2. worker'[r][w].part = worker[r][w].part /\ worker'[r][w].pc = pc
    BY <1>1, <1>2, <2>1 DEF SetWorker
  <2> QED
    BY <1>7, <2>2 DEF PassGate, UrlExpired, UrlRefreshed, BackedOff, Working
<1> QED
  BY <1>5, <1>6, <1>7 DEF WorkerStep

LEMMA NextSpread ==
    ASSUME TypeInv, Patient, OneBusy, \A r \in Runs : Pool(r) /\ Spread(r), Next
    PROVE  \A r \in Runs : Spread(r)'
<1> SUFFICES ASSUME NEW q \in Runs, start'[q] = "uploading", ~aborted' PROVE Spread(q)'
  BY DEF Spread
<1>1. ASSUME NEW r \in Runs, NEW w \in Workers, WorkerStep(r, w) PROVE Spread(q)'
  <2>0. UNCHANGED aborted
    BY <1>1 DEF WorkerStep, PassGate, PartUploaded, PartFails, PartStalls, UrlExpired, UrlRefreshed,
       RefreshFails, BackedOff
  <2>1. WorkerLocal(r, w) /\ ~aborted
    BY <1>1, <2>0, WorkersLocal
  <2>2. q = r /\ start[r] = "uploading"
    <3>1. start[q] = "uploading"
      BY <2>1 DEF WorkerLocal
    <3>2. Busy(q) /\ Busy(r)
      BY <2>1, <3>1 DEF WorkerLocal, Busy, Running, Settled
    <3> QED
      BY <3>1, <3>2 DEF OneBusy
  <2> DEFINE p == worker[r][w].part
  <2>3. \/ /\ UNCHANGED <<uploadQueue, uploadedParts>>
           /\ Working(r, w)' /\ worker'[r][w].part = p
        \/ /\ uploadedParts' = uploadedParts \cup {p}
           /\ UNCHANGED uploadQueue /\ uploadQueue[r] = {} /\ ~Working(r, w)'
        \/ /\ uploadedParts' = uploadedParts \cup {p} /\ Working(r, w)'
           /\ worker'[r][w].part \in uploadQueue[r]
           /\ uploadQueue'[r] = uploadQueue[r] \ {worker'[r][w].part}
    BY <1>1, <2>1, <2>2, WorkersSpread
  <2>4. /\ Has(r, w, p) /\ p \notin uploadQueue[r]
        /\ \A v \in Workers : v # w => ~Has(r, v, p)
        /\ \A v \in Workers : v # w => \A x : Has(r, v, x)' <=> Has(r, v, x)
        /\ \A x : Has(r, w, x)' <=> Working(r, w)' /\ worker'[r][w].part = x
    BY <2>1 DEF WorkerLocal, Has, Pool, Working
  <2>5. \A x : Has(r, w, x) => x = p
    BY DEF Has
  <2>6. \A x \in uploadQueue[r], v \in Workers : ~Has(r, v, x)
    BY DEF Has, Pool
  <2>7. \A x \in Parts :
            /\ x \in uploadedParts \/ x \in uploadQueue[r] \/ \E v \in Workers : Has(r, v, x)
            /\ x \in uploadedParts => x \notin uploadQueue[r] /\ \A v \in Workers : ~Has(r, v, x)
    BY <2>1, <2>2 DEF Spread
  <2>8. ASSUME NEW x \in Parts
        PROVE  /\ x \in uploadedParts' \/ x \in uploadQueue'[r] \/ \E v \in Workers : Has(r, v, x)'
               /\ x \in uploadedParts' => x \notin uploadQueue'[r] /\ \A v \in Workers : ~Has(r, v, x)'
    <3> HIDE DEF p
    <3> QED
      BY <2>3, <2>4, <2>5, <2>6, <2>7
  <2> QED
    BY <2>2, <2>8 DEF Spread
<1>2. ASSUME NEW r \in Runs, StartStep(r) PROVE Spread(q)'
  <2>1. CASE GotUploadUrls(r) /\ q = r
    BY <2>1, NewSpread
  <2>2. CASE ~(GotUploadUrls(r) /\ q = r)
    <3>1. StartLocal(r)
      BY <1>2, StartsLocal
    <3>2. CASE q # r
      <4>1. start[q] = "uploading" /\ Busy(q)
        BY <3>1, <3>2 DEF StartLocal, Busy, Settled
      <4> QED
        BY <3>1, <3>2, <4>1 DEF StartLocal, Busy, OneBusy
    <3>3. CASE q = r
      BY <1>2, <2>2, <3>3 DEF StartStep, StartCalled, Initialized, NoUploadUrls, PartsDone, Stopped, Completed,
         ResumeCalled, ResumeAnswered, StartEnds, Goto, TypeInv, StartsOK
    <3> QED
      BY <3>2, <3>3
  <2> QED
    BY <2>1, <2>2
<1>3. CASE Pause \/ Abort
  BY <1>3 DEF Pause, Abort
<1>4. CASE AbortArrives \/ GoOffline \/ GoOnline
  BY <1>4 DEF AbortArrives, GoOffline, GoOnline, object, Spread, Has, Working
<1> QED
  BY <1>1, <1>2, <1>3, <1>4 DEF Next

LEMMA InitParts == Init => PartsInv
<1> SUFFICES ASSUME Init PROVE PartsInv
  OBVIOUS
<1>1. \A r \in Runs, w \in Workers : worker[r][w].pc = "ended" /\ start[r] = "no"
  BY DEF Init, Off, Ended
<1> QED
  BY <1>1 DEF Init, PartsInv, OneBusy, Busy, Running, Working, Pool, Spread, SessionInv, Settled

LEMMA NextParts ==
    ASSUME TypeInv, Patient, PartsInv, Next
    PROVE  PartsInv'
BY NextOneBusy, NextSession, NextPools, NextSpread DEF PartsInv

LEMMA StutterParts ==
    ASSUME UNCHANGED vars
    PROVE  /\ TypeInv => TypeInv'
           /\ PartsInv => PartsInv'
<1> USE DEF vars, object, network, server
<1>1. TypeInv => TypeInv'
  BY DEF TypeInv, WorkersOK, StartsOK, PartsOK, NetworkOK
<1>2. PartsInv => PartsInv'
  BY DEF PartsInv, OneBusy, Busy, Running, Working, Pool, Spread, Has, SessionInv
<1> QED
  BY <1>1, <1>2

-----------------------------------------------------------------------------
\* The two halves of the state.
WatcherOK ==
    /\ watch \in [Watchers -> {"no", "timer", "fetching", "settled"}]
    /\ polls \in [Watchers -> 0..MaxPolls] /\ onDone \in [Watchers -> Nat]
    /\ late \subseteq Watchers /\ stopped \subseteq Watchers

RealtimeOK ==
    /\ live \subseteq W!Echoes /\ echo \in live \cup {None} /\ connecting \in 0..2
    /\ subscriptions \subseteq Channels
    /\ joined \in [W!Echoes -> SUBSET Channels] /\ listening \in [W!Echoes -> SUBSET Watchers]
    /\ subscriptions = IF echo = None THEN {} ELSE joined[echo]

\* One connection is made at a time, only without one, and on no channel yet.
ConnectInv ==
    /\ connecting > 0 => echo = None /\ connecting = 1
    /\ \A e \in W!Echoes \ live : joined[e] = {}

WatchTypes == W!TypeOK /\ ConnectInv

LEMMA WatchingParts == W!TypeOK <=> WatcherOK /\ RealtimeOK
BY DEF W!TypeOK, WatcherOK, RealtimeOK

LEMMA FinalizeKeepsTypes ==
    ASSUME WatcherOK, NEW h \in Watchers, NEW fire \in BOOLEAN, W!Finalize(h, fire)
    PROVE  /\ watch' \in [Watchers -> {"no", "timer", "fetching", "settled"}]
           /\ onDone' \in [Watchers -> Nat]
BY DEF WatcherOK, W!Finalize

\* The poll, the push, stop and the cap.
WatcherStep(h) ==
    W!Watch(h) \/ W!Tick(h) \/ W!Processed(h) \/ W!StillProcessing(h) \/ W!LateAnswer(h) \/ W!Stop(h)

LEMMA WatcherKeepsTypes ==
    ASSUME WatcherOK, RealtimeOK, NEW h \in Watchers, WatcherStep(h) \/ \E c \in Channels : W!Push(c)
    PROVE  WatcherOK' /\ UNCHANGED W!realtime
<1>1. CASE W!Watch(h)
  BY <1>1 DEF W!Watch, WatcherOK
<1>2. CASE W!Tick(h)
  <2>1. CASE W!InTime(h)
    BY <1>2, <2>1, PollAssumption DEF W!Tick, WatcherOK, W!InTime
  <2>2. CASE ~W!InTime(h)
    BY <1>2, <2>2, FinalizeKeepsTypes DEF W!Tick, WatcherOK
  <2> QED
    BY <2>1, <2>2
<1>3. CASE W!Processed(h)
  BY <1>3, FinalizeKeepsTypes DEF W!Processed, WatcherOK
<1>4. CASE W!StillProcessing(h)
  BY <1>4 DEF W!StillProcessing, WatcherOK
<1>5. CASE W!LateAnswer(h)
  BY <1>5, FinalizeKeepsTypes DEF W!LateAnswer, WatcherOK
<1>6. CASE W!Stop(h)
  BY <1>6, FinalizeKeepsTypes DEF W!Stop, W!Outlived, WatcherOK
<1>7. ASSUME NEW c \in Channels, NEW e \in live, NEW w \in listening[e],
             W!Finalize(w, TRUE), W!Outlived(w), UNCHANGED <<polls, stopped, W!realtime>>
      PROVE  WatcherOK' /\ UNCHANGED W!realtime
  <2>1. w \in Watchers
    BY <1>7 DEF RealtimeOK
  <2> QED
    BY <1>7, <2>1, FinalizeKeepsTypes DEF W!Outlived, WatcherOK
<1> QED
  BY <1>1, <1>2, <1>3, <1>4, <1>5, <1>6, <1>7 DEF WatcherStep, W!Push

RealtimeStep ==
    \/ \E h \in Watchers : W!Subscribe(h) \/ W!Unsubscribe(h)
    \/ W!Connect \/ W!Connected \/ W!ConnectFails \/ W!Disconnect

LEMMA RealtimeKeepsTypes ==
    ASSUME RealtimeOK, ConnectInv, RealtimeStep
    PROVE  RealtimeOK' /\ ConnectInv' /\ UNCHANGED W!watcher
<1>1. W!Echoes \subseteq Nat /\ None \notin W!Echoes /\ (echo # None => echo \in W!Echoes)
  BY PollAssumption DEF W!Echoes, RealtimeOK
<1>2. ASSUME NEW h \in Watchers, W!Subscribe(h)
      PROVE  RealtimeOK' /\ ConnectInv' /\ UNCHANGED W!watcher
  <2>1. ChannelOf[h] \in Channels
    BY ChannelAssumption
  <2> QED
    BY <1>1, <1>2, <2>1 DEF W!Subscribe, RealtimeOK, ConnectInv
<1>3. ASSUME NEW h \in Watchers, W!Unsubscribe(h)
      PROVE  RealtimeOK' /\ ConnectInv' /\ UNCHANGED W!watcher
  BY <1>1, <1>3 DEF W!Unsubscribe, W!Left, RealtimeOK, ConnectInv
<1>4. CASE W!Connect
  BY <1>4 DEF W!Connect, W!Shared, RealtimeOK, ConnectInv
<1>5. CASE W!Connected
  BY <1>1, <1>5 DEF W!Connected, RealtimeOK, ConnectInv
<1>6. CASE W!ConnectFails
  BY <1>6 DEF W!ConnectFails, RealtimeOK, ConnectInv
<1>7. CASE W!Disconnect
  BY <1>1, <1>7 DEF W!Disconnect, W!ClearMap, W!Left, RealtimeOK, ConnectInv
<1> QED
  BY <1>2, <1>3, <1>4, <1>5, <1>6, <1>7 DEF RealtimeStep

LEMMA StepsSplit ==
    ASSUME W!Next
    PROVE  \/ RealtimeStep
           \/ \E h \in Watchers : WatcherStep(h)
           \/ \E c \in Channels : W!Push(c)
BY DEF W!Next, W!WatchStep, WatcherStep, RealtimeStep

LEMMA WatcherKeepsConnections ==
    ASSUME RealtimeOK, ConnectInv, UNCHANGED W!realtime
    PROVE  RealtimeOK' /\ ConnectInv'
BY DEF RealtimeOK, ConnectInv, W!realtime

LEMMA WatchTypesHold ==
    /\ W!Init => WatchTypes
    /\ WatchTypes /\ [W!Next]_W!vars => WatchTypes'
<1>1. W!Init => WatchTypes
  BY ChannelAssumption, PollAssumption DEF W!Init, WatchTypes, W!TypeOK, ConnectInv
<1>2. WatchTypes /\ UNCHANGED W!vars => WatchTypes'
  BY DEF WatchTypes, W!TypeOK, ConnectInv, W!vars, W!watcher, W!realtime
<1>3. WatchTypes /\ W!Next => WatchTypes'
  <2> SUFFICES ASSUME WatchTypes, W!Next PROVE WatchTypes'
    OBVIOUS
  <2>1. WatcherOK /\ RealtimeOK /\ ConnectInv
    BY WatchingParts DEF WatchTypes
  <2>2. CASE RealtimeStep
    <3>1. RealtimeOK' /\ ConnectInv' /\ UNCHANGED W!watcher
      BY <2>1, <2>2, RealtimeKeepsTypes
    <3>2. WatcherOK'
      BY <2>1, <3>1 DEF WatcherOK, W!watcher
    <3> QED
      BY <3>1, <3>2 DEF WatchTypes, W!TypeOK, WatcherOK, RealtimeOK
  <2>3. ASSUME NEW h \in Watchers, WatcherStep(h) PROVE WatchTypes'
    BY <2>1, <2>3, WatcherKeepsTypes, WatcherKeepsConnections
       DEF WatchTypes, W!TypeOK, WatcherOK, RealtimeOK
  <2>4. ASSUME NEW c \in Channels, W!Push(c) PROVE WatchTypes'
    <3>1. PICK e \in live : \E h \in listening[e] : W!Finalize(h, TRUE)
      BY <2>4 DEF W!Push
    <3>2. Watchers # {}
      BY <2>1, <3>1 DEF RealtimeOK
    <3> QED
      BY <2>1, <2>4, <3>2, WatcherKeepsTypes, WatcherKeepsConnections
         DEF WatchTypes, W!TypeOK, WatcherOK, RealtimeOK
  <2> QED
    BY <2>2, <2>3, <2>4, StepsSplit
<1> QED
  BY <1>1, <1>2, <1>3

\* Watchers, connections and channels keep their types, and the map names the
\* channels of the present connection, however connects and disconnects meet.
THEOREM WatchingTypeCorrect == W!Spec => []W!TypeOK
<1>1. W!Init => WatchTypes
  BY WatchTypesHold
<1>2. WatchTypes /\ [W!Next]_W!vars => WatchTypes'
  BY WatchTypesHold
<1>3. WatchTypes => W!TypeOK
  BY DEF WatchTypes
<1> QED
  BY <1>1, <1>2, <1>3, PTL DEF W!Spec

-----------------------------------------------------------------------------
\* Who was stopped has settled: nothing that comes later finalizes again.
StoppedSettled == \A h \in stopped : watch[h] = "settled"

CallInv == W!CallsBackOnce /\ StoppedSettled

LEMMA FinalizeOnce ==
    ASSUME WatcherOK, CallInv, NEW h \in Watchers, W!Finalize(h, TRUE), UNCHANGED stopped
    PROVE  CallInv'
BY DEF WatcherOK, CallInv, W!CallsBackOnce, StoppedSettled, W!Finalize, W!MayFinalize, W!Waiting

LEMMA NextKeepsCalls ==
    ASSUME W!TypeOK, CallInv, W!Next
    PROVE  CallInv'
<1>1. WatcherOK /\ RealtimeOK
  BY WatchingParts
<1>2. ASSUME UNCHANGED W!watcher PROVE CallInv'
  BY <1>2 DEF CallInv, W!CallsBackOnce, StoppedSettled, W!watcher
<1>3. CASE RealtimeStep
  BY <1>2, <1>3 DEF RealtimeStep, W!Subscribe, W!Unsubscribe, W!Connect, W!Connected, W!ConnectFails,
     W!Disconnect
<1>4. ASSUME NEW h \in Watchers, W!Watch(h) \/ W!StillProcessing(h) PROVE CallInv'
  BY <1>1, <1>4 DEF W!Watch, W!StillProcessing, WatcherOK, CallInv, W!CallsBackOnce, StoppedSettled
<1>5. ASSUME NEW h \in Watchers, W!Tick(h) PROVE CallInv'
  <2>1. CASE W!InTime(h)
    BY <1>1, <1>5, <2>1 DEF W!Tick, WatcherOK, CallInv, W!CallsBackOnce, StoppedSettled
  <2>2. CASE ~W!InTime(h)
    BY <1>1, <1>5, <2>2, FinalizeOnce DEF W!Tick
  <2> QED
    BY <2>1, <2>2
<1>6. ASSUME NEW h \in Watchers, W!Processed(h) \/ W!LateAnswer(h) PROVE CallInv'
  BY <1>1, <1>6, FinalizeOnce DEF W!Processed, W!LateAnswer
<1>7. ASSUME NEW h \in Watchers, W!Stop(h) PROVE CallInv'
  BY <1>1, <1>7 DEF W!Stop, W!Finalize, W!MayFinalize, W!Waiting, WatcherOK, CallInv, W!CallsBackOnce,
     StoppedSettled
<1>8. ASSUME NEW c \in Channels, W!Push(c) PROVE CallInv'
  <2>1. PICK e \in live : \E h \in listening[e] : W!Finalize(h, TRUE) /\ UNCHANGED stopped
    BY <1>8 DEF W!Push
  <2>2. PICK h \in listening[e] : W!Finalize(h, TRUE) /\ UNCHANGED stopped
    BY <2>1
  <2>3. h \in Watchers
    BY <1>1 DEF RealtimeOK
  <2> QED
    BY <1>1, <2>2, <2>3, FinalizeOnce
<1> QED
  BY <1>3, <1>4, <1>5, <1>6, <1>7, <1>8, StepsSplit DEF WatcherStep

LEMMA CallsHold ==
    /\ W!Init => CallInv
    /\ WatchTypes /\ CallInv /\ [W!Next]_W!vars => CallInv'
<1>1. W!Init => CallInv
  BY DEF W!Init, CallInv, W!CallsBackOnce, StoppedSettled
<1>2. CallInv /\ UNCHANGED W!vars => CallInv'
  BY DEF CallInv, W!CallsBackOnce, StoppedSettled, W!vars, W!watcher
<1> QED
  BY <1>1, <1>2, NextKeepsCalls DEF WatchTypes

-----------------------------------------------------------------------------
\* The whole.

LEMMA MediaSteps ==
    ASSUME [MediaNext]_allVars
    PROVE  /\ [W!Next]_W!vars
           /\ \/ Next \/ UNCHANGED vars
              \/ CreatePost
<1>1. UNCHANGED watching => UNCHANGED W!vars
  BY DEF W!vars, W!watcher, W!realtime, watching
<1> QED
  BY <1>1 DEF MediaNext, Upload, UploadDirect, CreatePost, WatchPost, allVars,
     GetPresignedUploadUrl, NoPresignedUrl, PutStored, PutRefused, PutLoaded, PutBroken, DirectStep

\* An upload that the host has let go of.
LEMMA CreatePostKeeps ==
    ASSUME CreatePost
    PROVE  TypeInv' /\ PartsInv'
<1>1. Off \in [Workers -> PoolWorker]
  BY WorkerTypes DEF Off
<1>2. /\ known' = FALSE /\ uploadedParts' = {} /\ uploading' = FALSE /\ aborted' = FALSE
      /\ start' = [r \in Runs |-> "done"] /\ uploadQueue' = [r \in Runs |-> {}]
      /\ worker' = [r \in Runs |-> Off] /\ online' = TRUE /\ drops' = 0
      /\ stored' = {} /\ alive' = FALSE /\ leaving' = FALSE
  BY DEF CreatePost
<1>3. WorkersOK'
  BY <1>1, <1>2 DEF WorkersOK
<1>4. StartsOK'
  BY <1>2 DEF StartsOK, Settled
<1>5. PartsOK'
  BY <1>2 DEF PartsOK
<1>6. NetworkOK'
  <2>1. drops' \in 0..MaxDrops
    BY <1>2, RetryAssumption
  <2> QED
    BY <1>2, <2>1 DEF NetworkOK
<1>7. \A r \in Runs, w \in Workers : worker'[r][w].pc = "ended" /\ start'[r] = "done"
  BY <1>2 DEF Off, Ended
<1>8. PartsInv'
  BY <1>2, <1>7 DEF PartsInv, OneBusy, Busy, Running, Working, Pool, Spread, SessionInv, Settled
<1> QED
  BY <1>3, <1>4, <1>5, <1>6, <1>8 DEF TypeInv

\* The upload of a small file.
DirectOK ==
    direct \in {"no", "start", "put", "stored", "refused", "done", "failed"} /\ posted \in BOOLEAN

LEMMA DirectHolds ==
    /\ MediaInit => DirectOK
    /\ DirectOK /\ [MediaNext]_allVars => DirectOK'
BY DEF MediaInit, DirectOK, MediaNext, Upload, UploadDirect, CreatePost, WatchPost, allVars,
   GetPresignedUploadUrl, NoPresignedUrl, PutStored, PutRefused, PutLoaded, PutBroken, DirectStep

LEMMA MediaTypesHold ==
    /\ MediaInit => TypeInv /\ WatchTypes
    /\ TypeInv /\ WatchTypes /\ [MediaNext]_allVars => TypeInv' /\ WatchTypes'
<1>1. MediaInit => TypeInv /\ WatchTypes
  BY InitTypes, WatchTypesHold DEF MediaInit
<1>2. ASSUME TypeInv, WatchTypes, [MediaNext]_allVars PROVE TypeInv' /\ WatchTypes'
  BY <1>2, MediaSteps, NextKeepsTypes, StutterParts, CreatePostKeeps, WatchTypesHold
<1> QED
  BY <1>1, <1>2

\* The upload, its parts and workers, the watchers and the realtime client keep
\* their types, for any number of parts, workers, calls, watchers and channels.
THEOREM MediaTypeCorrect == MediaSpec => []MediaTypeOK
<1>1. TypeInv /\ WatchTypes /\ DirectOK => MediaTypeOK
  BY TypesAreOK DEF WatchTypes, DirectOK, MediaTypeOK
<1> QED
  BY <1>1, MediaTypesHold, DirectHolds, PTL DEF MediaSpec

\* A watch has called back exactly once when it settled by itself and never
\* when it was stopped, however polls, pushes, the cap, late answers and stop
\* overlap (finalize in watchPostProcessing).
THEOREM CallsBackOnceAlways == MediaSpec => []CallsBackOnce
<1>1. MediaInit => CallInv
  BY CallsHold DEF MediaInit
<1>2. WatchTypes /\ CallInv /\ [MediaNext]_allVars => CallInv'
  BY MediaSteps, CallsHold
<1>3. CallInv => CallsBackOnce
  BY DEF CallInv, CallsBackOnce
<1> QED
  BY <1>1, <1>2, <1>3, MediaTypesHold, PTL DEF MediaSpec

LEMMA PartsHold ==
    ASSUME Patient
    PROVE  MediaSpec => [](TypeInv /\ PartsInv)
<1>1. MediaInit => TypeInv /\ PartsInv
  BY InitTypes, InitParts DEF MediaInit
<1>2. ASSUME TypeInv, PartsInv, [MediaNext]_allVars PROVE TypeInv' /\ PartsInv'
  BY <1>2, MediaSteps, NextKeepsTypes, NextParts, StutterParts, CreatePostKeeps
<1> QED
  BY <1>1, <1>2, PTL DEF MediaSpec

\* While a call uploads, each part is uploaded, queued or in one worker's hands,
\* whatever fails, is retried or waits for the network, if the host waits for a
\* call and its pool before the next.
THEOREM EachPartOnceAlways ==
    ASSUME Patient
    PROVE  MediaSpec => []EachPartOnce
<1>1. PartsInv => EachPartOnce
  <2> SUFFICES ASSUME PartsInv, NEW r \in Runs, NEW p \in Parts, start[r] = "uploading", ~aborted
               PROVE  \/ p \in uploadedParts /\ p \notin uploadQueue[r] /\ Holders(r, p) = {}
                      \/ p \notin uploadedParts /\ p \in uploadQueue[r] /\ Holders(r, p) = {}
                      \/ /\ p \notin uploadedParts /\ p \notin uploadQueue[r]
                         /\ \E w \in Workers : Holders(r, p) = {w}
    BY DEF EachPartOnce
  <2>1. Pool(r) /\ Spread(r)
    BY DEF PartsInv
  <2>2. CASE p \in uploadedParts \/ p \in uploadQueue[r]
    BY <2>1, <2>2 DEF Pool, Spread, Has, Holders
  <2>3. CASE p \notin uploadedParts /\ p \notin uploadQueue[r]
    <3>1. PICK w \in Workers : Working(r, w) /\ worker[r][w].part = p
      BY <2>1, <2>3 DEF Spread, Has
    <3>2. Holders(r, p) = {w}
      BY <2>1, <3>1 DEF Pool, Holders
    <3> QED
      BY <2>3, <3>2
  <2> QED
    BY <2>2, <2>3
<1> QED
  BY <1>1, PartsHold, PTL

\* The server is asked to put the file together only when it has every part,
\* whatever was paused, retried, lost, resumed or left to an aborted session.
THEOREM CompleteIsWholeAlways ==
    ASSUME Patient
    PROVE  MediaSpec => []CompleteIsWhole
<1>1. TypeInv /\ PartsInv => CompleteIsWhole
  BY DEF TypeInv, PartsOK, PartsInv, SessionInv, CompleteIsWhole
<1> QED
  BY <1>1, PartsHold, PTL
=============================================================================
