------------------------------ MODULE PostsProofs ------------------------------
(***************************************************************************)
(* Proofs about Posts, for any posts, calls, concurrent batches and bounds. *)
(***************************************************************************)
EXTENDS Posts, TLAPS

USE DEF At, Goto, Return

-----------------------------------------------------------------------------
\* Type correctness

\* What the types alone do not say: a refresh is about one post, the answer it
\* merges is about a post the server still has, and so is every merged row.
AboutPost(o) == o.kind = "react" \/ o.pc \in {"reacting", "refresh"} => o.ids # {}

RowInv ==
    /\ \A c \in Callers : AboutPost(call[c])
    /\ \A c \in Callers : At(c, "touch") => call[c].row # NoRow
    /\ \A p \in engine.left \cup engine.changed : engine.data[p] # NoRow
    /\ engine.pc = "put" => engine.post \in Posts
    /\ engine.pc = "out" => engine.changed = {}

LEMMA RowsType ==
  /\ NoRow \in Rows /\ NoRows \in [Posts -> Rows]
  /\ \A r \in Rows : r = NoRow \/ r \in Row
  /\ \A r \in Row : r # NoRow
  BY DEF Rows, NoRows, Row, NoRow

LEMMA IdleTypes == Idle \in Call /\ NoFlight \in Flight /\ NoRequest \in Request
  <1>1. Idle \in Call
    BY RowsType, BoundsAssumption DEF Idle, Call, PCs
  <1>2. NoFlight \in Flight
    BY RowsType DEF NoFlight, Flight
  <1>3. NoRequest \in Request
    BY RowsType DEF NoRequest, Request, EnginePCs
  <1> QED BY <1>1, <1>2, <1>3

\* What the server answers, and what the SDK makes of a row and an answer.
LEMMA ServedType ==
  ASSUME TypeOK, NEW p \in Posts
  PROVE  Served(p) \in Rows /\ (Served(p) # NoRow => p \notin gone /\ Served(p).eng = eng[p])
  BY HashAssumption DEF TypeOK, Served, Rows, Row, NoRow

LEMMA ReadsType ==
  ASSUME TypeOK, NEW p \in Posts, NEW r \in Reads(p)
  PROVE  r \in Rows
  BY RowsType DEF TypeOK, Reads

LEMMA MergedTypes ==
  ASSUME NEW old \in Row, NEW new \in Row
  PROVE  /\ [old EXCEPT !.eng = new.eng, !.hash = HashOf[new.eng]] \in Row
         /\ [old EXCEPT !.stamp = new.stamp, !.eng = new.eng] \in Row
  BY HashAssumption DEF Row

\* A call in its slot, replaced or moved on with some of its fields.
LEMMA CallBecomes ==
  ASSUME TypeOK, NEW c \in Callers, NEW o \in Call
  PROVE  [call EXCEPT ![c] = o] \in [Callers -> Call]
  BY DEF TypeOK

LEMMA CallUpdates ==
  ASSUME TypeOK, NEW c \in Callers, NEW pc \in PCs, NEW ids \in SUBSET Posts, NEW r \in Rows
  PROVE  /\ [call EXCEPT ![c].pc = pc] \in [Callers -> Call]
         /\ [call EXCEPT ![c].pc = pc, ![c].ids = ids] \in [Callers -> Call]
         /\ [call EXCEPT ![c].pc = pc, ![c].row = r] \in [Callers -> Call]
         /\ [call EXCEPT ![c] = Idle] \in [Callers -> Call]
  <1>1. call[c] \in Call /\ "none" \in OpKinds \cup {"none", "reload"}
    BY DEF TypeOK
  <1>2. [call EXCEPT ![c].pc = pc] = [call EXCEPT ![c] = [call[c] EXCEPT !.pc = pc]]
    BY DEF TypeOK
  <1>3. [call EXCEPT ![c].pc = pc, ![c].ids = ids]
          = [call EXCEPT ![c] = [call[c] EXCEPT !.pc = pc, !.ids = ids]]
    BY DEF TypeOK
  <1>4. [call EXCEPT ![c].pc = pc, ![c].row = r]
          = [call EXCEPT ![c] = [call[c] EXCEPT !.pc = pc, !.row = r]]
    BY DEF TypeOK
  <1>5. /\ [call[c] EXCEPT !.pc = pc] \in Call
        /\ [call[c] EXCEPT !.pc = pc, !.ids = ids] \in Call
        /\ [call[c] EXCEPT !.pc = pc, !.row = r] \in Call
    BY <1>1 DEF Call
  <1>6. Idle \in Call
    BY IdleTypes
  <1> QED BY <1>2, <1>3, <1>4, <1>5, <1>6, CallBecomes

LEMMA BeginType ==
  ASSUME TypeOK, NEW c \in Calls, NEW k \in OpKinds, NEW pc \in PCs, NEW ids \in SUBSET Posts,
         Begin(c, k, pc, ids)
  PROVE  TypeOK'
  <1> DEFINE o == [Idle EXCEPT !.pc = pc, !.kind = k, !.ids = ids]
  <1>1. o \in Call
    <2>1. Idle \in Call
      BY IdleTypes
    <2> HIDE DEF Idle
    <2> QED BY <2>1 DEF Call
  <1>2. c \in Callers /\ call' = [call EXCEPT ![c] = o]
    BY DEF Begin, Callers
  <1> HIDE DEF o
  <1>3. call' \in [Callers -> Call]
    BY <1>1, <1>2, CallBecomes
  <1> QED BY <1>3 DEF TypeOK, Begin, server, postVars, engVars

LEMMA AskType ==
  ASSUME TypeOK, NEW c \in Calls, NEW k \in OpKinds, NEW ids \in SUBSET Posts, Ask(c, k, ids)
  PROVE  TypeOK'
  <1> DEFINE o == [Idle EXCEPT !.pc = "engagement", !.kind = k, !.ids = ids, !.seen = eng]
  <1>1. o \in Call
    <2>1. Idle \in Call
      BY IdleTypes
    <2>2. eng \in [Posts -> 0..MaxEng] /\ "engagement" \in PCs
      BY DEF TypeOK, PCs
    <2> HIDE DEF Idle
    <2> QED BY <2>1, <2>2 DEF Call
  <1>2. c \in Callers /\ call' = [call EXCEPT ![c] = o]
    BY DEF Ask, Callers
  <1> HIDE DEF o
  <1>3. call' \in [Callers -> Call]
    BY <1>1, <1>2, CallBecomes
  <1>4. armed' \in 0..MaxTimers
    BY BoundsAssumption DEF Ask, Debounce, TypeOK
  <1> QED BY <1>3, <1>4 DEF TypeOK, Ask, server, postVars

LEMMA StartType ==
  ASSUME TypeOK, NEW c \in Calls, Start(c)
  PROVE  TypeOK'
  <1>1. {"cache", "lookup", "direct", "delete", "reacting"} \subseteq PCs
        /\ {"batch", "get", "force", "delete", "react", "engage"} \subseteq OpKinds
    BY DEF PCs, OpKinds
  <1>2. CASE StartBatch(c)
    BY <1>1, <1>2, BeginType DEF StartBatch
  <1>3. CASE StartGet(c)
    BY <1>1, <1>3, BeginType DEF StartGet
  <1>4. CASE StartForce(c)
    BY <1>1, <1>4, BeginType DEF StartForce
  <1>5. CASE StartDelete(c)
    BY <1>1, <1>5, BeginType DEF StartDelete
  <1>6. CASE StartReact(c)
    BY <1>1, <1>6, BeginType DEF StartReact
  <1>7. CASE FetchEngagement(c)
    BY <1>1, <1>7, AskType DEF FetchEngagement
  <1> QED BY <1>2, <1>3, <1>4, <1>5, <1>6, <1>7 DEF Start

\* A step that moves one call and touches nothing else but the rows or the server.
LEMMA CallFields ==
  ASSUME TypeOK, NEW c \in Callers
  PROVE  /\ call[c].pc \in PCs /\ call[c].ids \in SUBSET Posts /\ call[c].row \in Rows
         /\ call[c].seen \in [Posts -> 0..MaxEng]
  BY DEF TypeOK, Call

LEMMA CallStepType ==
  ASSUME TypeOK, RowInv, NEW c \in Calls, CallStep(c)
  PROVE  TypeOK'
  <1>1. c \in Callers /\ call[c].ids \in SUBSET Posts /\ call[c].row \in Rows
    BY CallFields DEF Callers
  <1>2. /\ [call EXCEPT ![c].pc = "cache"] \in [Callers -> Call]
        /\ [call EXCEPT ![c].pc = "unrow"] \in [Callers -> Call]
        /\ [call EXCEPT ![c].pc = "refresh"] \in [Callers -> Call]
        /\ [call EXCEPT ![c] = Idle] \in [Callers -> Call]
    <2>1. {"cache", "unrow", "refresh"} \subseteq PCs
      BY DEF PCs
    <2> QED BY <1>1, <2>1, CallUpdates
  <1>3. ASSUME NEW r \in Rows
        PROVE  /\ [call EXCEPT ![c].pc = "store", ![c].row = r] \in [Callers -> Call]
               /\ [call EXCEPT ![c].pc = "touched", ![c].row = r] \in [Callers -> Call]
    <2>1. {"store", "touched"} \subseteq PCs
      BY DEF PCs
    <2> QED BY <1>1, <2>1, CallUpdates
  <1>4. CASE ForceAnswered(c)
    <2>1. CASE call' = [call EXCEPT ![c] = Idle]
      BY <1>2, <1>4, <2>1 DEF ForceAnswered, TypeOK, server, postVars, engVars
    <2>2. CASE call' # [call EXCEPT ![c] = Idle]
      <3>1. PICK p \in call[c].ids : call' = [call EXCEPT ![c].pc = "store", ![c].row = Served(p)]
        BY <1>4, <2>2 DEF ForceAnswered
      <3>2. Served(p) \in Rows
        BY <1>1, ServedType
      <3>3. call' \in [Callers -> Call]
        BY <1>3, <3>1, <3>2
      <3> QED BY <1>4, <3>3 DEF ForceAnswered, TypeOK, server, postVars, engVars
    <2> QED BY <2>1, <2>2
  <1>5. CASE ForceStores(c)
    <2>1. row' \in [Posts -> Rows]
      BY <1>1, <1>5 DEF ForceStores, Store, TypeOK
    <2> QED BY <1>2, <1>5, <2>1 DEF ForceStores, TypeOK, server, postVars, engVars
  <1>6. CASE DeleteAnswered(c)
    <2>1. call' \in [Callers -> Call]
      BY <1>2, <1>6 DEF DeleteAnswered
    <2>2. gone' \in SUBSET Posts
      BY <1>1, <1>6 DEF DeleteAnswered, TypeOK
    <2> QED BY <1>6, <2>1, <2>2 DEF DeleteAnswered, TypeOK, postVars, engVars
  <1>7. CASE DeleteUncaches(c)
    <2>1. row' \in [Posts -> Rows]
      BY <1>1, <1>7, RowsType DEF DeleteUncaches, Store, TypeOK
    <2> QED BY <1>2, <1>7, <2>1 DEF DeleteUncaches, TypeOK, server, postVars, engVars
  <1>8. CASE Lookup(c)
    <2>1. call' \in [Callers -> Call]
      BY <1>2, <1>8 DEF Lookup
    <2> QED BY <1>8, <2>1 DEF Lookup, TypeOK, server, postVars, engVars
  <1>9. CASE ReactAnswered(c)
    <2>1. eng' \in [Posts -> 0..MaxEng]
      BY <1>9, BoundsAssumption DEF ReactAnswered, TypeOK
    <2>2. call' \in [Callers -> Call]
      BY <1>2, <1>9 DEF ReactAnswered
    <2> QED BY <1>9, <2>1, <2>2 DEF ReactAnswered, TypeOK, postVars, engVars
  <1>10. CASE RefreshAsks(c)
    BY <1>1, <1>10, AskType DEF RefreshAsks, OpKinds
  <1>11. CASE TouchReads(c)
    <2> DEFINE spread(r) == [r EXCEPT !.stamp = call[c].row.stamp, !.eng = call[c].row.eng]
    <2>0. PICK p \in call[c].ids : \E r \in Reads(p) :
             IF r = NoRow THEN Return(c)
             ELSE call' = [call EXCEPT ![c].pc = "touched", ![c].row = spread(r)]
      BY <1>11 DEF TouchReads
    <2>1. PICK r \in Reads(p) :
             IF r = NoRow THEN Return(c)
             ELSE call' = [call EXCEPT ![c].pc = "touched", ![c].row = spread(r)]
      BY <2>0
    <2>2. call[c].row \in Row
      BY <1>1, <1>11, RowsType DEF TouchReads, RowInv
    <2>3. r \in Rows
      BY <1>1, ReadsType
    <2>4. r # NoRow => spread(r) \in Rows
      BY <2>2, <2>3, RowsType, MergedTypes DEF Rows
    <2> HIDE DEF spread
    <2>5. r # NoRow => [call EXCEPT ![c].pc = "touched", ![c].row = spread(r)] \in [Callers -> Call]
      BY <1>3, <2>4
    <2>6. call' \in [Callers -> Call]
      BY <1>2, <2>1, <2>5
    <2> QED BY <1>11, <2>6 DEF TouchReads, TypeOK, server, postVars, engVars
  <1>12. CASE TouchStores(c)
    <2>1. row' \in [Posts -> Rows]
      BY <1>1, <1>12 DEF TouchStores, Store, TypeOK
    <2> QED BY <1>2, <1>12, <2>1 DEF TouchStores, TypeOK, server, postVars, engVars
  <1>13. CASE CacheThrows(c)
    BY <1>2, <1>13 DEF CacheThrows, TypeOK, server, postVars, engVars
  <1> QED BY <1>4, <1>5, <1>6, <1>7, <1>8, <1>9, <1>10, <1>11, <1>12, <1>13 DEF CallStep

\* What ReadCache does about the posts it finds missing.
ReadMissing(c, missing) ==
    /\ UNCHANGED <<server, row, engVars>>
    /\ missing = {} => call' = [call EXCEPT ![c] = Idle] /\ UNCHANGED postVars
    /\ missing # {} =>
          /\ call' = [call EXCEPT ![c].pc = "waiting", ![c].ids = missing]
          /\ postQueue' = postQueue \cup missing /\ postTimer' = TRUE
          /\ UNCHANGED <<flight, spoiled>>
          /\ waiting' = [p \in Posts |-> IF p \in missing THEN waiting[p] \cup {c} ELSE waiting[p]]

LEMMA ReadCacheCases ==
  ASSUME NEW c \in Callers, ReadCache(c)
  PROVE  call[c].pc = "cache" /\ \E missing \in SUBSET call[c].ids : ReadMissing(c, missing)
  <1>1. PICK missing \in {call[c].ids, {p \in call[c].ids : row[p] = NoRow}} :
           IF missing = {}
           THEN Return(c) /\ UNCHANGED postVars
           ELSE /\ postQueue' = postQueue \cup missing
                /\ waiting' = [p \in Posts |-> IF p \in missing THEN waiting[p] \cup {c} ELSE waiting[p]]
                /\ ArmTimer
                /\ call' = [call EXCEPT ![c].pc = "waiting", ![c].ids = missing]
                /\ UNCHANGED <<flight, spoiled>>
    BY DEF ReadCache
  <1>2. missing \in SUBSET call[c].ids
    OBVIOUS
  <1>3. call[c].pc = "cache" /\ UNCHANGED <<server, row, engVars>>
    BY DEF ReadCache
  <1>4. ReadMissing(c, missing)
    <2> HIDE DEF Return
    <2>1. CASE missing = {}
      BY <1>1, <1>3, <2>1 DEF ReadMissing, Return
    <2>2. CASE missing # {}
      BY <1>1, <1>3, <2>2 DEF ReadMissing, ArmTimer
    <2> QED BY <2>1, <2>2
  <1> QED BY <1>2, <1>3, <1>4

LEMMA ReadCacheType ==
  ASSUME TypeOK, NEW c \in Callers, ReadCache(c)
  PROVE  TypeOK'
  <1>0. PICK missing \in SUBSET call[c].ids : ReadMissing(c, missing)
    BY ReadCacheCases
  <1>1. missing \in SUBSET Posts /\ "waiting" \in PCs
    BY CallFields DEF PCs
  <1>2. /\ [call EXCEPT ![c].pc = "waiting", ![c].ids = missing] \in [Callers -> Call]
        /\ [call EXCEPT ![c] = Idle] \in [Callers -> Call]
    BY <1>1, RowsType, CallUpdates
  <1>3. CASE missing = {}
    BY <1>0, <1>2, <1>3 DEF ReadMissing, TypeOK, server, postVars, engVars
  <1>4. CASE missing # {}
    <2>1. /\ call' = [call EXCEPT ![c].pc = "waiting", ![c].ids = missing]
          /\ postQueue' = postQueue \cup missing /\ postTimer' = TRUE
          /\ UNCHANGED <<flight, spoiled>>
          /\ waiting' = [p \in Posts |-> IF p \in missing THEN waiting[p] \cup {c} ELSE waiting[p]]
          /\ UNCHANGED <<server, row, engVars>>
      BY <1>0, <1>4 DEF ReadMissing
    <2>2. waiting' \in [Posts -> SUBSET Callers]
      BY <2>1 DEF TypeOK
    <2> QED BY <1>1, <1>2, <2>1, <2>2 DEF TypeOK, server, engVars
  <1> QED BY <1>3, <1>4

-----------------------------------------------------------------------------

LEMMA FlightUpdates ==
  ASSUME TypeOK, NEW f \in Flights, NEW pc \in {"idle", "out", "answered", "written", "failed"},
         NEW ids \in SUBSET Posts, NEW reply \in [Posts -> Rows]
  PROVE  /\ [flight EXCEPT ![f].pc = pc] \in [Flights -> Flight]
         /\ [flight EXCEPT ![f].pc = pc, ![f].reply = reply] \in [Flights -> Flight]
         /\ [flight EXCEPT ![f] = [NoFlight EXCEPT !.pc = pc, !.ids = ids]] \in [Flights -> Flight]
         /\ [flight EXCEPT ![f] = NoFlight] \in [Flights -> Flight]
  <1>1. flight[f] \in Flight /\ NoFlight \in Flight
    BY IdleTypes DEF TypeOK
  <1>2. ASSUME NEW r \in Flight PROVE [flight EXCEPT ![f] = r] \in [Flights -> Flight]
    BY DEF TypeOK
  <1>3. [flight EXCEPT ![f].pc = pc] = [flight EXCEPT ![f] = [flight[f] EXCEPT !.pc = pc]]
    BY DEF TypeOK
  <1>4. [flight EXCEPT ![f].pc = pc, ![f].reply = reply]
          = [flight EXCEPT ![f] = [flight[f] EXCEPT !.pc = pc, !.reply = reply]]
    BY DEF TypeOK
  <1>5. /\ [flight[f] EXCEPT !.pc = pc] \in Flight
        /\ [flight[f] EXCEPT !.pc = pc, !.reply = reply] \in Flight
    BY <1>1 DEF Flight
  <1>6. [NoFlight EXCEPT !.pc = pc, !.ids = ids] \in Flight
    <2> HIDE DEF NoFlight
    <2> QED BY <1>1 DEF Flight
  <1> QED BY <1>1, <1>2, <1>3, <1>4, <1>5, <1>6

LEMMA FlightStepType ==
  ASSUME TypeOK, NEW f \in Flights, FlushPosts(f) \/ FlightStep(f)
  PROVE  TypeOK'
  <1>1. flight[f].ids \in SUBSET Posts /\ flight[f].reply \in [Posts -> Rows] /\ postQueue \in SUBSET Posts
    BY DEF TypeOK, Flight
  <1> DEFINE served == [p \in Posts |-> IF p \in flight[f].ids THEN Served(p) ELSE NoRow]
  <1>2. served \in [Posts -> Rows]
    BY ServedType, RowsType
  <1>3. CASE FlushPosts(f)
    <2>1. flight' \in [Flights -> Flight]
      BY <1>1, <1>3, RowsType, FlightUpdates DEF FlushPosts
    <2> QED BY <1>3, <2>1 DEF FlushPosts, TypeOK, server, engVars
  <1>4. CASE PostsAnswered(f)
    <2>1. \/ flight' = [flight EXCEPT ![f].pc = "answered", ![f].reply = served]
          \/ flight' = [flight EXCEPT ![f].pc = "failed"]
      BY <1>4 DEF PostsAnswered
    <2> HIDE DEF served
    <2>2. /\ [flight EXCEPT ![f].pc = "answered", ![f].reply = served] \in [Flights -> Flight]
          /\ [flight EXCEPT ![f].pc = "failed"] \in [Flights -> Flight]
      BY <1>1, <1>2, FlightUpdates
    <2>3. flight' \in [Flights -> Flight]
      BY <2>1, <2>2
    <2> QED BY <1>4, <2>3 DEF PostsAnswered, TypeOK, server, engVars
  <1>5. CASE PostsCached(f)
    <2>0. /\ [flight EXCEPT ![f].pc = "written"] \in [Flights -> Flight]
          /\ [flight EXCEPT ![f].pc = "failed"] \in [Flights -> Flight]
      BY <1>1, FlightUpdates
    <2>1. flight' \in [Flights -> Flight]
      BY <1>5, <2>0 DEF PostsCached
    <2>2. row' \in [Posts -> Rows]
      BY <1>1, <1>5 DEF PostsCached, Store, TypeOK
    <2> QED BY <1>5, <2>1, <2>2 DEF PostsCached, TypeOK, server, engVars
  <1>6. CASE PostsSettled(f)
    <2> DEFINE left(c) == {p \in call[c].ids : p \notin SettleIds(f) \/ c \notin waiting[p]}
    <2>1. flight' \in [Flights -> Flight]
      BY <1>1, <1>6, FlightUpdates DEF PostsSettled
    <2>2. waiting' \in [Posts -> SUBSET Callers] /\ spoiled' \in [Posts -> SUBSET Callers]
      BY <1>6 DEF PostsSettled, TypeOK
    <2>3. call' = [c \in Callers |-> IF ~At(c, "waiting") THEN call[c]
                                     ELSE IF left(c) = {} THEN Idle ELSE [call[c] EXCEPT !.ids = left(c)]]
      BY <1>6 DEF PostsSettled
    <2>4. \A c \in Callers : call[c] \in Call /\ left(c) \in SUBSET Posts
      BY CallFields DEF TypeOK
    <2> HIDE DEF left
    <2>5. \A c \in Callers : [call[c] EXCEPT !.ids = left(c)] \in Call
      BY <2>4 DEF Call
    <2>6. call' \in [Callers -> Call]
      BY <2>3, <2>4, <2>5, IdleTypes
    <2> QED BY <1>6, <2>1, <2>2, <2>6 DEF PostsSettled, TypeOK, server, engVars
  <1>7. CASE PostsSpoiled(f)
    <2>1. flight' \in [Flights -> Flight]
      BY <1>1, <1>7, FlightUpdates DEF PostsSpoiled
    <2>2. spoiled' \in [Posts -> SUBSET Callers]
      BY <1>7 DEF PostsSpoiled, TypeOK
    <2> QED BY <1>7, <2>1, <2>2 DEF PostsSpoiled, TypeOK, server, engVars
  <1> QED BY <1>3, <1>4, <1>5, <1>6, <1>7 DEF FlightStep

-----------------------------------------------------------------------------

LEMMA EngineFields ==
  ASSUME TypeOK
  PROVE  /\ engine.pc \in EnginePCs /\ engine.ids \in SUBSET Posts /\ engine.callers \in SUBSET Calls
         /\ engine.data \in [Posts -> Rows] /\ engine.left \in SUBSET Posts
         /\ engine.post \in Posts \cup {Engine} /\ engine.merged \in Rows
         /\ engine.reload \in SUBSET Posts /\ engine.changed \in SUBSET Posts
  BY DEF TypeOK, Request

LEMMA LaunchType ==
  ASSUME TypeOK, Launch
  PROVE  /\ engQueue' \in SUBSET Posts /\ engPending' \in SUBSET Calls /\ tracked' \in BOOLEAN
         /\ engine' \in Request
  <1>1. NoRequest \in Request /\ "out" \in EnginePCs
    BY IdleTypes DEF EnginePCs
  <1>2. [NoRequest EXCEPT !.pc = "out", !.ids = engQueue, !.callers = engPending] \in Request
    <2> HIDE DEF NoRequest
    <2> QED BY <1>1 DEF TypeOK, Request
  <1> QED BY <1>1, <1>2 DEF Launch

LEMMA LandsType ==
  ASSUME TypeOK, Lands
  PROVE  /\ engQueue' \in SUBSET Posts /\ engPending' \in SUBSET Calls /\ tracked' \in BOOLEAN
         /\ engine' \in Request
  <1>1. CASE Launch
    BY <1>1, LaunchType
  <1>2. CASE engine' = NoRequest /\ UNCHANGED <<engQueue, engPending, tracked>>
    BY <1>2, IdleTypes DEF TypeOK
  <1> QED BY <1>1, <1>2 DEF Lands

LEMMA TimerFiresType ==
  ASSUME TypeOK, TimerFires
  PROVE  TypeOK'
  <1>1. armed' \in 0..MaxTimers
    BY BoundsAssumption DEF TimerFires, TypeOK
  <1>2. CASE engine.pc = "idle"
    <2>1. Launch /\ call' = [c \in Callers |-> IF engQueue = {} /\ c \in engPending THEN Idle ELSE call[c]]
      BY <1>2 DEF TimerFires
    <2>2. call' \in [Callers -> Call]
      BY <2>1, IdleTypes DEF TypeOK
    <2> QED BY <1>1, <2>1, <2>2, LaunchType DEF TimerFires, TypeOK, server, postVars
  <1>3. CASE engine.pc # "idle"
    BY <1>1, <1>3 DEF TimerFires, LeavesRunning, TypeOK, server, postVars
  <1> QED BY <1>2, <1>3

\* What MergePost makes of the request, for the row it read.
MergeRead(p, old) ==
    \/ engine' = [engine EXCEPT !.left = engine.left \ {p}, !.reload = @ \cup {p}, !.changed = @ \cup {p}]
    \/ engine' = [engine EXCEPT !.left = engine.left \ {p}]
    \/ engine' = [engine EXCEPT !.left = engine.left \ {p}, !.changed = @ \cup {p}]
    \/ /\ old \in Row
       /\ engine' = [engine EXCEPT !.left = engine.left \ {p}, !.changed = @ \cup {p}, !.pc = "put",
                       !.post = p, !.merged = [old EXCEPT !.eng = engine.data[p].eng,
                                                          !.hash = HashOf[engine.data[p].eng]]]

LEMMA MergePostCases ==
  ASSUME TypeOK, RowInv, NEW p \in Posts, MergePost(p)
  PROVE  engine.data[p] \in Row /\ \E old \in Rows : MergeRead(p, old)
  <1>1. engine.data[p] \in Rows
    BY EngineFields
  <1>2. engine.data[p] \in Row
    BY <1>1, RowsType DEF RowInv, MergePost
  <1>3. PICK old \in Reads(p) : engine' =
         IF old # NoRow /\ old.stamp # engine.data[p].stamp
         THEN [engine EXCEPT !.left = engine.left \ {p}, !.reload = @ \cup {p}, !.changed = @ \cup {p}]
         ELSE IF old # NoRow /\ old.hash = engine.data[p].hash
         THEN [engine EXCEPT !.left = engine.left \ {p}]
         ELSE IF old = NoRow
         THEN [engine EXCEPT !.left = engine.left \ {p}, !.changed = @ \cup {p}]
         ELSE [engine EXCEPT !.left = engine.left \ {p}, !.changed = @ \cup {p}, !.pc = "put", !.post = p,
                             !.merged = [old EXCEPT !.eng = engine.data[p].eng, !.hash = HashOf[engine.data[p].eng]]]
    BY DEF MergePost
  <1>4. old \in Rows
    BY ReadsType
  <1>5. old # NoRow => old \in Row
    BY <1>4, RowsType
  <1> QED BY <1>2, <1>3, <1>4, <1>5 DEF MergeRead

LEMMA EngineStepType ==
  ASSUME TypeOK, RowInv, EngineStep
  PROVE  TypeOK'
  <1>1. engine \in Request /\ {"merge", "put", "failed", "reload"} \subseteq EnginePCs
    BY DEF TypeOK, EnginePCs
  <1>2. CASE EngagementAnswered
    <2> DEFINE served == {p \in engine.ids : p \notin gone}
               data == [p \in Posts |-> IF p \in served THEN Served(p) ELSE NoRow]
    <2>1. served \in SUBSET Posts /\ data \in [Posts -> Rows]
      BY EngineFields, ServedType, RowsType
    <2>2. \/ engine' = [engine EXCEPT !.pc = "merge", !.left = served, !.data = data]
          \/ engine' = [engine EXCEPT !.pc = "failed"]
      BY <1>2 DEF EngagementAnswered
    <2> HIDE DEF served, data
    <2>3. engine' \in Request
      BY <1>1, <2>1, <2>2 DEF Request
    <2> QED BY <1>2, <2>3 DEF EngagementAnswered, TypeOK, server, postVars
  <1>3. ASSUME NEW p \in Posts, MergePost(p) PROVE TypeOK'
    <2>0. PICK old \in Rows : MergeRead(p, old)
      BY <1>3, MergePostCases
    <2> DEFINE merged == [old EXCEPT !.eng = engine.data[p].eng, !.hash = HashOf[engine.data[p].eng]]
               left == engine.left \ {p}
    <2>1. old \in Row => merged \in Rows
      BY <1>3, MergePostCases, MergedTypes DEF Rows
    <2>2. \/ engine' = [engine EXCEPT !.left = left, !.reload = @ \cup {p}, !.changed = @ \cup {p}]
          \/ engine' = [engine EXCEPT !.left = left]
          \/ engine' = [engine EXCEPT !.left = left, !.changed = @ \cup {p}]
          \/ /\ old \in Row
             /\ engine' = [engine EXCEPT !.left = left, !.changed = @ \cup {p}, !.pc = "put",
                                         !.post = p, !.merged = merged]
      BY <2>0 DEF MergeRead
    <2>3. left \in SUBSET Posts
      BY EngineFields
    <2> HIDE DEF merged, left
    <2>4. engine' \in Request
      <3> DEFINE changed == engine.changed \cup {p}
                 reload == engine.reload \cup {p}
      <3>1. changed \in SUBSET Posts /\ reload \in SUBSET Posts
        BY EngineFields
      <3>2. \/ engine' = [engine EXCEPT !.left = left, !.reload = reload, !.changed = changed]
            \/ engine' = [engine EXCEPT !.left = left]
            \/ engine' = [engine EXCEPT !.left = left, !.changed = changed]
            \/ /\ old \in Row
               /\ engine' = [engine EXCEPT !.left = left, !.changed = changed, !.pc = "put",
                                           !.post = p, !.merged = merged]
        BY <2>2 DEF TypeOK, Request
      <3> HIDE DEF changed, reload
      <3>3. /\ [engine EXCEPT !.left = left, !.reload = reload, !.changed = changed] \in Request
            /\ [engine EXCEPT !.left = left] \in Request
            /\ [engine EXCEPT !.left = left, !.changed = changed] \in Request
        BY <1>1, <2>3, <3>1 DEF Request
      <3>4. old \in Row => [engine EXCEPT !.left = left, !.changed = changed, !.pc = "put",
                                             !.post = p, !.merged = merged] \in Request
        BY <1>1, <2>1, <2>3, <3>1 DEF Request
      <3> QED BY <3>2, <3>3, <3>4
    <2> QED BY <1>3, <2>4 DEF MergePost, TypeOK, server, postVars
  <1>4. CASE MergeStores
    <2>1. engine' \in Request
      BY <1>1, <1>4, RowsType DEF MergeStores, Request
    <2>2. row' \in [Posts -> Rows]
      BY <1>4, EngineFields DEF MergeStores, Store, TypeOK
    <2> QED BY <1>4, <2>1, <2>2 DEF MergeStores, TypeOK, server, postVars
  <1>5. CASE ReloadPosts
    <2> DEFINE o == [Idle EXCEPT !.pc = "cache", !.kind = "reload", !.ids = engine.reload]
    <2>1. o \in Call
      <3>1. Idle \in Call /\ "cache" \in PCs /\ engine.reload \in SUBSET Posts
        BY IdleTypes, EngineFields DEF PCs
      <3> HIDE DEF Idle
      <3> QED BY <3>1 DEF Call
    <2>2. call' = [call EXCEPT ![Engine] = o] /\ engine' = [engine EXCEPT !.pc = "reload"]
      BY <1>5 DEF ReloadPosts
    <2> HIDE DEF o
    <2>3. call' \in [Callers -> Call]
      BY <2>1, <2>2, CallBecomes DEF Callers
    <2>4. engine' \in Request
      BY <1>1, <2>2 DEF Request
    <2> QED BY <1>5, <2>3, <2>4 DEF ReloadPosts, TypeOK, server, postVars
  <1>6. CASE EngagementLands
    <2>1. \A c \in Callers : call'[c] \in Call /\ DOMAIN call' = Callers
      <3>1. ASSUME NEW c \in Callers PROVE call'[c] \in Call
        <4> DEFINE d == engine.data[CHOOSE p \in call[c].ids : TRUE]
        <4>1. CASE c \in engine.callers /\ call[c].kind = "react" /\ call[c].ids \subseteq engine.changed
          <5>1. call[c] \in Call /\ call[c].ids # {} /\ call[c].ids \in SUBSET Posts
            BY <4>1, CallFields DEF RowInv, AboutPost, TypeOK
          <5>2. d \in Rows
            BY <5>1, EngineFields
          <5>3. \/ call'[c] = [[call[c] EXCEPT !.pc = "touch"] EXCEPT !.row = d]
                \/ call'[c] = [[call[c] EXCEPT !.pc = "touch"] EXCEPT !.row = NoRow]
            BY <1>6, <4>1 DEF EngagementLands
          <5> HIDE DEF d
          <5> QED BY <5>1, <5>2, <5>3, RowsType DEF Call, PCs
        <4>2. CASE c \in engine.callers /\ ~(call[c].kind = "react" /\ call[c].ids \subseteq engine.changed)
          <5>1. call'[c] = [Idle EXCEPT !.row = NoRow]
            BY <1>6, <4>2 DEF EngagementLands
          <5>2. Idle \in Call
            BY IdleTypes
          <5> HIDE DEF Idle
          <5> QED BY <5>1, <5>2, RowsType DEF Call
        <4>3. CASE c \notin engine.callers
          BY <1>6, <4>3 DEF EngagementLands, TypeOK
        <4> QED BY <4>1, <4>2, <4>3
      <3> QED BY <1>6, <3>1 DEF EngagementLands
    <2>2. call' \in [Callers -> Call]
      <3>1. call' = [c \in Callers |-> call'[c]]
        BY <1>6 DEF EngagementLands
      <3> QED BY <2>1, <3>1
    <2> QED BY <1>6, <2>2, LandsType DEF EngagementLands, TypeOK, server, postVars
  <1>7. CASE EngagementRejects
    <2>1. call' \in [Callers -> Call]
      BY <1>7, IdleTypes DEF EngagementRejects, TypeOK
    <2> QED BY <1>7, <2>1, LandsType DEF EngagementRejects, TypeOK, server, postVars
  <1>8. CASE EngineThrows
    <2>1. engine' \in Request
      BY <1>1, <1>8 DEF EngineThrows, Request
    <2>2. call' \in [Callers -> Call]
      BY <1>8, IdleTypes DEF EngineThrows, TypeOK
    <2> QED BY <1>8, <2>1, <2>2 DEF EngineThrows, TypeOK, server, postVars
  <1> QED BY <1>2, <1>3, <1>4, <1>5, <1>6, <1>7, <1>8 DEF EngineStep

-----------------------------------------------------------------------------
\* The steps that ask for no engagement and answer none.

Quiet ==
    \/ \E c \in Calls : \/ StartBatch(c) \/ StartGet(c) \/ StartForce(c) \/ StartDelete(c) \/ StartReact(c)
                      \/ ForceAnswered(c) \/ ForceStores(c) \/ DeleteAnswered(c) \/ DeleteUncaches(c)
                      \/ Lookup(c) \/ ReactAnswered(c) \/ TouchReads(c) \/ TouchStores(c) \/ CacheThrows(c)
    \/ \E c \in Callers : ReadCache(c)
    \/ \E f \in Flights : FlushPosts(f) \/ FlightStep(f)
    \/ \E p \in Posts : Edit(p) \/ Expires(p)

\* Such a step leaves a call alone, or moves one that waits for no engagement
\* to where it waits for none either.
Harmless(c) ==
    \/ call'[c] = call[c]
    \/ /\ call[c].pc # "engagement"
       /\ call'[c].pc \notin {"engagement", "touch"}
       /\ AboutPost(call'[c])

LEMMA IdleHarmless ==
  ASSUME NEW c \in Callers, call[c].pc # "engagement", call'[c] = Idle
  PROVE  Harmless(c)
  BY DEF Harmless, AboutPost, Idle

LEMMA MoveHarmless ==
  ASSUME TypeOK, RowInv, NEW c \in Callers, call[c].pc # "engagement",
         NEW pc, pc \notin {"engagement", "touch", "reacting", "refresh"}, NEW ids, NEW r,
         \/ call'[c] = [call[c] EXCEPT !.pc = pc]
         \/ call'[c] = [call[c] EXCEPT !.pc = pc, !.ids = ids] /\ ids # {}
         \/ call'[c] = [call[c] EXCEPT !.pc = pc, !.row = r]
         \/ call'[c] = [call[c] EXCEPT !.ids = ids] /\ ids # {} /\ call[c].pc = "waiting"
  PROVE  Harmless(c)
  <1>1. call[c] \in Call /\ AboutPost(call[c])
    BY DEF TypeOK, RowInv
  <1>2. CASE call'[c] = [call[c] EXCEPT !.pc = pc]
    BY <1>1, <1>2 DEF Harmless, AboutPost, Call
  <1>3. CASE call'[c] = [call[c] EXCEPT !.pc = pc, !.ids = ids] /\ ids # {}
    BY <1>1, <1>3 DEF Harmless, AboutPost, Call
  <1>4. CASE call'[c] = [call[c] EXCEPT !.pc = pc, !.row = r]
    BY <1>1, <1>4 DEF Harmless, AboutPost, Call
  <1>5. CASE call'[c] = [call[c] EXCEPT !.ids = ids] /\ ids # {} /\ call[c].pc = "waiting"
    BY <1>1, <1>5 DEF Harmless, AboutPost, Call
  <1> QED BY <1>2, <1>3, <1>4, <1>5

\* One call moves, harmlessly.
LEMMA OneMoves ==
  ASSUME TypeOK, NEW c \in Callers, NEW o, call' = [call EXCEPT ![c] = o],
         Harmless(c)
  PROVE  \A d \in Callers : Harmless(d)
  BY DEF TypeOK, Harmless

LEMMA OneMovesOn ==
  ASSUME TypeOK, RowInv, NEW c \in Callers, call[c].pc # "engagement",
         NEW pc, pc \notin {"engagement", "touch", "reacting", "refresh"}, NEW ids, NEW r,
         \/ call' = [call EXCEPT ![c].pc = pc]
         \/ call' = [call EXCEPT ![c].pc = pc, ![c].ids = ids] /\ ids # {}
         \/ call' = [call EXCEPT ![c].pc = pc, ![c].row = r]
  PROVE  \A d \in Callers : Harmless(d)
  <1>1. \/ call' = [call EXCEPT ![c] = [call[c] EXCEPT !.pc = pc]]
        \/ call' = [call EXCEPT ![c] = [call[c] EXCEPT !.pc = pc, !.ids = ids]] /\ ids # {}
        \/ call' = [call EXCEPT ![c] = [call[c] EXCEPT !.pc = pc, !.row = r]]
    BY DEF TypeOK
  <1>2. \/ call'[c] = [call[c] EXCEPT !.pc = pc]
        \/ call'[c] = [call[c] EXCEPT !.pc = pc, !.ids = ids] /\ ids # {}
        \/ call'[c] = [call[c] EXCEPT !.pc = pc, !.row = r]
    BY <1>1 DEF TypeOK
  <1>3. Harmless(c)
    BY <1>2, MoveHarmless
  <1> QED BY <1>1, <1>3, OneMoves

LEMMA OneReturns ==
  ASSUME TypeOK, NEW c \in Callers, call[c].pc # "engagement", call' = [call EXCEPT ![c] = Idle]
  PROVE  \A d \in Callers : Harmless(d)
  <1>1. call'[c] = Idle
    BY DEF TypeOK
  <1> QED BY <1>1, IdleHarmless, OneMoves

LEMMA BeginHarmless ==
  ASSUME TypeOK, NEW c \in Calls, NEW k, NEW pc \in PCs \ {"engagement", "touch"},
         NEW ids \in (SUBSET Posts) \ {{}}, Begin(c, k, pc, ids), NEW d \in Callers
  PROVE  Harmless(d) /\ UNCHANGED <<engVars, eng>>
  <1>1. call' = [call EXCEPT ![c] = [Idle EXCEPT !.pc = pc, !.kind = k, !.ids = ids]]
        /\ call[c].pc = "idle" /\ c \in Callers
    BY DEF Begin, Callers
  <1>2. d # c => call'[d] = call[d]
    BY <1>1 DEF TypeOK
  <1>3. call'[c] = [Idle EXCEPT !.pc = pc, !.kind = k, !.ids = ids]
    BY <1>1 DEF TypeOK
  <1>4. call'[c].pc = pc /\ call'[c].ids = ids
    BY <1>3 DEF Idle
  <1>5. Harmless(d)
    <2>1. CASE d = c
      <3>1. call[d].pc = "idle" /\ call'[d].pc = pc /\ call'[d].ids = ids /\ ids # {}
        BY <1>1, <1>4, <2>1
      <3>2. pc \notin {"engagement", "touch"}
        OBVIOUS
      <3> QED BY <3>1, <3>2 DEF Harmless, AboutPost
    <2>2. CASE d # c
      BY <1>2, <2>2 DEF Harmless
    <2> QED BY <2>1, <2>2
  <1>6. UNCHANGED engVars /\ UNCHANGED server
    BY DEF Begin
  <1> QED BY <1>5, <1>6 DEF server

LEMMA QuietStep ==
  ASSUME TypeOK, RowInv, Quiet
  PROVE  /\ \A d \in Callers : Harmless(d)
         /\ UNCHANGED engVars
         /\ \A p \in Posts : eng[p] <= eng'[p]
  <1> DEFINE Goal == /\ \A d \in Callers : Harmless(d)
                     /\ UNCHANGED engVars
                     /\ \A p \in Posts : eng[p] <= eng'[p]
  <1>1. \A p \in Posts : eng[p] \in 0..MaxEng /\ eng[p] <= eng[p]
    BY BoundsAssumption DEF TypeOK
  <1>2. ASSUME UNCHANGED call PROVE \A d \in Callers : Harmless(d)
    BY <1>2 DEF Harmless
  <1>3. ASSUME NEW c \in Calls,
               StartBatch(c) \/ StartGet(c) \/ StartForce(c) \/ StartDelete(c) \/ StartReact(c)
        PROVE  Goal
    <2>1. {"cache", "lookup", "direct", "delete", "reacting"} \subseteq PCs \ {"engagement", "touch"}
      BY DEF PCs
    <2>2. \A p \in Posts : {p} \in (SUBSET Posts) \ {{}}
      OBVIOUS
    <2>3. PICK pc \in PCs \ {"engagement", "touch"}, k \in {"batch", "get", "force", "delete", "react"},
               ids \in (SUBSET Posts) \ {{}} : Begin(c, k, pc, ids)
      BY <1>3, <2>1, <2>2 DEF StartBatch, StartGet, StartForce, StartDelete, StartReact
    <2>4. \A d \in Callers : Harmless(d) /\ UNCHANGED <<engVars, eng>>
      BY <2>3, BeginHarmless
    <2>5. UNCHANGED engVars /\ UNCHANGED eng
      BY <2>3 DEF Begin, server
    <2> QED BY <1>1, <2>4, <2>5
  <1>4. ASSUME NEW c \in Calls,
               \/ ForceAnswered(c) \/ ForceStores(c) \/ DeleteAnswered(c) \/ DeleteUncaches(c)
               \/ Lookup(c) \/ TouchReads(c) \/ TouchStores(c) \/ CacheThrows(c)
        PROVE  Goal
    <2>1. c \in Callers /\ call[c].pc # "engagement" /\ UNCHANGED engVars /\ UNCHANGED eng
      BY <1>4 DEF Callers, ForceAnswered, ForceStores, DeleteAnswered, DeleteUncaches, Lookup,
                  TouchReads, TouchStores, CacheThrows, server
    <2>2. CASE call' = [call EXCEPT ![c] = Idle]
      BY <1>1, <2>1, <2>2, OneReturns
    <2>3. CASE call' # [call EXCEPT ![c] = Idle]
      <3>1. \/ call' = [call EXCEPT ![c].pc = "unrow"]
            \/ call' = [call EXCEPT ![c].pc = "cache"]
            \/ \E r : call' = [call EXCEPT ![c].pc = "store", ![c].row = r]
            \/ \E r : call' = [call EXCEPT ![c].pc = "touched", ![c].row = r]
        BY <1>4, <2>3 DEF ForceAnswered, ForceStores, DeleteAnswered, DeleteUncaches, Lookup,
                          TouchReads, TouchStores, CacheThrows
      <3>2. \A d \in Callers : Harmless(d)
        BY <2>1, <3>1, OneMovesOn
      <3> QED BY <1>1, <2>1, <3>2
    <2> QED BY <2>2, <2>3
  <1>5. ASSUME NEW c \in Calls, ReactAnswered(c)
        PROVE  Goal
    <2>1. /\ c \in Callers /\ call[c].pc = "reacting" /\ UNCHANGED engVars
          /\ call' = [call EXCEPT ![c].pc = "refresh"] \/ call' = [call EXCEPT ![c] = Idle]
      BY <1>5 DEF Callers, ReactAnswered
    <2>2. \A p \in Posts : eng[p] <= eng'[p]
      BY <1>1, <1>5, BoundsAssumption DEF ReactAnswered, TypeOK
    <2>3. CASE call' = [call EXCEPT ![c] = Idle]
      BY <2>1, <2>2, <2>3, OneReturns
    <2>4. CASE call' = [call EXCEPT ![c].pc = "refresh"]
      <3>1. call' = [call EXCEPT ![c] = [call[c] EXCEPT !.pc = "refresh"]]
            /\ call'[c] = [call[c] EXCEPT !.pc = "refresh"] /\ call[c] \in Call /\ AboutPost(call[c])
        BY <2>1, <2>4 DEF TypeOK, RowInv
      <3>2. call'[c].pc = "refresh" /\ call'[c].ids # {}
        BY <2>1, <3>1 DEF Call, AboutPost
      <3>3. Harmless(c)
        BY <2>1, <3>2 DEF Harmless, AboutPost
      <3> QED BY <2>1, <2>2, <3>1, <3>3, OneMoves
    <2> QED BY <2>1, <2>3, <2>4
  <1>6. ASSUME NEW c \in Callers, ReadCache(c)
        PROVE  Goal
    <2>0. PICK missing \in SUBSET call[c].ids : ReadMissing(c, missing)
      BY <1>6, ReadCacheCases
    <2>1. /\ call[c].pc # "engagement" /\ UNCHANGED engVars /\ UNCHANGED eng
          /\ \/ call' = [call EXCEPT ![c] = Idle]
             \/ call' = [call EXCEPT ![c].pc = "waiting", ![c].ids = missing] /\ missing # {}
      BY <1>6, <2>0, ReadCacheCases DEF ReadMissing, server
    <2>2. \A d \in Callers : Harmless(d)
      BY <2>1, OneReturns, OneMovesOn
    <2> QED BY <1>1, <2>1, <2>2
  <1>7. ASSUME NEW f \in Flights,
               FlushPosts(f) \/ PostsAnswered(f) \/ PostsSpoiled(f) \/ PostsCached(f)
        PROVE  Goal
    BY <1>1, <1>2, <1>7 DEF FlushPosts, PostsAnswered, PostsSpoiled, PostsCached, server
  <1>8. ASSUME NEW f \in Flights, PostsSettled(f)
        PROVE  Goal
    <2> DEFINE left(c) == {p \in call[c].ids : p \notin SettleIds(f) \/ c \notin waiting[p]}
    <2>0. call' = [c \in Callers |-> IF ~At(c, "waiting") THEN call[c]
                                     ELSE IF left(c) = {} THEN Idle ELSE [call[c] EXCEPT !.ids = left(c)]]
      BY <1>8 DEF PostsSettled
    <2> HIDE DEF left
    <2>1. ASSUME NEW c \in Callers
          PROVE  \/ call'[c] = call[c]
                 \/ call[c].pc = "waiting" /\ call'[c] = Idle
                 \/ call[c].pc = "waiting" /\ left(c) # {} /\ call'[c] = [call[c] EXCEPT !.ids = left(c)]
      <3>1. call'[c] = IF ~At(c, "waiting") THEN call[c]
                       ELSE IF left(c) = {} THEN Idle ELSE [call[c] EXCEPT !.ids = left(c)]
        BY <2>0
      <3> QED BY <3>1
    <2>2. ASSUME NEW c \in Callers PROVE Harmless(c)
      <3>1. CASE call'[c] = call[c]
        BY <3>1 DEF Harmless
      <3>2. CASE call[c].pc = "waiting" /\ call'[c] = Idle
        BY <3>2, IdleHarmless
      <3>3. CASE call[c].pc = "waiting" /\ left(c) # {} /\ call'[c] = [call[c] EXCEPT !.ids = left(c)]
        BY <3>3, MoveHarmless
      <3> QED BY <2>1, <3>1, <3>2, <3>3
    <2> QED BY <1>1, <1>8, <2>2 DEF PostsSettled, server
  <1>9. ASSUME NEW p \in Posts, Edit(p) \/ Expires(p)
        PROVE  Goal
    BY <1>1, <1>2, <1>9 DEF Edit, Expires, server
  <1> QED BY <1>3, <1>4, <1>5, <1>6, <1>7, <1>8, <1>9 DEF Quiet, FlightStep

-----------------------------------------------------------------------------
\* The invariant of the types, step by step.

\* Every step is quiet, asks for engagement, fires a timer or moves the request.
LEMMA NextSplits ==
  ASSUME Next
  PROVE  \/ Quiet
         \/ \E c \in Calls : FetchEngagement(c) \/ RefreshAsks(c)
         \/ TimerFires
         \/ EngineStep
  BY DEF Next, Start, CallStep, Quiet

LEMMA AskCall ==
  ASSUME TypeOK, NEW c \in Calls, NEW k, NEW ids, Ask(c, k, ids)
  PROVE  /\ call'[c] = [Idle EXCEPT !.pc = "engagement", !.kind = k, !.ids = ids, !.seen = eng]
         /\ \A d \in Callers : d # c => call'[d] = call[d]
  BY DEF TypeOK, Ask, Callers

\* Who asks, with what: fetchEngagement from idle, a refresh about its post.
LEMMA Asks ==
  ASSUME TypeOK, RowInv, NEW c \in Calls, FetchEngagement(c) \/ RefreshAsks(c)
  PROVE  \E k \in {"engage", "react"}, ids \in SUBSET Posts :
            /\ Ask(c, k, ids)
            /\ k = "react" => ids # {}
            /\ ids = {} => EmptyLists
            /\ ~At(c, "engagement")
  <1>1. CASE FetchEngagement(c)
    BY <1>1 DEF FetchEngagement
  <1>2. CASE RefreshAsks(c)
    <2>1. call[c].ids \in SUBSET Posts /\ call[c].ids # {}
      BY <1>2, CallFields DEF RefreshAsks, RowInv, AboutPost, Callers
    <2> QED BY <1>2, <2>1 DEF RefreshAsks
  <1> QED BY <1>1, <1>2

LEMMA QuietType ==
  ASSUME TypeOK, RowInv, Quiet
  PROVE  TypeOK'
  <1>1. ASSUME NEW c \in Calls, StartBatch(c) \/ StartGet(c) \/ StartForce(c) \/ StartDelete(c) \/ StartReact(c)
        PROVE  TypeOK'
    BY <1>1, StartType DEF Start
  <1>2. ASSUME NEW c \in Calls,
               \/ ForceAnswered(c) \/ ForceStores(c) \/ DeleteAnswered(c) \/ DeleteUncaches(c)
               \/ Lookup(c) \/ ReactAnswered(c) \/ TouchReads(c) \/ TouchStores(c) \/ CacheThrows(c)
        PROVE  TypeOK'
    BY <1>2, CallStepType DEF CallStep
  <1>3. ASSUME NEW p \in Posts, Edit(p) PROVE TypeOK'
    <2>1. rev' \in [Posts -> 1..MaxRev]
      BY <1>3, BoundsAssumption DEF Edit, TypeOK
    <2> QED BY <1>3, <2>1 DEF Edit, TypeOK, postVars, engVars
  <1>4. ASSUME NEW p \in Posts, Expires(p) PROVE TypeOK'
    <2>1. row' \in [Posts -> Rows]
      BY <1>4, RowsType DEF Expires, TypeOK
    <2> QED BY <1>4, <2>1 DEF Expires, TypeOK, server, postVars, engVars
  <1> QED BY <1>1, <1>2, <1>3, <1>4, ReadCacheType, FlightStepType DEF Quiet

LEMMA QuietRow ==
  ASSUME TypeOK, RowInv, Quiet
  PROVE  RowInv'
  <1>1. (\A d \in Callers : Harmless(d)) /\ engine' = engine
    BY QuietStep DEF engVars
  <1> QED BY <1>1 DEF RowInv, Harmless, AboutPost

LEMMA AskRow ==
  ASSUME TypeOK, RowInv, NEW c \in Calls, NEW k, NEW ids, Ask(c, k, ids), k = "react" => ids # {}
  PROVE  RowInv'
  <1>0. call'[c] = [Idle EXCEPT !.pc = "engagement", !.kind = k, !.ids = ids, !.seen = eng]
    BY DEF TypeOK, Ask, Callers
  <1>1. call'[c].pc = "engagement" /\ call'[c].kind = k /\ call'[c].ids = ids
    BY <1>0 DEF Idle
  <1>2. \A d \in Callers : d # c => call'[d] = call[d]
    BY AskCall
  <1>3. engine' = engine
    BY DEF Ask
  <1> QED BY <1>1, <1>2, <1>3 DEF RowInv, AboutPost

\* A request that starts, or ends, has merged nothing.
LEMMA LandsRow ==
  ASSUME Launch \/ Lands
  PROVE  engine'.left = {} /\ engine'.changed = {} /\ engine'.pc \in {"idle", "out"}
  <1>1. \/ engine' = NoRequest
        \/ engine' = [NoRequest EXCEPT !.pc = "out", !.ids = engQueue, !.callers = engPending]
    BY DEF Launch, Lands
  <1>2. CASE engine' = NoRequest
    BY <1>2 DEF NoRequest
  <1>3. CASE engine' = [NoRequest EXCEPT !.pc = "out", !.ids = engQueue, !.callers = engPending]
    BY <1>3 DEF NoRequest
  <1> QED BY <1>1, <1>2, <1>3

LEMMA TimerRow ==
  ASSUME TypeOK, RowInv, TimerFires
  PROVE  RowInv'
  <1>1. CASE engine.pc = "idle"
    <2>1. Launch /\ \A c \in Callers : call'[c] = call[c] \/ call'[c] = Idle
      BY <1>1 DEF TimerFires
    <2>2. AboutPost(Idle) /\ Idle.pc = "idle"
      BY DEF AboutPost, Idle
    <2> QED BY <2>1, <2>2, LandsRow DEF RowInv, AboutPost
  <1>2. CASE engine.pc # "idle"
    BY <1>2 DEF TimerFires, LeavesRunning, RowInv, AboutPost
  <1> QED BY <1>1, <1>2

LEMMA EngineRow ==
  ASSUME TypeOK, RowInv, EngineStep
  PROVE  RowInv'
  <1>1. engine \in Request
    BY DEF TypeOK
  <1>2. AboutPost(Idle) /\ Idle.pc = "idle"
    BY DEF AboutPost, Idle
  <1>3. CASE EngagementAnswered
    <2> DEFINE served == {p \in engine.ids : p \notin gone}
               data == [p \in Posts |-> IF p \in served THEN Served(p) ELSE NoRow]
    <2>0. served \subseteq Posts /\ \A p \in served : p \in Posts /\ data[p] = Served(p)
      BY EngineFields
    <2>1. \A p \in served : data[p] # NoRow
      <3>1. \A p \in served : Served(p).body = rev[p] /\ rev[p] \in 1..MaxRev
        BY <2>0 DEF Served, TypeOK
      <3>2. \A p \in served : Served(p) # NoRow
        BY <3>1 DEF NoRow
      <3> QED BY <2>0, <3>2
    <2>2. \/ engine' = [engine EXCEPT !.pc = "merge", !.left = served, !.data = data]
          \/ engine' = [engine EXCEPT !.pc = "failed"]
      BY <1>3 DEF EngagementAnswered
    <2>3. call' = call /\ engine.pc = "out"
      BY <1>3 DEF EngagementAnswered
    <2> HIDE DEF served, data
    <2>4. CASE engine' = [engine EXCEPT !.pc = "failed"]
      BY <1>1, <2>3, <2>4 DEF RowInv, AboutPost, Request
    <2>5. CASE engine' = [engine EXCEPT !.pc = "merge", !.left = served, !.data = data]
      <3>1. engine'.left = served /\ engine'.data = data /\ engine'.changed = {} /\ engine'.pc = "merge"
        BY <1>1, <2>3, <2>5 DEF RowInv, Request
      <3> QED BY <2>1, <2>3, <3>1 DEF RowInv, AboutPost
    <2> QED BY <2>2, <2>4, <2>5
  <1>4. ASSUME NEW p \in Posts, MergePost(p) PROVE RowInv'
    <2>1. /\ engine'.data = engine.data /\ engine'.left \subseteq engine.left
          /\ engine'.changed \subseteq engine.changed \cup {p}
          /\ engine'.pc = "put" => engine'.post = p
          /\ engine'.pc \in {"merge", "put"}
      <3>1. engine.pc = "merge"
        BY <1>4 DEF MergePost
      <3>0. PICK old \in Rows : MergeRead(p, old)
        BY <1>4, MergePostCases
      <3> DEFINE merged == [old EXCEPT !.eng = engine.data[p].eng, !.hash = HashOf[engine.data[p].eng]]
                 left == engine.left \ {p}
                 changed == engine.changed \cup {p}
                 reload == engine.reload \cup {p}
      <3>2. \/ engine' = [engine EXCEPT !.left = left, !.reload = reload, !.changed = changed]
            \/ engine' = [engine EXCEPT !.left = left]
            \/ engine' = [engine EXCEPT !.left = left, !.changed = changed]
            \/ engine' = [engine EXCEPT !.left = left, !.changed = changed, !.pc = "put",
                                        !.post = p, !.merged = merged]
        BY <3>0 DEF MergeRead, TypeOK, Request
      <3>3. left \subseteq engine.left /\ engine.changed \subseteq changed
        OBVIOUS
      <3>4. changed = engine.changed \cup {p}
        OBVIOUS
      <3> HIDE DEF merged, left, changed, reload
      <3> QED BY <1>1, <3>1, <3>2, <3>3, <3>4 DEF Request
    <2>2. engine.data[p] # NoRow /\ call' = call
      BY <1>4 DEF RowInv, MergePost
    <2> QED BY <2>1, <2>2 DEF RowInv, AboutPost
  <1>5. CASE MergeStores
    <2>1. /\ engine'.data = engine.data /\ engine'.left = engine.left
          /\ engine'.changed = engine.changed /\ engine'.pc = "merge" /\ call' = call
      BY <1>1, <1>5 DEF MergeStores, Request
    <2> QED BY <2>1 DEF RowInv, AboutPost
  <1>6. CASE ReloadPosts
    <2>1. /\ engine'.data = engine.data /\ engine'.left = engine.left
          /\ engine'.changed = engine.changed /\ engine'.pc = "reload" /\ engine.reload # {}
      BY <1>1, <1>6 DEF ReloadPosts, Request
    <2>2. /\ call'[Engine] = [Idle EXCEPT !.pc = "cache", !.kind = "reload", !.ids = engine.reload]
          /\ \A c \in Callers : c # Engine => call'[c] = call[c]
      BY <1>6 DEF ReloadPosts, TypeOK, Callers
    <2>3. call'[Engine].pc = "cache" /\ call'[Engine].ids # {}
      <3>1. call'[Engine] = [Idle EXCEPT !.pc = "cache", !.kind = "reload", !.ids = engine.reload]
        BY <2>2
      <3> QED BY <2>1, <3>1 DEF Idle
    <2> QED BY <2>1, <2>2, <2>3 DEF RowInv, AboutPost
  <1>7. CASE EngagementLands
    <2>1. ASSUME NEW c \in Callers
          PROVE  AboutPost(call'[c]) /\ (call'[c].pc = "touch" => call'[c].row # NoRow)
      <3>0. call[c] \in Call /\ AboutPost(call[c])
        BY DEF TypeOK, RowInv
      <3>1. CASE c \in engine.callers /\ call[c].kind = "react" /\ call[c].ids \subseteq engine.changed
        <4> DEFINE d == engine.data[CHOOSE p \in call[c].ids : TRUE]
        <4>1. \/ call'[c] = [[call[c] EXCEPT !.pc = "touch"] EXCEPT !.row = d]
              \/ /\ [call[c] EXCEPT !.pc = "touch"] = Idle
                 /\ call'[c] = [[call[c] EXCEPT !.pc = "touch"] EXCEPT !.row = NoRow]
          BY <1>7, <3>1 DEF EngagementLands
        <4>2. [call[c] EXCEPT !.pc = "touch"] # Idle
          BY <3>0 DEF Call, Idle
        <4>3. call[c].ids # {} /\ d # NoRow
          BY <3>0, <3>1 DEF AboutPost, RowInv
        <4> HIDE DEF d
        <4>4. call'[c] = [[call[c] EXCEPT !.pc = "touch"] EXCEPT !.row = d]
          BY <4>1, <4>2
        <4>5. call'[c].row = d /\ call'[c].ids = call[c].ids
          BY <3>0, <4>4 DEF Call
        <4> QED BY <4>3, <4>5 DEF AboutPost
      <3>2. CASE c \in engine.callers /\ ~(call[c].kind = "react" /\ call[c].ids \subseteq engine.changed)
        <4>1. call'[c] = [Idle EXCEPT !.row = NoRow]
          BY <1>7, <3>2 DEF EngagementLands
        <4>2. call'[c].pc = "idle" /\ call'[c].kind = "none"
          BY <4>1 DEF Idle
        <4> QED BY <4>2 DEF AboutPost
      <3>3. CASE c \notin engine.callers
        BY <1>7, <3>3 DEF EngagementLands, RowInv
      <3> QED BY <3>1, <3>2, <3>3
    <2>2. Lands
      BY <1>7 DEF EngagementLands
    <2> QED BY <2>1, <2>2, LandsRow DEF RowInv
  <1>8. CASE EngagementRejects
    <2>1. \A c \in Callers : call'[c] = call[c] \/ call'[c] = Idle
      BY <1>8 DEF EngagementRejects
    <2>2. Lands
      BY <1>8 DEF EngagementRejects
    <2> QED BY <1>2, <2>1, <2>2, LandsRow DEF RowInv, AboutPost
  <1>9. CASE EngineThrows
    <2>1. /\ engine'.data = engine.data /\ engine'.left = engine.left
          /\ engine'.changed = engine.changed /\ engine'.pc = "failed"
      BY <1>1, <1>9 DEF EngineThrows, Request
    <2>2. \A c \in Callers : call'[c] = call[c] \/ call'[c] = Idle
      BY <1>9 DEF EngineThrows, TypeOK
    <2> QED BY <1>2, <2>1, <2>2 DEF RowInv, AboutPost
  <1> QED BY <1>3, <1>4, <1>5, <1>6, <1>7, <1>8, <1>9 DEF EngineStep

LEMMA TypesInit ==
  ASSUME Init
  PROVE  TypeOK /\ RowInv
  <1>1. TypeOK
    <2>1. 0 \in 0..MaxEng /\ 1 \in 1..MaxRev /\ 0 \in 0..MaxTimers
      BY BoundsAssumption
    <2>2. /\ Idle \in Call /\ NoFlight \in Flight /\ NoRequest \in Request
          /\ NoRows \in [Posts -> Rows]
      BY IdleTypes, RowsType
    <2>3. row \in [Posts -> Rows] /\ engine \in Request
      BY <2>2 DEF Init
    <2>4. flight \in [Flights -> Flight] /\ call \in [Callers -> Call]
      BY <2>2 DEF Init
    <2> QED BY <2>1, <2>3, <2>4 DEF Init, TypeOK
  <1>2. \A c \in Callers : call[c] = Idle
    BY DEF Init
  <1>3. AboutPost(Idle) /\ Idle.pc = "idle"
    BY DEF AboutPost, Idle
  <1>4. engine = NoRequest
    BY DEF Init
  <1>5. engine.left = {} /\ engine.changed = {} /\ engine.pc = "idle"
    BY <1>4 DEF NoRequest
  <1> QED BY <1>1, <1>2, <1>3, <1>5 DEF RowInv

LEMMA TypesNext ==
  ASSUME TypeOK, RowInv, [Next]_vars
  PROVE  TypeOK' /\ RowInv'
  <1>1. CASE Quiet
    BY <1>1, QuietType, QuietRow
  <1>2. ASSUME NEW c \in Calls, FetchEngagement(c) \/ RefreshAsks(c)
        PROVE  TypeOK' /\ RowInv'
    <2>1. PICK k \in {"engage", "react"}, ids \in SUBSET Posts :
                 Ask(c, k, ids) /\ (k = "react" => ids # {})
      BY <1>2, Asks
    <2> QED BY <2>1, AskType, AskRow DEF OpKinds
  <1>3. CASE TimerFires
    BY <1>3, TimerFiresType, TimerRow
  <1>4. CASE EngineStep
    BY <1>4, EngineStepType, EngineRow
  <1>5. CASE UNCHANGED vars
    BY <1>5 DEF vars, server, postVars, engVars, TypeOK, RowInv, AboutPost
  <1> QED BY <1>1, <1>2, <1>3, <1>4, <1>5, NextSplits

\* Along every behaviour the queues, requests, rows and calls keep their types.
THEOREM PostsTypeCorrect == Spec => []TypeOK
  <1>1. Init => TypeOK /\ RowInv
    BY TypesInit
  <1>2. (TypeOK /\ RowInv) /\ [Next]_vars => (TypeOK /\ RowInv)'
    BY TypesNext
  <1> QED BY <1>1, <1>2, PTL DEF Spec

-----------------------------------------------------------------------------
\* Whoever waits for a post is served.

\* What is queued has its timer, and no request is out for nothing.
Timed == /\ postQueue # {} => postTimer
         /\ \A f \in Flights : flight[f].pc = "idle" => flight[f].ids = {}

LEMMA ForgottenNext ==
  ASSUME TypeOK, Timed, NobodyForgotten, [Next]_vars
  PROVE  Timed' /\ NobodyForgotten'
  <1>1. CASE UNCHANGED postVars
    BY <1>1 DEF Timed, NobodyForgotten, InFlight, postVars
  <1>2. ASSUME NEW c \in Callers, ReadCache(c) PROVE Timed' /\ NobodyForgotten'
    <2>0. PICK missing \in SUBSET call[c].ids : ReadMissing(c, missing)
      BY <1>2, ReadCacheCases
    <2>1. CASE missing = {}
      BY <1>1, <2>0, <2>1 DEF ReadMissing
    <2>2. CASE missing # {}
      <3>1. /\ postQueue' = postQueue \cup missing /\ postTimer' = TRUE
            /\ UNCHANGED <<flight, spoiled>>
            /\ waiting' = [p \in Posts |-> IF p \in missing THEN waiting[p] \cup {c} ELSE waiting[p]]
        BY <2>0, <2>2 DEF ReadMissing
      <3>2. ASSUME NEW p \in Posts, waiting'[p] \ spoiled'[p] # {}
            PROVE  (p \in postQueue' /\ postTimer') \/ InFlight(p)'
        <4>1. CASE p \in missing
          BY <3>1, <4>1
        <4>2. CASE p \notin missing
          <5>1. waiting[p] \ spoiled[p] # {}
            BY <3>1, <3>2, <4>2
          <5> QED BY <3>1, <5>1 DEF NobodyForgotten, InFlight
        <4> QED BY <4>1, <4>2
      <3> QED BY <3>1, <3>2 DEF Timed, NobodyForgotten
    <2> QED BY <2>1, <2>2
  <1>3. ASSUME NEW f \in Flights, FlushPosts(f) PROVE Timed' /\ NobodyForgotten'
    <2>1. flight[f].pc = "idle" /\ waiting' = waiting /\ spoiled' = spoiled
          /\ postQueue' = {} /\ flight' = [flight EXCEPT ![f] = [NoFlight EXCEPT !.pc = "out", !.ids = postQueue]]
      BY <1>3 DEF FlushPosts
    <2>2. flight'[f] = [NoFlight EXCEPT !.pc = "out", !.ids = postQueue]
          /\ \A g \in Flights : g # f => flight'[g] = flight[g]
      BY <2>1 DEF TypeOK
    <2>3. flight'[f].pc = "out" /\ flight'[f].ids = postQueue
      BY <2>2 DEF NoFlight
    <2> QED BY <2>1, <2>2, <2>3 DEF Timed, NobodyForgotten, InFlight
  <1>4. ASSUME NEW f \in Flights, PostsAnswered(f) \/ PostsCached(f) PROVE Timed' /\ NobodyForgotten'
    <2>1. UNCHANGED <<postQueue, postTimer, waiting, spoiled>>
      BY <1>4 DEF PostsAnswered, PostsCached
    <2>2. \A g \in Flights : flight'[g].ids = flight[g].ids
                             /\ (flight[g].pc # "idle" <=> flight'[g].pc # "idle")
      <3>1. flight[f] \in Flight /\ flight[f].pc # "idle"
        BY <1>4 DEF TypeOK, PostsAnswered, PostsCached
      <3>2. \A g \in Flights : g # f => flight'[g] = flight[g]
        BY <1>4 DEF TypeOK, PostsAnswered, PostsCached
      <3>3. \E r \in [Posts -> Rows] \cup {flight[f].reply}, pc \in {"answered", "written", "failed"} :
               flight'[f] = [flight[f] EXCEPT !.pc = pc] \/ flight'[f] = [flight[f] EXCEPT !.pc = pc, !.reply = r]
        <4> DEFINE served == [p \in Posts |-> IF p \in flight[f].ids THEN Served(p) ELSE NoRow]
        <4>1. served \in [Posts -> Rows]
          BY ServedType, RowsType
        <4>2. CASE PostsCached(f)
          <5>1. \/ flight'[f] = [flight[f] EXCEPT !.pc = "written"]
                \/ flight'[f] = [flight[f] EXCEPT !.pc = "failed"]
            BY <4>2 DEF PostsCached, TypeOK
          <5> QED BY <5>1
        <4>3. CASE PostsAnswered(f)
          <5>1. \/ flight'[f] = [flight[f] EXCEPT !.pc = "answered", !.reply = served]
                \/ flight'[f] = [flight[f] EXCEPT !.pc = "failed"]
            BY <4>3 DEF PostsAnswered, TypeOK
          <5> HIDE DEF served
          <5> QED BY <4>1, <5>1
        <4> QED BY <1>4, <4>2, <4>3
      <3>4. flight'[f].ids = flight[f].ids /\ flight'[f].pc # "idle"
        BY <3>1, <3>3 DEF Flight
      <3> QED BY <3>1, <3>2, <3>4
    <2> QED BY <2>1, <2>2 DEF Timed, NobodyForgotten, InFlight
  <1>5. ASSUME NEW f \in Flights, PostsSettled(f) PROVE Timed' /\ NobodyForgotten'
    <2>1. /\ waiting' = [p \in Posts |-> IF p \in flight[f].ids THEN {} ELSE waiting[p]]
          /\ spoiled' = [p \in Posts |-> IF p \in flight[f].ids THEN {} ELSE spoiled[p]]
          /\ flight' = [flight EXCEPT ![f] = NoFlight]
          /\ UNCHANGED <<postQueue, postTimer>>
      BY <1>5 DEF PostsSettled, SettleIds
    <2>2. flight'[f] = NoFlight /\ \A g \in Flights : g # f => flight'[g] = flight[g]
      BY <2>1 DEF TypeOK
    <2> QED BY <2>1, <2>2 DEF Timed, NobodyForgotten, InFlight, NoFlight
  <1>7. ASSUME NEW f \in Flights, PostsSpoiled(f) PROVE Timed' /\ NobodyForgotten'
    <2>1. /\ flight' = [flight EXCEPT ![f] = NoFlight]
          /\ spoiled' = [p \in Posts |-> IF LastHope(f, p) THEN waiting[p] ELSE spoiled[p]]
          /\ UNCHANGED <<postQueue, postTimer, waiting>>
      BY <1>7 DEF PostsSpoiled
    <2>2. flight'[f] = NoFlight /\ \A g \in Flights : g # f => flight'[g] = flight[g]
      BY <2>1 DEF TypeOK
    <2>3. ASSUME NEW p \in Posts, waiting'[p] \ spoiled'[p] # {}
          PROVE  (p \in postQueue' /\ postTimer') \/ InFlight(p)'
      <3>1. ~LastHope(f, p) /\ waiting[p] \ spoiled[p] # {}
        BY <2>1, <2>3
      <3>2. CASE p \in postQueue
        BY <2>1, <3>2 DEF Timed
      <3>3. CASE p \notin postQueue
        <4>1. PICK g \in Flights : flight[g].pc # "idle" /\ p \in flight[g].ids
          BY <3>1, <3>3 DEF NobodyForgotten, InFlight
        <4>2. PICK h \in Flights \ {f} : p \in flight[h].ids
          BY <3>1, <3>3, <4>1 DEF LastHope
        <4>3. flight[h].pc # "idle" /\ flight'[h] = flight[h]
          BY <2>2, <4>2 DEF Timed
        <4> QED BY <4>2, <4>3 DEF InFlight
      <3> QED BY <3>2, <3>3
    <2> QED BY <2>1, <2>2, <2>3 DEF Timed, NobodyForgotten, NoFlight
  <1>6. UNCHANGED postVars \/ (\E c \in Callers : ReadCache(c))
        \/ \E f \in Flights : FlushPosts(f) \/ PostsAnswered(f) \/ PostsSpoiled(f) \/ PostsCached(f)
                              \/ PostsSettled(f)
    <2>1. CASE Quiet
      BY <2>1 DEF Quiet, FlightStep, StartBatch, StartGet, StartForce, StartDelete, StartReact, Begin,
                  ForceAnswered, ForceStores, DeleteAnswered, DeleteUncaches, Lookup, ReactAnswered,
                  TouchReads, TouchStores, CacheThrows, Edit, Expires
    <2>2. ASSUME NEW c \in Calls, FetchEngagement(c) \/ RefreshAsks(c) PROVE UNCHANGED postVars
      BY <2>2 DEF FetchEngagement, RefreshAsks, Ask
    <2>3. CASE TimerFires
      BY <2>3 DEF TimerFires
    <2>4. CASE EngineStep
      BY <2>4 DEF EngineStep, EngagementAnswered, MergePost, MergeStores, ReloadPosts, EngagementLands,
                  EngagementRejects, EngineThrows
    <2>5. CASE UNCHANGED vars
      BY <2>5 DEF vars
    <2> QED BY <2>1, <2>2, <2>3, <2>4, <2>5, NextSplits
  <1> QED BY <1>1, <1>2, <1>3, <1>4, <1>5, <1>6, <1>7

\* Along every behaviour, whoever waits for a post is served by the batch whose
\* timer runs or by one that is out, whatever the concurrent batches do: all
\* but those whose last batch was answered with something that is no list.
THEOREM NobodyForgottenAlways == Spec => []NobodyForgotten
  <1>1. Init => TypeOK /\ RowInv /\ Timed /\ NobodyForgotten
    <2> SUFFICES ASSUME Init PROVE TypeOK /\ RowInv /\ Timed /\ NobodyForgotten
      OBVIOUS
    <2>1. TypeOK /\ RowInv
      BY TypesInit
    <2>2. Timed
      BY DEF Init, Timed, NoFlight
    <2>3. NobodyForgotten
      BY DEF Init, NobodyForgotten
    <2> QED BY <2>1, <2>2, <2>3
  <1>2. (TypeOK /\ RowInv /\ Timed /\ NobodyForgotten) /\ [Next]_vars
        => (TypeOK /\ RowInv /\ Timed /\ NobodyForgotten)'
    BY TypesNext, ForgottenNext
  <1> QED BY <1>1, <1>2, PTL DEF Spec

-----------------------------------------------------------------------------
\* Who joined the engagement queue, and who is in the request.

\* A caller in the queue has its posts there, one in the request has its posts
\* in it, nobody is in both, and the timer that is tracked has not fired.
EngInv ==
    /\ \A c \in engPending : At(c, "engagement") /\ call[c].ids \subseteq engQueue /\ c \notin engine.callers
    /\ \A c \in engPending : call[c].ids = {} => EmptyLists
    /\ \A c \in engine.callers : At(c, "engagement") /\ call[c].ids \subseteq engine.ids
    /\ engine.pc = "idle" => engine.callers = {}
    /\ tracked => armed > 0

\* A caller has seen no more than there is, and the answer is not older.
SeenInv ==
    /\ \A c \in Calls : At(c, "engagement") => \A p \in Posts : call[c].seen[p] <= eng[p]
    /\ engine.pc \in {"merge", "put", "reload"} =>
         \A c \in engine.callers : \A p \in call[c].ids :
            engine.data[p] = NoRow \/ engine.data[p].eng >= call[c].seen[p]

Inv == TypeOK /\ RowInv /\ EngInv /\ SeenInv

\* A request that was sent, or none.
LEMMA Launched ==
  ASSUME Launch
  PROVE  /\ engQueue' = {} /\ engPending' = {} /\ tracked' = FALSE
         /\ engine'.pc \in {"idle", "out"}
         /\ engQueue = {} => engine'.callers = {} /\ engine'.pc = "idle"
         /\ engQueue # {} => engine'.callers = engPending /\ engine'.ids = engQueue /\ engine'.pc = "out"
  <1>1. /\ engQueue' = {} /\ engPending' = {} /\ tracked' = FALSE
        /\ engQueue = {} => engine' = NoRequest
        /\ engQueue # {} => engine' = [NoRequest EXCEPT !.pc = "out", !.ids = engQueue, !.callers = engPending]
    BY DEF Launch
  <1>2. CASE engQueue = {}
    BY <1>1, <1>2 DEF NoRequest
  <1>3. CASE engQueue # {}
    BY <1>1, <1>3 DEF NoRequest
  <1> QED BY <1>1, <1>2, <1>3

LEMMA QuietInv ==
  ASSUME Inv, Quiet
  PROVE  EngInv' /\ SeenInv'
  <1>1. /\ \A d \in Callers : Harmless(d)
        /\ UNCHANGED <<engQueue, engPending, armed, tracked, engine>>
        /\ \A p \in Posts : eng[p] <= eng'[p]
    BY QuietStep DEF Inv, engVars
  <1>2. engPending \subseteq Callers /\ engine.callers \subseteq Callers /\ Calls \subseteq Callers
    BY EngineFields DEF Inv, TypeOK, Callers
  <1>3. \A d \in Callers : call[d].pc = "engagement" \/ call'[d].pc = "engagement" => call'[d] = call[d]
    BY <1>1 DEF Harmless
  <1>4. EngInv'
    BY <1>1, <1>2, <1>3 DEF Inv, EngInv
  <1>5. ASSUME NEW c \in Calls, call'[c].pc = "engagement", NEW p \in Posts
        PROVE  call'[c].seen[p] <= eng'[p]
    <2>1. call'[c] = call[c] /\ call[c].seen[p] <= eng[p]
      BY <1>2, <1>3, <1>5 DEF Inv, SeenInv
    <2>2. call[c].seen[p] \in 0..MaxEng /\ eng[p] \in 0..MaxEng /\ eng'[p] \in 0..MaxEng
      <3>1. TypeOK'
        BY QuietType DEF Inv
      <3> QED BY <1>2, <3>1, CallFields DEF Inv, TypeOK
    <2>3. \A x, y, z \in 0..MaxEng : x <= y /\ y <= z => x <= z
      BY BoundsAssumption
    <2> QED BY <1>1, <2>1, <2>2, <2>3
  <1>6. \A c \in engine.callers : call'[c] = call[c]
    BY <1>2, <1>3 DEF Inv, EngInv
  <1>7. SeenInv'
    BY <1>1, <1>5, <1>6 DEF Inv, SeenInv
  <1> QED BY <1>4, <1>7

LEMMA AskInv ==
  ASSUME Inv, NEW c \in Calls, FetchEngagement(c) \/ RefreshAsks(c)
  PROVE  EngInv' /\ SeenInv'
  <1>1. PICK k \in {"engage", "react"}, ids \in SUBSET Posts :
               Ask(c, k, ids) /\ (ids = {} => EmptyLists) /\ ~At(c, "engagement")
    BY Asks DEF Inv
  <1>2. c \in Callers /\ call'[c] = [Idle EXCEPT !.pc = "engagement", !.kind = k, !.ids = ids, !.seen = eng]
    BY <1>1 DEF Inv, TypeOK, Ask, Callers
  <1>3. call'[c].pc = "engagement" /\ call'[c].ids = ids /\ call'[c].seen = eng
    BY <1>2 DEF Idle
  <1>4. \A d \in Callers : d # c => call'[d] = call[d]
    BY <1>1 DEF Inv, TypeOK, Ask
  <1>5. /\ engQueue' = engQueue \cup ids /\ engPending' = engPending \cup {c}
        /\ tracked' = TRUE /\ engine' = engine /\ eng' = eng
    BY <1>1 DEF Ask, server
  <1>6. armed' > 0
    BY <1>1, BoundsAssumption DEF Inv, TypeOK, EngInv, Ask, Debounce
  <1>7. c \notin engPending /\ c \notin engine.callers
    BY <1>1 DEF Inv, EngInv
  <1>8. engPending \subseteq Callers /\ engine.callers \subseteq Callers
    BY EngineFields DEF Inv, TypeOK, Callers
  <1>9. EngInv'
    <2>1. ASSUME NEW d \in engPending'
          PROVE  /\ call'[d].pc = "engagement" /\ call'[d].ids \subseteq engQueue' /\ d \notin engine'.callers
                 /\ call'[d].ids = {} => EmptyLists
      <3>1. CASE d = c
        BY <1>1, <1>3, <1>5, <1>7, <3>1
      <3>2. CASE d # c
        BY <1>4, <1>5, <1>8, <3>2 DEF Inv, EngInv
      <3> QED BY <3>1, <3>2
    <2>2. ASSUME NEW d \in engine'.callers
          PROVE  call'[d].pc = "engagement" /\ call'[d].ids \subseteq engine'.ids
      BY <1>4, <1>5, <1>7, <1>8 DEF Inv, EngInv
    <2> QED BY <1>5, <1>6, <2>1, <2>2 DEF Inv, EngInv
  <1>10. SeenInv'
    <2>1. ASSUME NEW d \in Calls, call'[d].pc = "engagement", NEW p \in Posts
          PROVE  call'[d].seen[p] <= eng'[p]
      <3>1. eng[p] <= eng[p]
        BY BoundsAssumption DEF Inv, TypeOK
      <3> QED BY <1>3, <1>4, <1>5, <2>1, <3>1 DEF Inv, SeenInv, Callers
    <2>2. \A d \in engine.callers : call'[d] = call[d]
      BY <1>4, <1>7, <1>8
    <2> QED BY <1>5, <2>1, <2>2 DEF Inv, SeenInv
  <1> QED BY <1>9, <1>10

LEMMA IdleAsksNothing == Idle.pc = "idle"
  BY DEF Idle

LEMMA TimerInv ==
  ASSUME Inv, TimerFires
  PROVE  EngInv' /\ SeenInv'
  <1>1. CASE engine.pc = "idle"
    <2>1. /\ Launch /\ eng' = eng
          /\ call' = [c \in Callers |-> IF engQueue = {} /\ c \in engPending THEN Idle ELSE call[c]]
      BY <1>1 DEF TimerFires, server
    <2>2. engPending \subseteq Callers /\ Calls \subseteq Callers
      BY DEF Inv, TypeOK, Callers
    <2>3. EngInv'
      <3>1. CASE engQueue = {}
        BY <2>1, <3>1, Launched DEF EngInv
      <3>2. CASE engQueue # {}
        <4>1. \A c \in Callers : call'[c] = call[c]
          BY <2>1, <3>2
        <4> QED BY <2>1, <2>2, <3>2, <4>1, Launched DEF Inv, EngInv
      <3> QED BY <3>1, <3>2
    <2>4. \A c \in Callers : call'[c] = call[c] \/ call'[c] = Idle
      BY <2>1
    <2>5. SeenInv'
      BY <2>1, <2>2, <2>4, Launched, IdleAsksNothing DEF Inv, SeenInv
    <2> QED BY <2>3, <2>5
  <1>2. CASE engine.pc # "idle"
    <2>1. UNCHANGED <<engQueue, engPending, engine, call, eng>>
          /\ armed' = armed - 1 /\ tracked' = (tracked /\ armed > 1)
      BY <1>2 DEF TimerFires, LeavesRunning, server
    <2>2. tracked' => armed' > 0
      <3>1. tracked' => armed > 1
        BY <2>1, Zenon
      <3>2. armed \in Nat
        BY BoundsAssumption DEF Inv, TypeOK
      <3>3. armed > 1 => armed - 1 > 0
        BY <3>2
      <3> QED BY <2>1, <3>1, <3>3
    <2> QED BY <2>1, <2>2 DEF Inv, EngInv, SeenInv
  <1> QED BY <1>1, <1>2

\* The request lands or fails: its callers are gone, those queued follow.
LEMMA LandsInv ==
  ASSUME Inv, Lands, UNCHANGED <<eng, armed>>,
         \A c \in Callers : /\ c \notin engine.callers => call'[c] = call[c]
                            /\ c \in engine.callers => call'[c].pc # "engagement"
  PROVE  EngInv' /\ SeenInv'
  <1>1. engPending \subseteq Callers /\ Calls \subseteq Callers
    BY DEF Inv, TypeOK, Callers
  <1>2. \A c \in engPending : call'[c] = call[c]
    BY <1>1 DEF Inv, EngInv
  <1>3. CASE engQueue # {}
    <2>1. Launch
      BY <1>3 DEF Lands, MoreQueued
    <2>2. EngInv'
      BY <1>1, <1>2, <1>3, <2>1, Launched DEF Inv, EngInv
    <2>3. SeenInv'
      BY <1>1, <1>3, <2>1, Launched DEF Inv, SeenInv
    <2> QED BY <2>2, <2>3
  <1>4. CASE engQueue = {}
    <2>1. engine' = NoRequest /\ UNCHANGED <<engQueue, engPending, tracked>>
      BY <1>4 DEF Lands, MoreQueued
    <2>2. engine'.pc = "idle" /\ engine'.callers = {}
      BY <2>1 DEF NoRequest
    <2>3. EngInv'
      BY <1>2, <2>1, <2>2 DEF Inv, EngInv
    <2>4. SeenInv'
      BY <1>1, <2>2 DEF Inv, SeenInv
    <2> QED BY <2>3, <2>4
  <1> QED BY <1>3, <1>4

\* The request moves on, with the callers and the posts it was sent with.
LEMMA MovesInv ==
  ASSUME Inv, UNCHANGED <<eng, engQueue, engPending, armed, tracked>>,
         \A c \in Calls : call'[c] = call[c],
         engine'.ids = engine.ids, engine'.callers = engine.callers, engine'.pc # "idle",
         engine'.pc \in {"merge", "put", "reload"} =>
           \A c \in engine.callers : \A p \in call[c].ids :
              engine'.data[p] = NoRow \/ engine'.data[p].eng >= call[c].seen[p]
  PROVE  EngInv' /\ SeenInv'
  <1>1. engine.callers \subseteq Calls /\ engPending \subseteq Calls
    BY EngineFields DEF Inv, TypeOK
  <1>2. EngInv'
    BY <1>1 DEF Inv, EngInv
  <1>3. SeenInv'
    BY <1>1 DEF Inv, SeenInv
  <1> QED BY <1>2, <1>3

LEMMA EngineInv ==
  ASSUME Inv, EngineStep
  PROVE  EngInv' /\ SeenInv'
  <1>1. engine \in Request /\ Calls \subseteq Callers /\ TypeOK
    BY DEF Inv, TypeOK, Callers
  <1>2. CASE EngagementAnswered
    <2> DEFINE served == {p \in engine.ids : p \notin gone}
               data == [p \in Posts |-> IF p \in served THEN Served(p) ELSE NoRow]
    <2>1. UNCHANGED <<eng, engQueue, engPending, armed, tracked, call>>
          /\ \/ engine' = [engine EXCEPT !.pc = "merge", !.left = served, !.data = data]
             \/ engine' = [engine EXCEPT !.pc = "failed"]
      BY <1>2 DEF EngagementAnswered, server
    <2>2. \A p \in Posts : data[p] = NoRow \/ data[p].eng = eng[p]
      BY <1>1, ServedType
    <2> HIDE DEF served, data
    <2>3. /\ engine'.ids = engine.ids /\ engine'.callers = engine.callers
          /\ engine'.pc \in {"merge", "failed"} /\ (engine'.pc = "merge" => engine'.data = data)
      BY <1>1, <2>1 DEF Request
    <2>4. ASSUME NEW c \in engine.callers, NEW p \in call[c].ids, engine'.pc = "merge"
          PROVE  engine'.data[p] = NoRow \/ engine'.data[p].eng >= call[c].seen[p]
      <3>1. c \in Calls /\ p \in Posts /\ At(c, "engagement")
        BY <1>1, EngineFields, CallFields DEF Inv, EngInv
      <3>2. call[c].seen[p] <= eng[p]
        BY <3>1 DEF Inv, SeenInv
      <3>3. call[c].seen[p] \in 0..MaxEng /\ eng[p] \in 0..MaxEng
        BY <1>1, <3>1, CallFields DEF TypeOK
      <3>4. eng[p] >= call[c].seen[p]
        BY <3>2, <3>3, BoundsAssumption
      <3> QED BY <2>2, <2>3, <2>4, <3>1, <3>4
    <2> QED BY <2>1, <2>3, <2>4, MovesInv
  <1>3. ASSUME NEW p \in Posts, MergePost(p) PROVE EngInv' /\ SeenInv'
    <2>1. UNCHANGED <<eng, engQueue, engPending, armed, tracked, call>> /\ engine.pc = "merge"
      BY <1>3 DEF MergePost, server
    <2>2. /\ engine'.ids = engine.ids /\ engine'.callers = engine.callers /\ engine'.data = engine.data
          /\ engine'.pc \in {"merge", "put"}
      <3>0. PICK old \in Rows : MergeRead(p, old)
        BY <1>3, MergePostCases DEF Inv
      <3> DEFINE merged == [old EXCEPT !.eng = engine.data[p].eng, !.hash = HashOf[engine.data[p].eng]]
                 left == engine.left \ {p}
                 changed == engine.changed \cup {p}
                 reload == engine.reload \cup {p}
      <3>1. \/ engine' = [engine EXCEPT !.left = left, !.reload = reload, !.changed = changed]
            \/ engine' = [engine EXCEPT !.left = left]
            \/ engine' = [engine EXCEPT !.left = left, !.changed = changed]
            \/ engine' = [engine EXCEPT !.left = left, !.changed = changed, !.pc = "put",
                                        !.post = p, !.merged = merged]
        BY <1>1, <3>0 DEF MergeRead, Request
      <3> HIDE DEF merged, left, changed, reload
      <3> QED BY <1>1, <2>1, <3>1 DEF Request
    <2> QED BY <2>1, <2>2, MovesInv DEF Inv, SeenInv
  <1>4. CASE MergeStores
    <2>1. UNCHANGED <<eng, engQueue, engPending, armed, tracked, call>> /\ engine.pc = "put"
      BY <1>4 DEF MergeStores, server
    <2>2. /\ engine'.ids = engine.ids /\ engine'.callers = engine.callers /\ engine'.data = engine.data
          /\ engine'.pc = "merge"
      BY <1>1, <1>4 DEF MergeStores, Request
    <2> QED BY <2>1, <2>2, MovesInv DEF Inv, SeenInv
  <1>5. CASE ReloadPosts
    <2>1. UNCHANGED <<eng, engQueue, engPending, armed, tracked>> /\ engine.pc = "merge"
      BY <1>5 DEF ReloadPosts, server
    <2>2. /\ engine'.ids = engine.ids /\ engine'.callers = engine.callers /\ engine'.data = engine.data
          /\ engine'.pc = "reload"
      BY <1>1, <1>5 DEF ReloadPosts, Request
    <2>3. \A c \in Calls : call'[c] = call[c]
      BY <1>1, <1>5, EngineAssumption DEF ReloadPosts, TypeOK
    <2> QED BY <2>1, <2>2, <2>3, MovesInv DEF Inv, SeenInv
  <1>6. CASE EngagementLands
    <2>1. Lands /\ UNCHANGED <<eng, armed>>
      BY <1>6 DEF EngagementLands, server
    <2>2. ASSUME NEW c \in Callers, c \in engine.callers PROVE call'[c].pc # "engagement"
      <3>0. call[c] \in Call
        BY <1>1 DEF TypeOK
      <3>1. CASE call[c].kind = "react" /\ call[c].ids \subseteq engine.changed
        <4>1. \E r : call'[c] = [[call[c] EXCEPT !.pc = "touch"] EXCEPT !.row = r]
          BY <1>6, <2>2, <3>1 DEF EngagementLands
        <4> QED BY <3>0, <4>1 DEF Call
      <3>2. CASE ~(call[c].kind = "react" /\ call[c].ids \subseteq engine.changed)
        <4>1. call'[c] = [Idle EXCEPT !.row = NoRow]
          BY <1>6, <2>2, <3>2 DEF EngagementLands
        <4> QED BY <4>1 DEF Idle
      <3> QED BY <3>1, <3>2
    <2>3. \A c \in Callers : c \notin engine.callers => call'[c] = call[c]
      BY <1>6 DEF EngagementLands
    <2> QED BY <2>1, <2>2, <2>3, LandsInv
  <1>7. CASE EngagementRejects
    <2>1. Lands /\ UNCHANGED <<eng, armed>>
          /\ call' = [c \in Callers |-> IF c \in engine.callers THEN Idle ELSE call[c]]
      BY <1>7 DEF EngagementRejects, server
    <2> QED BY <2>1, LandsInv, IdleAsksNothing
  <1>8. CASE EngineThrows
    <2>1. UNCHANGED <<eng, engQueue, engPending, armed, tracked>>
      BY <1>8 DEF EngineThrows, server
    <2>2. /\ engine'.ids = engine.ids /\ engine'.callers = engine.callers /\ engine'.pc = "failed"
      BY <1>1, <1>8 DEF EngineThrows, Request
    <2>3. \A c \in Calls : call'[c] = call[c]
      BY <1>1, <1>8, EngineAssumption DEF EngineThrows, TypeOK
    <2> QED BY <2>1, <2>2, <2>3, MovesInv
  <1> QED BY <1>2, <1>3, <1>4, <1>5, <1>6, <1>7, <1>8 DEF EngineStep

LEMMA InvNext ==
  ASSUME Inv, [Next]_vars
  PROVE  Inv'
  <1>1. TypeOK' /\ RowInv'
    BY TypesNext DEF Inv
  <1>2. ASSUME UNCHANGED vars PROVE EngInv' /\ SeenInv'
    <2>1. UNCHANGED <<eng, engQueue, engPending, armed, tracked, engine, call>>
      BY <1>2 DEF vars, server, engVars
    <2> QED BY <2>1 DEF Inv, EngInv, SeenInv
  <1>3. EngInv' /\ SeenInv'
    <2>1. ASSUME NEW c \in Calls, FetchEngagement(c) \/ RefreshAsks(c) PROVE EngInv' /\ SeenInv'
      BY <2>1, AskInv
    <2> QED BY <1>2, <2>1, NextSplits, QuietInv, TimerInv, EngineInv
  <1> QED BY <1>1, <1>3 DEF Inv

LEMMA InvInit ==
  ASSUME Init
  PROVE  Inv
  <1>1. engine = NoRequest /\ \A c \in Calls : call[c] = Idle
    BY DEF Init, Callers
  <1>2. engine.callers = {} /\ engine.pc = "idle"
    BY <1>1 DEF NoRequest
  <1> QED BY <1>1, <1>2, TypesInit, IdleAsksNothing DEF Init, Inv, EngInv, SeenInv

\* Along every behaviour the queue, the request and its callers agree, and no
\* answer is older than what its caller has seen.
THEOREM PostsInvariant == Spec => []Inv
  BY InvInit, InvNext, PTL DEF Spec

-----------------------------------------------------------------------------

LEMMA AttendedNext ==
  ASSUME Inv, ~EmptyLists, EngagementAttended, [Next]_vars
  PROVE  EngagementAttended'
  <1>1. engPending # {} => engQueue # {}
    BY DEF Inv, EngInv
  <1>2. CASE UNCHANGED <<engPending, engQueue, armed, engine>>
    BY <1>2 DEF EngagementAttended
  <1>3. CASE Quiet
    BY <1>2, <1>3, QuietStep DEF Inv, engVars
  <1>4. ASSUME NEW c \in Calls, FetchEngagement(c) \/ RefreshAsks(c) PROVE EngagementAttended'
    <2>1. tracked' = TRUE
      BY <1>4 DEF FetchEngagement, RefreshAsks, Ask
    <2>2. EngInv'
      BY <1>4, AskInv
    <2> QED BY <2>1, <2>2 DEF EngInv, EngagementAttended
  <1>5. CASE TimerFires
    <2>1. CASE engine.pc = "idle"
      BY <1>5, <2>1 DEF TimerFires, Launch, EngagementAttended
    <2>2. CASE engine.pc # "idle"
      BY <1>1, <1>5, <2>2 DEF TimerFires, LeavesRunning, EngagementAttended
    <2> QED BY <2>1, <2>2
  <1>6. CASE EngineStep
    <2>1. CASE EngagementLands \/ EngagementRejects
      <3>1. Lands /\ armed' = armed
        BY <2>1 DEF EngagementLands, EngagementRejects
      <3>2. CASE engQueue # {}
        BY <3>1, <3>2 DEF Lands, MoreQueued, Launch, EngagementAttended
      <3>3. CASE engQueue = {}
        BY <1>1, <3>1, <3>3 DEF Lands, MoreQueued, EngagementAttended
      <3> QED BY <3>2, <3>3
    <2>2. CASE EngagementAnswered \/ (\E p \in Posts : MergePost(p)) \/ MergeStores \/ ReloadPosts
              \/ EngineThrows
      <3>1. UNCHANGED <<engPending, engQueue, armed>>
        BY <2>2 DEF EngagementAnswered, MergePost, MergeStores, ReloadPosts, EngineThrows
      <3>2. engine'.pc # "idle"
        <4>0. engine \in Request
          BY DEF Inv, TypeOK
        <4>1. ASSUME NEW p \in Posts, MergePost(p) PROVE engine'.pc # "idle"
          BY <4>0, <4>1 DEF MergePost, Request
        <4> QED BY <2>2, <4>0, <4>1 DEF EngagementAnswered, MergeStores, ReloadPosts, EngineThrows, Request
      <3> QED BY <1>1, <3>1, <3>2 DEF EngagementAttended
    <2> QED BY <1>6, <2>1, <2>2 DEF EngineStep
  <1>7. CASE UNCHANGED vars
    BY <1>2, <1>7 DEF vars, engVars
  <1> QED BY <1>3, <1>4, <1>5, <1>6, <1>7, NextSplits

\* As long as nobody asks for the engagement of no posts, every caller that
\* joined the queue is flushed by a timer or when the request lands.
THEOREM EngagementAttendedAlways ==
  ASSUME ~EmptyLists
  PROVE  Spec => []EngagementAttended
  <1>1. Init => Inv /\ EngagementAttended
    BY InvInit DEF Init, EngagementAttended
  <1>2. (Inv /\ EngagementAttended) /\ [Next]_vars => (Inv /\ EngagementAttended)'
    BY InvNext, AttendedNext
  <1> QED BY <1>1, <1>2, PTL DEF Spec

\* A caller is answered about its own posts, by data read after it asked.
LEMMA AnsweredStep ==
  ASSUME Inv, Next, NEW c \in Calls,
         At(c, "engagement"), call'[c].pc # "engagement", engine.pc \in {"merge", "reload"}
  PROVE  /\ call[c].ids \subseteq engine.ids
         /\ \A p \in call[c].ids : engine.data[p] = NoRow \/ engine.data[p].eng >= call[c].seen[p]
  <1>0. c \in Callers /\ c # Engine
    BY EngineAssumption DEF Callers
  <1>1. CASE c \in engine.callers
    BY <1>1 DEF Inv, EngInv, SeenInv
  <1>2. CASE c \notin engine.callers
    <2>1. CASE Quiet
      BY <1>0, <2>1, QuietStep DEF Inv, Harmless
    <2>2. ASSUME NEW d \in Calls, FetchEngagement(d) \/ RefreshAsks(d) PROVE FALSE
      <3>1. PICK k \in {"engage", "react"}, ids \in SUBSET Posts : Ask(d, k, ids) /\ ~At(d, "engagement")
        BY <2>2, Asks DEF Inv
      <3>2. call'[c] = call[c]
        BY <1>0, <3>1 DEF Inv, TypeOK, Ask
      <3> QED BY <3>2
    <2>3. CASE TimerFires
      BY <2>3 DEF TimerFires
    <2>4. CASE EngineStep
      <3>1. call'[c] = call[c]
        BY <1>0, <1>2, <2>4 DEF EngineStep, EngagementAnswered, MergePost, MergeStores, ReloadPosts,
                           EngagementLands, EngagementRejects, EngineThrows, Inv, TypeOK
      <3> QED BY <3>1
    <2> QED BY <2>1, <2>2, <2>3, <2>4, NextSplits
  <1> QED BY <1>1, <1>2

\* No step of any behaviour answers a caller with engagement that is older than
\* its question or leaves out a post it asked about.
THEOREM AnsweredByLaterRequestAlways == Spec => AnsweredByLaterRequest
  <1> DEFINE Step == \A c \in Calls :
        At(c, "engagement") /\ call'[c].pc # "engagement" /\ engine.pc \in {"merge", "reload"}
        => /\ call[c].ids \subseteq engine.ids
           /\ \A p \in call[c].ids : engine.data[p] = NoRow \/ engine.data[p].eng >= call[c].seen[p]
  <1>1. Inv /\ [Next]_vars => [Step]_vars
    BY AnsweredStep
  <1>2. Spec => []Inv
    BY PostsInvariant
  <1> HIDE DEF Step
  <1>3. Spec => [][Step]_vars
    BY <1>1, <1>2, PTL DEF Spec
  <1> QED BY <1>3 DEF AnsweredByLaterRequest, Step
================================================================================
