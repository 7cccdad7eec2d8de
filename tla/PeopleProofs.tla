---------------------------- MODULE PeopleProofs ----------------------------
(* Nobody who waits for a user or a group is forgotten, answered from before  *)
(* the question or told that somebody is gone who is not, for any users,      *)
(* groups, callers, requests, batch size and number of events.                *)
EXTENDS People, TLAPS

\* The parts of the type invariant.
BatchOK ==
    /\ userBatchQueue = {u \in Users : userPendingResolvers[u] # {}}
    /\ userBatchQueue \subseteq Users /\ userBatchTimer \in BOOLEAN
    /\ userPendingResolvers \in [Users -> SUBSET (Calls \cup {Background})]
CallsOK == call \in [Calls -> CallState]
MapsOK == userRefreshInFlight \subseteq Users /\ groupRefreshInFlight \in [Groups -> Flights \cup {None}]
TablesOK == notFound \subseteq Ids /\ row \in [Ids -> Versions]
FlightsOK == flight \in [Flights -> Flight]
ServerOK ==
    /\ version \in [Ids -> Versions] /\ gone \subseteq Ids /\ wasGone \subseteq Ids
    /\ disposed \in BOOLEAN /\ events \in 0..MaxEvents

Types == BatchOK /\ CallsOK /\ MapsOK /\ TablesOK /\ FlightsOK /\ ServerOK

LEMMA TypeParts == TypeOK <=> Types
BY DEF TypeOK, Types, BatchOK, CallsOK, MapsOK, TablesOK, FlightsOK, ServerOK

\* Every operation has a subject of its kind.
Subjects ==
    \A c \in Calls :
        /\ call[c].pc # "idle" => call[c].id \in Ids
        /\ call[c].op \in {"user", "hydrate", "profile", "users"} => call[c].id \in Users
        /\ call[c].op \in {"group", "groups", "create", "update"} => call[c].id \in Groups

-----------------------------------------------------------------------------
\* Types of what the operators build.

LEMMA GoneVersion == Gone \in Versions
BY BatchAssumption DEF Gone, Versions

LEMMA FreeFlight == Free \in Flight /\ Nobody \in [Ids -> SUBSET (Calls \cup {Background})]
<1>1. /\ Nobody \in [Ids -> SUBSET (Calls \cup {Background})]
      /\ [x \in Ids |-> Gone] \in [Ids -> Versions]
  BY GoneVersion DEF Nobody
<1> QED
  BY <1>1 DEF Free, Flight

LEMMA SlotFree == Slots # {} => Slot \in Flights /\ flight[Slot].pc = "free"
BY DEF Slot, Slots

LEMMA SendTypes ==
    ASSUME FlightsOK, NEW kind \in {"batch", "get", "list"}, NEW ids \in SUBSET Ids,
           NEW who \in [Ids -> SUBSET (Calls \cup {Background})], Send(kind, ids, who)
    PROVE  FlightsOK'
<1> DEFINE new == [Free EXCEPT !.kind = kind, !.pc = "sent", !.ids = ids, !.for = who]
<1>1. new \in Flight
  BY FreeFlight DEF Flight, Free
<1>2. flight' = [flight EXCEPT ![Slot] = new]
  BY DEF Send
<1> HIDE DEF new
<1> QED
  BY <1>1, <1>2 DEF FlightsOK

LEMMA ForTypes ==
    ASSUME NEW c \in Calls, NEW x \in Ids
    PROVE  For(c, x) \in [Ids -> SUBSET (Calls \cup {Background})]
BY DEF For, Nobody

LEMMA FreesTypes ==
    ASSUME FlightsOK, NEW f \in Flights, Frees(f)
    PROVE  FlightsOK'
BY FreeFlight DEF Frees, FlightsOK

LEMMA DoesTypes ==
    ASSUME FlightsOK, NEW f \in Flights, NEW pc \in {"storing", "evicting"},
           NEW todo \in SUBSET Ids, Does(f, pc, todo)
    PROVE  FlightsOK'
<1>1. flight[f] \in Flight
  BY DEF FlightsOK
<1>2. [flight[f] EXCEPT !.pc = pc, !.todo = todo] \in Flight
  BY <1>1 DEF Flight
<1>3. flight' = [flight EXCEPT ![f] = [flight[f] EXCEPT !.pc = pc, !.todo = todo]]
  BY DEF Does
<1> QED
  BY <1>2, <1>3 DEF FlightsOK

LEMMA ServedTypes == ASSUME ServerOK PROVE Served \in [Ids -> Versions]
BY BatchAssumption DEF Served, ServerOK, Versions, Gone

LEMMA GoesTypes ==
    ASSUME CallsOK, NEW c \in Calls, NEW pc \in {"reading", "waiting", "written", "found", "fallback"},
           Goes(c, pc)
    PROVE  CallsOK'
BY DEF Goes, CallsOK, CallState

LEMMA EndsTypes ==
    ASSUME CallsOK, NEW c \in Calls, NEW v \in Versions \cup {None}, Ends(c, v)
    PROVE  CallsOK'
<1>1. [call[c] EXCEPT !.pc = "done", !.got = v] \in CallState
  BY DEF CallsOK, CallState
<1>2. call' = [call EXCEPT ![c] = [call[c] EXCEPT !.pc = "done", !.got = v]]
  BY DEF Ends
<1> QED
  BY <1>1, <1>2 DEF CallsOK

LEMMA StartsTypes ==
    ASSUME CallsOK, NEW c \in Calls, NEW op \in Ops, NEW x \in Ids, Starts(c, op, x)
    PROVE  CallsOK'
<1> DEFINE tombed == [Idle EXCEPT !.op = op, !.id = x, !.pc = "done", !.got = Gone]
           reads == [Idle EXCEPT !.op = op, !.id = x, !.pc = "reading"]
<1>1. tombed \in CallState /\ reads \in CallState
  BY GoneVersion DEF Idle, CallState
<1>2. \E s \in {tombed, reads} : call' = [call EXCEPT ![c] = s]
  BY DEF Starts
<1> HIDE DEF tombed, reads
<1> QED
  BY <1>1, <1>2 DEF CallsOK

LEMMA ToldTypes ==
    ASSUME CallsOK, Subjects, NEW who, NEW v, v \in [Ids -> Versions] \/ v = [x \in Ids |-> None]
    PROVE  Told(who, v) \in [Calls -> CallState]
<1> SUFFICES ASSUME NEW c \in Calls PROVE Told(who, v)[c] \in CallState
  BY DEF Told
<1>1. call[c].pc = "waiting" => v[call[c].id] \in Versions \cup {None}
  BY DEF Subjects
<1> QED
  BY <1>1 DEF Told, CallsOK, CallState

LEMMA SettleTypes ==
    ASSUME CallsOK, FlightsOK, MapsOK, Subjects, NEW f \in Flights, NEW v,
           v \in [Ids -> Versions] \/ v = [x \in Ids |-> None], GroupSettles(f, v)
    PROVE  CallsOK' /\ FlightsOK' /\ groupRefreshInFlight' \in [Groups -> Flights \cup {None}]
<1>1. CallsOK'
  BY ToldTypes DEF GroupSettles, CallsOK, CallState
<1>2. groupRefreshInFlight' \in [Groups -> Flights \cup {None}]
  BY DEF GroupSettles, Unlisted, MapsOK
<1> QED
  BY <1>1, <1>2, FreesTypes DEF GroupSettles

LEMMA QueueTypes ==
    ASSUME BatchOK, FlightsOK, NEW u \in Users, NEW who \in Calls \cup {Background},
           QueueUserFetch(u, who)
    PROVE  BatchOK' /\ FlightsOK'
<1> DEFINE queue == userBatchQueue \cup {u}
           pending == Joined(u, who)
<1>1. /\ pending \in [Users -> SUBSET (Calls \cup {Background})]
      /\ queue = {w \in Users : pending[w] # {}} /\ queue \in SUBSET Users
  BY DEF Joined, BatchOK
<1>2. CASE FullSize(queue)
  <2>1. FlushUserBatch(queue, pending)
    BY <1>2 DEF QueueUserFetch
  <2>2. BatchOK'
    BY <2>1 DEF FlushUserBatch, EmptyQueue, BatchOK
  <2>3. [x \in Ids |-> IF x \in Users THEN pending[x] ELSE {}] \in [Ids -> SUBSET (Calls \cup {Background})]
    BY <1>1
  <2> QED
    BY <1>1, <2>1, <2>2, <2>3, SendTypes DEF FlushUserBatch, Ids
<1>3. CASE ~FullSize(queue)
  <2>1. /\ userBatchQueue' = queue /\ userPendingResolvers' = pending /\ userBatchTimer' = TRUE
        /\ UNCHANGED flight
    BY <1>3 DEF QueueUserFetch
  <2> HIDE DEF queue, pending
  <2> QED
    BY <1>1, <2>1 DEF BatchOK, FlightsOK
<1> QED
  BY <1>2, <1>3

-----------------------------------------------------------------------------
\* Every step keeps the types.

\* What an action that leaves a part alone keeps of it.
LEMMA PartsRest ==
    ASSUME Types
    PROVE  /\ UNCHANGED batch => BatchOK'
           /\ UNCHANGED call => CallsOK'
           /\ UNCHANGED refreshes => MapsOK'
           /\ UNCHANGED <<notFound, row>> => TablesOK'
           /\ UNCHANGED flight => FlightsOK'
           /\ UNCHANGED <<server, disposed, events>> => ServerOK'
BY DEF Types, BatchOK, CallsOK, MapsOK, TablesOK, FlightsOK, ServerOK, batch, refreshes, server

LEMMA CallsKeepTypes ==
    ASSUME Types, Subjects, NEW c \in Calls, Call(c) \/ Reads(c)
    PROVE  Types'
<1> USE DEF Types
<1>1. CASE Call(c)
  <2>1. PICK op \in Ops, x \in Ids : Starts(c, op, x)
    BY <1>1, KindsAssumption DEF Call
  <2>2. CallsOK'
    BY <2>1, StartsTypes
  <2> QED
    BY <1>1, <2>2, PartsRest DEF Call
<1>2. CASE ReadUser(c)
  <2> DEFINE u == call[c].id
  <2>1. u \in Users /\ u \in Ids
    BY <1>2 DEF ReadUser, At, Subjects
  <2>2. row[u] \in Versions
    BY <2>1 DEF TablesOK
  <2>3. CASE row[u] # Gone /\ Ends(c, row[u]) /\ UNCHANGED <<batch, userRefreshInFlight, flight>>
    <3>1. CallsOK'
      BY <2>2, <2>3, EndsTypes
    <3> QED
      BY <1>2, <2>3, <3>1, PartsRest DEF ReadUser, refreshes
  <2>4. CASE /\ Ends(c, row[u]) /\ userRefreshInFlight' = userRefreshInFlight \cup {u}
             /\ QueueUserFetch(u, Background)
    <3>1. CallsOK' /\ BatchOK' /\ FlightsOK'
      BY <2>1, <2>2, <2>4, EndsTypes, QueueTypes
    <3>2. MapsOK'
      BY <1>2, <2>1, <2>4 DEF ReadUser, MapsOK
    <3> QED
      BY <1>2, <3>1, <3>2, PartsRest DEF ReadUser
  <2>5. CASE /\ call' = [call EXCEPT ![c].pc = "waiting", ![c].asked = Served[u]]
             /\ QueueUserFetch(u, c) /\ UNCHANGED userRefreshInFlight
    <3>1. Served[u] \in Versions
      BY <2>1, ServedTypes
    <3>2. CallsOK'
      BY <2>5, <3>1 DEF CallsOK, CallState
    <3>3. BatchOK' /\ FlightsOK'
      BY <2>1, <2>5, QueueTypes
    <3> QED
      BY <1>2, <2>5, <3>2, <3>3, PartsRest DEF ReadUser, refreshes
  <2> QED
    BY <1>2, <2>3, <2>4, <2>5 DEF ReadUser
<1>3. CASE HydrateUser(c)
  <2> DEFINE u == call[c].id
  <2>1. u \in Users /\ u \in Ids /\ row[u] \in Versions
    BY <1>3 DEF HydrateUser, At, Subjects, TablesOK, Ids
  <2>2. CallsOK'
    BY <1>3, <2>1, EndsTypes, StartsTypes DEF HydrateUser, Ops
  <2> QED
    BY <1>3, <2>2, PartsRest DEF HydrateUser
<1>4. CASE ReadGroup(c)
  <2> DEFINE g == call[c].id
             f == groupRefreshInFlight[g]
  <2>1. g \in Groups /\ g \in Ids /\ row[g] \in Versions
    BY <1>4 DEF ReadGroup, At, Subjects, TablesOK, Ids
  <2>2. CallsOK'
    BY <1>4, <2>1, EndsTypes, GoesTypes DEF ReadGroup
  <2>3. ASSUME NEW who \in [Ids -> SUBSET (Calls \cup {Background})], Get(g, who)
        PROVE  FlightsOK' /\ groupRefreshInFlight' \in [Groups -> Flights \cup {None}]
    <3>1. FlightsOK'
      BY <2>1, <2>3, SendTypes DEF Get
    <3>2. Slot \in Flights
      BY <2>3, SlotFree DEF Get, Send
    <3> QED
      BY <2>1, <2>3, <3>1, <3>2 DEF Get, MapsOK
  <2>4. FlightsOK' /\ groupRefreshInFlight' \in [Groups -> Flights \cup {None}]
    <3>1. CASE UNCHANGED <<flight, groupRefreshInFlight>>
      BY <3>1 DEF MapsOK, FlightsOK
    <3>2. CASE Get(g, Nobody) \/ Get(g, For(c, g))
      BY <2>1, <2>3, <3>2, FreeFlight, ForTypes
    <3>3. CASE /\ Fetches(g) /\ flight' = [flight EXCEPT ![f].for[g] = @ \cup {c}]
               /\ UNCHANGED groupRefreshInFlight
      <4>1. f \in Flights /\ flight[f] \in Flight
        BY <2>1, <3>3 DEF Fetches, MapsOK, FlightsOK
      <4>2. [flight[f] EXCEPT !.for = [flight[f].for EXCEPT ![g] = @ \cup {c}]] \in Flight
        BY <2>1, <4>1 DEF Flight
      <4>3. flight' = [flight EXCEPT ![f] = [flight[f] EXCEPT !.for = [flight[f].for EXCEPT ![g] = @ \cup {c}]]]
        BY <3>3
      <4> QED
        BY <3>3, <4>1, <4>2, <4>3 DEF FlightsOK, MapsOK
    <3> QED
      BY <1>4, <3>1, <3>2, <3>3 DEF ReadGroup
  <2> QED
    BY <1>4, <2>2, <2>4, PartsRest DEF ReadGroup, MapsOK
<1>5. CASE ReadRows(c)
  <2> DEFINE wanted == IF call[c].op = "profile" THEN {call[c].id} ELSE Users
             missing == wanted \ Cached(wanted)
  <2>1. call[c].id \in Ids /\ row[call[c].id] \in Versions /\ wanted \in SUBSET Ids
        /\ missing \in SUBSET Ids
    BY <1>5 DEF ReadRows, Subjects, TablesOK, Ids
  <2>2. For(c, call[c].id) \in [Ids -> SUBSET (Calls \cup {Background})]
    BY <2>1, ForTypes
  <2>3. CASE Ends(c, row[call[c].id]) /\ UNCHANGED flight
    BY <1>5, <2>1, <2>3, EndsTypes, PartsRest DEF ReadRows
  <2>4. ASSUME NEW ids \in SUBSET Ids, Send("list", ids, For(c, call[c].id)), Goes(c, "waiting")
        PROVE  Types'
    BY <1>5, <2>2, <2>4, SendTypes, GoesTypes, PartsRest DEF ReadRows
  <2> QED
    BY <1>5, <2>1, <2>3, <2>4 DEF ReadRows
<1>6. CASE ListGroups(c)
  <2>1. call[c].id \in Ids
    BY <1>6 DEF ListGroups, At, Subjects
  <2> QED
    BY <1>6, <2>1, ForTypes, SendTypes, GoesTypes, PartsRest DEF ListGroups, Ids
<1> QED
  BY <1>1, <1>2, <1>3, <1>4, <1>5, <1>6 DEF Reads

LEMMA RowTypes ==
    ASSUME row \in [Ids -> Versions]
    PROVE  /\ \A x \in Ids, v \in Versions : SetRow(x, v) => row' \in [Ids -> Versions]
           /\ \A x \in Ids : DeleteRow(x) => row' \in [Ids -> Versions]
           /\ \A S : \A v \in [Ids -> Versions] : SetRows(S, v) => row' \in [Ids -> Versions]
BY GoneVersion DEF SetRow, DeleteRow, SetRows

LEMMA WritesKeepTypes ==
    ASSUME Types, Subjects, NEW c \in Calls, Writes(c)
    PROVE  Types'
<1> USE DEF Types
<1> DEFINE x == call[c].id
<1>0. call[c].pc # "idle" => x \in Ids
  BY DEF Subjects
<1>1. CASE ServerWrites(c)
  <2>1. version[x] + 1 \in Versions /\ x \in Ids
    BY <1>0, <1>1, BatchAssumption DEF ServerWrites, ServerOK, Versions
  <2>2. CallsOK'
    <3>1. CASE call' = [call EXCEPT ![c].pc = "written", ![c].asked = version[x] + 1]
      <4>1. [call[c] EXCEPT !.pc = "written", !.asked = version[x] + 1] \in CallState
        BY <2>1 DEF CallsOK, CallState
      <4>2. call' = [call EXCEPT ![c] = [call[c] EXCEPT !.pc = "written", !.asked = version[x] + 1]]
        BY <3>1
      <4> QED
        BY <4>1, <4>2 DEF CallsOK
    <3> QED
      BY <1>1, <3>1, EndsTypes DEF ServerWrites
  <2>3. ServerOK'
    BY <1>1, <2>1 DEF ServerWrites, ServerOK
  <2> QED
    BY <1>1, <2>2, <2>3, PartsRest DEF ServerWrites
<1>2. CASE WriteFails(c)
  BY <1>2, EndsTypes, PartsRest DEF WriteFails
<1>3. CASE FindRow(c)
  BY <1>3, EndsTypes, GoesTypes, PartsRest DEF FindRow
<1>4. CASE DropRow(c)
  <2>1. x \in Ids
    BY <1>0, <1>4 DEF DropRow
  <2>2. TablesOK'
    BY <1>4, <2>1, RowTypes DEF DropRow, TablesOK
  <2> QED
    BY <1>4, <2>2, EndsTypes, PartsRest DEF DropRow
<1>5. CASE Refetch(c)
  <2>1. x \in Ids
    BY <1>0, <1>5 DEF Refetch
  <2>2. FlightsOK'
    BY <1>5, <2>1, ForTypes, SendTypes DEF Refetch, OwnGet
  <2>3. TablesOK'
    BY <1>5 DEF Refetch, TablesOK
  <2> QED
    BY <1>5, <2>2, <2>3, GoesTypes, PartsRest DEF Refetch
<1>6. CASE KeepCreated(c)
  <2>1. x \in Ids /\ call[c].asked \in Versions
    BY <1>0, <1>6 DEF KeepCreated, CallsOK, CallState
  <2>2. TablesOK'
    BY <1>6, <2>1, RowTypes DEF KeepCreated, TablesOK
  <2> QED
    BY <1>6, <2>1, <2>2, EndsTypes, PartsRest DEF KeepCreated
<1> QED
  BY <1>1, <1>2, <1>3, <1>4, <1>5, <1>6 DEF Writes

\* What comes back is the server's answer, less those it leaves out.
LEMMA ReadsReply ==
    ASSUME FlightsOK, NEW f \in Flights, ServerReads(f)
    PROVE  \E left \in SUBSET flight[f].ids :
             /\ flight' = [flight EXCEPT ![f] = [flight[f] EXCEPT !.pc = "back", !.reply = Without(left)]]
             /\ wasGone' = wasGone \cup left
<1>1. PICK left \in Omits(f) : /\ flight' = [flight EXCEPT ![f].pc = "back", ![f].reply = Without(left)]
                              /\ wasGone' = wasGone \cup left
  BY DEF ServerReads
<1>2. left \in SUBSET flight[f].ids
  BY DEF Omits
<1> QED
  BY <1>1, <1>2 DEF FlightsOK

LEMMA AnswersKeepTypes ==
    ASSUME Types, Subjects, NEW f \in Flights, Answer(f)
    PROVE  Types'
<1> USE DEF Types
<1>0. /\ flight[f] \in Flight /\ flight[f].ids \in SUBSET Ids /\ flight[f].todo \in SUBSET Ids
      /\ flight[f].reply \in [Ids -> Versions]
      /\ Found(f) \in SUBSET Ids /\ Missing(f) \in SUBSET Ids
  BY DEF FlightsOK, Flight, Found, Missing
<1>1. CASE ServerReads(f)
  <2>1. PICK left \in SUBSET flight[f].ids :
             /\ flight' = [flight EXCEPT ![f] = [flight[f] EXCEPT !.pc = "back", !.reply = Without(left)]]
             /\ wasGone' = wasGone \cup left
    BY <1>1, ReadsReply
  <2>2. Without(left) \in [Ids -> Versions]
    BY <1>0, ServedTypes, BatchAssumption DEF Without, Versions, Gone
  <2>3. [flight[f] EXCEPT !.pc = "back", !.reply = Without(left)] \in Flight
    BY <1>0, <2>2 DEF Flight
  <2>4. FlightsOK'
    BY <2>1, <2>3 DEF FlightsOK
  <2>5. ServerOK'
    BY <1>0, <1>1, <2>1 DEF ServerReads, ServerOK
  <2> QED
    BY <1>1, <2>4, <2>5, PartsRest DEF ServerReads
<1>2. CASE BatchAnswered(f)
  BY <1>0, <1>2, DoesTypes, PartsRest DEF BatchAnswered
<1>3. CASE StoreUser(f)
  <2>1. PICK u \in flight[f].todo : StoreUser(f)!(u)
    BY <1>3 DEF StoreUser
  <2>2. u \in Ids /\ flight[f].reply[u] \in Versions /\ flight[f].todo \ {u} \in SUBSET Ids
    BY <1>0, <2>1
  <2>3. FlightsOK' /\ TablesOK'
    BY <2>1, <2>2, DoesTypes, RowTypes DEF TablesOK
  <2> QED
    BY <2>1, <2>3, PartsRest
<1>4. CASE BatchResolved(f)
  <2>1. FlightsOK'
    BY <1>0, <1>4, FreesTypes, DoesTypes DEF BatchResolved
  <2>2. CallsOK'
    BY <1>0, <1>4, ToldTypes DEF BatchResolved, CallsOK
  <2>3. MapsOK' /\ TablesOK'
    BY <1>0, <1>4 DEF BatchResolved, MapsOK, TablesOK, Buried
  <2> QED
    BY <1>4, <2>1, <2>2, <2>3, PartsRest DEF BatchResolved
<1>5. CASE EvictUser(f)
  <2>1. PICK u \in flight[f].todo : EvictUser(f)!(u)
    BY <1>5 DEF EvictUser
  <2>2. u \in Ids /\ flight[f].todo \ {u} \in SUBSET Ids
    BY <1>0, <2>1
  <2>3. FlightsOK' /\ TablesOK'
    BY <2>1, <2>2, FreesTypes, DoesTypes, RowTypes DEF TablesOK
  <2> QED
    BY <2>1, <2>3, PartsRest
<1>6. CASE GroupAnswered(f)
  <2>1. FlightsOK'
    BY <1>0, <1>6, DoesTypes DEF GroupAnswered
  <2>2. TablesOK'
    BY <1>0, <1>6 DEF GroupAnswered, TablesOK, Buried
  <2> QED
    BY <1>6, <2>1, <2>2, PartsRest DEF GroupAnswered
<1>7. CASE GroupWritten(f)
  <2>1. CallsOK' /\ FlightsOK' /\ groupRefreshInFlight' \in [Groups -> Flights \cup {None}]
    BY <1>0, <1>7, SettleTypes DEF GroupWritten
  <2>2. TablesOK' /\ MapsOK'
    BY <1>0, <1>7, <2>1, RowTypes DEF GroupWritten, TablesOK, MapsOK
  <2> QED
    BY <1>7, <2>1, <2>2, PartsRest DEF GroupWritten
<1>8. CASE Listed(f)
  <2>1. CallsOK'
    BY <1>0, <1>8, ToldTypes DEF Listed, CallsOK
  <2>2. TablesOK'
    BY <1>0, <1>8, RowTypes DEF Listed, TablesOK
  <2> QED
    BY <1>8, <2>1, <2>2, FreesTypes, PartsRest DEF Listed
<1>9. CASE RequestFails(f)
  <2> DEFINE nothing == [x \in Ids |-> None]
  <2>1. CASE GroupSettles(f, nothing) /\ UNCHANGED userRefreshInFlight
    <3>1. CallsOK' /\ FlightsOK' /\ groupRefreshInFlight' \in [Groups -> Flights \cup {None}]
      BY <2>1, SettleTypes
    <3> QED
      BY <1>9, <2>1, <3>1, PartsRest DEF RequestFails, MapsOK, NoTombstone
  <2>2. CASE /\ call' = Told(flight[f].for, nothing) /\ Frees(f)
             /\ userRefreshInFlight' = userRefreshInFlight \ Refreshed(f)
             /\ UNCHANGED groupRefreshInFlight
    <3>1. CallsOK'
      BY <2>2, ToldTypes DEF CallsOK
    <3> QED
      BY <1>9, <2>2, <3>1, FreesTypes, PartsRest DEF RequestFails, MapsOK, NoTombstone
  <2> QED
    BY <1>9, <2>1, <2>2 DEF RequestFails
<1> QED
  BY <1>1, <1>2, <1>3, <1>4, <1>5, <1>6, <1>7, <1>8, <1>9 DEF Answer

\* What happens to the instance, the cache and the server.
Rest == TimerFires \/ TombstoneExpires \/ RowExpires \/ ClearCache \/ ServerChanges \/ Dispose

LEMMA RestKeepsTypes ==
    ASSUME Types, Rest
    PROVE  Types'
<1> USE DEF Types
<1>0. ASSUME Happens PROVE events' \in 0..MaxEvents
  BY <1>0, BatchAssumption DEF Happens, ServerOK
<1>1. CASE TimerFires
  <2>1. CASE userBatchQueue = {}
    BY <1>1, <2>1, PartsRest DEF TimerFires, BatchOK
  <2>2. CASE userBatchQueue # {}
    <3> DEFINE who == [x \in Ids |-> IF x \in Users THEN userPendingResolvers[x] ELSE {}]
    <3>1. who \in [Ids -> SUBSET (Calls \cup {Background})] /\ userBatchQueue \in SUBSET Ids
      BY DEF BatchOK, Ids
    <3>2. Send("batch", userBatchQueue, who)
      BY <1>1, <2>2 DEF TimerFires, FlushUserBatch
    <3> HIDE DEF who
    <3>3. FlightsOK'
      BY <3>1, <3>2, SendTypes
    <3>4. BatchOK'
      BY <1>1, <2>2 DEF TimerFires, FlushUserBatch, EmptyQueue, BatchOK
    <3> QED
      BY <1>1, <3>3, <3>4, PartsRest DEF TimerFires
  <2> QED
    BY <2>1, <2>2
<1>2. CASE TombstoneExpires
  BY <1>0, <1>2, PartsRest DEF TombstoneExpires, TablesOK, ServerOK, server
<1>3. CASE RowExpires
  BY <1>0, <1>3, GoneVersion, PartsRest DEF RowExpires, TablesOK, ServerOK, server
<1>4. CASE ClearCache
  BY <1>0, <1>4, GoneVersion, PartsRest DEF ClearCache, TablesOK, ServerOK, server
<1>5. CASE ServerChanges
  <2>1. PICK x \in Ids : ServerChanges!2!(x)
    BY <1>5 DEF ServerChanges
  <2>2. version[x] < MaxVersion => version[x] + 1 \in Versions
    BY BatchAssumption DEF ServerOK, Versions
  <2>3. version' \in [Ids -> Versions] /\ gone' \subseteq Ids /\ wasGone' \subseteq Ids
    BY <2>1, <2>2 DEF ServerOK
  <2>4. ServerOK'
    BY <1>0, <1>5, <2>3 DEF ServerChanges, ServerOK
  <2> QED
    BY <1>5, <2>4, PartsRest DEF ServerChanges
<1>6. CASE Dispose
  <2>1. BatchOK'
    BY <1>6 DEF Dispose, BatchOK
  <2>2. ServerOK'
    BY <1>0, <1>6 DEF Dispose, ServerOK, server
  <2> QED
    BY <1>6, <2>1, <2>2, PartsRest DEF Dispose
<1> QED
  BY <1>1, <1>2, <1>3, <1>4, <1>5, <1>6 DEF Rest

-----------------------------------------------------------------------------
\* Who has asked stays among those who have, and its question does not change.

Asked == {"waiting", "fallback", "done"}

Onward(c) ==
    /\ call[c].pc \in Asked \cup {"written", "found"} =>
         call'[c].op = call[c].op /\ call'[c].id = call[c].id /\ call'[c].asked = call[c].asked
    /\ call[c].pc \in Asked => call'[c].pc \in Asked
    /\ call[c].pc \in {"fallback", "done"} => call'[c].pc \in {"fallback", "done"}

SameSubject(c) ==
    /\ call'[c].op = call[c].op /\ call'[c].id = call[c].id
    /\ call'[c].pc # "idle" => call[c].pc # "idle"

LEMMA SubjectsKept ==
    ASSUME Subjects, \A d \in Calls : SameSubject(d)
    PROVE  Subjects'
BY DEF Subjects, SameSubject

LEMMA GoesOnward ==
    ASSUME CallsOK, NEW c \in Calls, call[c].pc \notin Asked \cup {"idle"},
           (\E pc \in {"reading", "waiting", "written", "found"} : Goes(c, pc))
           \/ \E v : Ends(c, v)
    PROVE  /\ \A d \in Calls : Onward(d)
           /\ \A d \in Calls : SameSubject(d)
           /\ \A d \in Calls : d # c => call'[d] = call[d]
BY DEF CallsOK, CallState, Goes, Ends, Onward, SameSubject, Asked

LEMMA StartsOnward ==
    ASSUME CallsOK, NEW c \in Calls, NEW op \in Ops, NEW x \in Ids, Starts(c, op, x),
           call[c].pc \in {"idle", "reading"}
    PROVE  /\ \A d \in Calls : Onward(d)
           /\ \A d \in Calls : d # c => call'[d] = call[d]
           /\ call'[c].op = op /\ call'[c].id = x /\ call'[c].pc \in {"reading", "done"}
BY DEF CallsOK, CallState, Starts, Idle, Onward, Asked

LEMMA ToldOnward ==
    ASSUME CallsOK, NEW who, NEW v, call' = Told(who, v)
    PROVE  /\ \A d \in Calls : Onward(d)
           /\ \A d \in Calls : SameSubject(d)
           /\ \A d \in Calls : call'[d].pc = "waiting" => call[d].pc = "waiting" /\ d \notin who[call[d].id]
BY DEF CallsOK, CallState, Told, Onward, SameSubject, Asked

LEMMA SettleOnward ==
    ASSUME CallsOK, NEW f \in Flights, NEW v, GroupSettles(f, v)
    PROVE  /\ \A d \in Calls : Onward(d)
           /\ \A d \in Calls : SameSubject(d)
           /\ \A d \in Calls :
                call'[d].pc = "waiting" => call[d].pc = "waiting" /\ d \notin flight[f].for[call[d].id]
<1> SUFFICES ASSUME NEW d \in Calls
             PROVE  /\ Onward(d) /\ SameSubject(d)
                    /\ call'[d].pc = "waiting" => call[d].pc = "waiting" /\ d \notin flight[f].for[call[d].id]
  OBVIOUS
<1>1. CASE d \in Fallback(f, v)
  BY <1>1 DEF CallsOK, CallState, GroupSettles, Fallback, Onward, SameSubject, Asked
<1>2. CASE d \notin Fallback(f, v)
  BY <1>2 DEF CallsOK, CallState, GroupSettles, Told, Onward, SameSubject, Asked
<1> QED
  BY <1>1, <1>2

LEMMA AsksOnward ==
    ASSUME CallsOK, NEW c \in Calls, NEW pc \in {"waiting", "written"}, NEW v,
           call[c].pc = "reading", call' = [call EXCEPT ![c].pc = pc, ![c].asked = v]
    PROVE  /\ \A d \in Calls : Onward(d)
           /\ \A d \in Calls : SameSubject(d)
           /\ \A d \in Calls : d # c => call'[d] = call[d]
BY DEF CallsOK, CallState, Onward, SameSubject, Asked

LEMMA StepsOnward ==
    ASSUME Types, Subjects, Next
    PROVE  (\A d \in Calls : Onward(d)) /\ Subjects'
<1> USE DEF Types
<1>0. ASSUME UNCHANGED call PROVE (\A d \in Calls : Onward(d)) /\ Subjects'
  BY <1>0 DEF Onward, Subjects
<1>1. ASSUME NEW c \in Calls, Call(c) PROVE (\A d \in Calls : Onward(d)) /\ Subjects'
  <2>1. PICK op \in Ops, x \in Ids :
           /\ op \in {"user", "hydrate", "profile", "users"} => x \in Users
           /\ op \in {"group", "groups", "create", "update"} => x \in Groups
           /\ Starts(c, op, x)
    BY <1>1, KindsAssumption DEF Call
  <2>2. call[c].pc = "idle"
    BY <1>1 DEF Call
  <2>3. /\ \A d \in Calls : Onward(d)
        /\ \A d \in Calls : d # c => call'[d] = call[d]
        /\ call'[c].op = op /\ call'[c].id = x /\ call'[c].pc \in {"reading", "done"}
    BY <2>1, <2>2, StartsOnward
  <2> QED
    BY <2>1, <2>3 DEF Subjects
<1>2. ASSUME NEW c \in Calls, HydrateUser(c) PROVE (\A d \in Calls : Onward(d)) /\ Subjects'
  <2>1. call[c].pc = "reading" /\ call[c].id \in Users /\ call[c].id \in Ids
    BY <1>2 DEF HydrateUser, At, Subjects
  <2>2. CASE Ends(c, row[call[c].id])
    BY <2>1, <2>2, GoesOnward, SubjectsKept DEF Asked
  <2>3. CASE Starts(c, "user", call[c].id)
    <3>1. /\ \A d \in Calls : Onward(d)
          /\ \A d \in Calls : d # c => call'[d] = call[d]
          /\ call'[c].op = "user" /\ call'[c].id = call[c].id /\ call'[c].pc \in {"reading", "done"}
      BY <2>1, <2>3, StartsOnward DEF Ops
    <3> QED
      BY <2>1, <3>1 DEF Subjects
  <2> QED
    BY <1>2, <2>2, <2>3 DEF HydrateUser
<1>3. ASSUME NEW c \in Calls, ReadUser(c) PROVE (\A d \in Calls : Onward(d)) /\ Subjects'
  <2>1. call[c].pc = "reading"
    BY <1>3 DEF ReadUser, At
  <2>2. CASE Ends(c, row[call[c].id])
    BY <2>1, <2>2, GoesOnward, SubjectsKept DEF Asked
  <2>3. CASE call' = [call EXCEPT ![c].pc = "waiting", ![c].asked = Served[call[c].id]]
    BY <2>1, <2>3, AsksOnward, SubjectsKept
  <2> QED
    BY <1>3, <2>2, <2>3 DEF ReadUser
<1>4. ASSUME NEW c \in Calls, ReadGroup(c) \/ ReadRows(c) \/ ListGroups(c)
      PROVE (\A d \in Calls : Onward(d)) /\ Subjects'
  <2>1. call[c].pc = "reading"
    BY <1>4 DEF ReadGroup, ReadRows, ListGroups, At
  <2>2. (\E v : Ends(c, v)) \/ Goes(c, "waiting")
    BY <1>4 DEF ReadGroup, ReadRows, ListGroups
  <2> QED
    BY <2>1, <2>2, GoesOnward, SubjectsKept DEF Asked
<1>5. ASSUME NEW c \in Calls, Writes(c) PROVE (\A d \in Calls : Onward(d)) /\ Subjects'
  <2>1. CASE ServerWrites(c)
    <3>1. CASE \E v : Ends(c, v)
      BY <2>1, <3>1, GoesOnward, SubjectsKept DEF ServerWrites, Asked
    <3>2. CASE call' = [call EXCEPT ![c].pc = "written", ![c].asked = version[call[c].id] + 1]
      BY <2>1, <3>2, AsksOnward, SubjectsKept DEF ServerWrites
    <3> QED
      BY <2>1, <3>1, <3>2 DEF ServerWrites
  <2>2. CASE WriteFails(c) \/ FindRow(c) \/ DropRow(c) \/ Refetch(c)
    <3>1. call[c].pc \in {"reading", "written", "found"}
      BY <2>2 DEF WriteFails, FindRow, DropRow, Refetch, At
    <3>2. (\E v : Ends(c, v)) \/ Goes(c, "found") \/ Goes(c, "waiting")
      BY <2>2 DEF WriteFails, FindRow, DropRow, Refetch
    <3> QED
      BY <3>1, <3>2, GoesOnward, SubjectsKept DEF Asked
  <2>3. CASE KeepCreated(c)
    <3>1. /\ \A d \in Calls : Onward(d)
          /\ \A d \in Calls : SameSubject(d)
      BY <2>3 DEF KeepCreated, Ends, CallsOK, CallState, Onward, SameSubject, Asked
    <3> QED
      BY <3>1, SubjectsKept
  <2> QED
    BY <1>5, <2>1, <2>2, <2>3 DEF Writes
<1>6. ASSUME NEW f \in Flights, Answer(f) PROVE (\A d \in Calls : Onward(d)) /\ Subjects'
  <2>1. CASE UNCHANGED call
    BY <1>0, <2>1
  <2>2. CASE \E v : call' = Told(flight[f].for, v)
    BY <2>2, ToldOnward, SubjectsKept
  <2>3. CASE \E v : GroupSettles(f, v)
    BY <2>3, SettleOnward, SubjectsKept
  <2> QED
    BY <1>6, <2>1, <2>2, <2>3 DEF Answer, ServerReads, BatchAnswered, StoreUser, BatchResolved,
       EvictUser, GroupAnswered, GroupWritten, Listed, RequestFails
<1>7. CASE Rest
  BY <1>0, <1>7 DEF Rest, TimerFires, TombstoneExpires, RowExpires, ClearCache, ServerChanges, Dispose
<1> QED
  BY <1>1, <1>2, <1>3, <1>4, <1>5, <1>6, <1>7 DEF Next, Reads, Rest

TypeInv == TypeOK /\ Subjects

LEMMA InitTypes == Init => TypeInv
<1> SUFFICES ASSUME Init PROVE TypeInv
  OBVIOUS
<1>1. CallsOK /\ Subjects
  BY GoneVersion DEF Init, Idle, CallsOK, CallState, Subjects
<1>2. BatchOK /\ MapsOK
  BY DEF Init, BatchOK, MapsOK
<1>3. TablesOK /\ FlightsOK
  BY GoneVersion, FreeFlight DEF Init, TablesOK, FlightsOK
<1>4. ServerOK
  <2>1. 1 \in Versions /\ Gone \in Versions /\ 0 \in 0..MaxEvents
    BY BatchAssumption DEF Versions, Gone
  <2>2. version \in [Ids -> Versions]
    BY <2>1 DEF Init
  <2> QED
    BY <2>1, <2>2 DEF Init, ServerOK, Ids
<1> QED
  BY <1>1, <1>2, <1>3, <1>4, TypeParts DEF TypeInv, Types

LEMMA NextKeepsTypes == TypeInv /\ [Next]_vars => TypeInv'
<1> SUFFICES ASSUME TypeInv, [Next]_vars PROVE TypeInv'
  OBVIOUS
<1>1. Types /\ Subjects
  BY TypeParts DEF TypeInv
<1>2. CASE Next
  <2>1. Types'
    BY <1>1, <1>2, CallsKeepTypes, WritesKeepTypes, AnswersKeepTypes, RestKeepsTypes DEF Next, Rest
  <2>2. TypeOK'
    BY <2>1 DEF TypeOK, Types, BatchOK, CallsOK, MapsOK, TablesOK, FlightsOK, ServerOK
  <2> QED
    BY <1>1, <1>2, <2>2, StepsOnward DEF TypeInv
<1>3. CASE UNCHANGED vars
  <2>1. Types' /\ Subjects'
    BY <1>1, <1>3, PartsRest DEF vars, Types, Subjects
  <2> QED
    BY <2>1 DEF TypeInv, TypeOK, Types, BatchOK, CallsOK, MapsOK, TablesOK, FlightsOK, ServerOK
<1> QED
  BY <1>2, <1>3

\* Calls, batches, maps, tables, requests and the server keep their types, and
\* the queue names the users somebody waits for, for any users and callers.
THEOREM PeopleTypeCorrect == Spec => []TypeOK
<1>1. TypeInv => TypeOK
  BY DEF TypeInv
<1> QED
  BY <1>1, InitTypes, NextKeepsTypes, PTL DEF Spec

-----------------------------------------------------------------------------
\* Nobody who waits is forgotten.

\* Whoever asked about x and is c is in the batch, or in a request that is out.
Holds(c, x) ==
    \/ /\ x \in userBatchQueue /\ c \in userPendingResolvers[x]
       /\ userBatchTimer \/ disposed
    \/ \E f \in Flights : flight[f].pc # "free" /\ c \in flight[f].for[x]

\* Only who has asked is in a batch or in a request.
Members ==
    /\ \A f \in Flights, x \in Ids, c \in Calls : c \in flight[f].for[x] => call[c].pc \in Asked
    /\ \A u \in Users, c \in Calls : c \in userPendingResolvers[u] => call[c].pc \in Asked

\* Nobody waits for a batch that evicts.
Settled ==
    \A f \in Flights, c \in Calls :
        flight[f].kind = "batch" /\ flight[f].pc = "evicting" /\ call[c].pc = "waiting"
            => c \notin flight[f].for[call[c].id]

\* The map names GETs of its group that are out.
GetsListed ==
    \A g \in Groups :
        LET f == groupRefreshInFlight[g] IN
        f # None => flight[f].pc # "free" /\ flight[f].kind = "get" /\ flight[f].ids = {g}

HeldInv == Members /\ Settled /\ GetsListed /\ NobodyForgotten

LEMMA HeldIs == NobodyForgotten <=> \A c \in Calls : call[c].pc = "waiting" => Holds(c, call[c].id)
BY DEF NobodyForgotten, Holds

\* Who waits after a step did so before, for the same, or has only now asked.
LEMMA WaitsOn ==
    ASSUME \A d \in Calls : Onward(d), NEW c \in Calls, call'[c].pc = "waiting", call[c].pc \in Asked
    PROVE  call[c].pc = "waiting" /\ call'[c].id = call[c].id
BY DEF Onward, Asked

\* A step that touches neither batch nor request, and makes nobody wait.
LEMMA QuietHolds ==
    ASSUME HeldInv, \A d \in Calls : Onward(d),
           UNCHANGED <<flight, userBatchQueue, userPendingResolvers, groupRefreshInFlight>>,
           userBatchTimer \/ disposed => userBatchTimer' \/ disposed',
           \A d \in Calls : call'[d].pc = "waiting" => call[d].pc \in Asked
    PROVE  HeldInv'
<1>1. \A d \in Calls : call'[d].pc = "waiting" => call[d].pc = "waiting" /\ call'[d].id = call[d].id
  BY WaitsOn
<1>2. Members'
  BY DEF HeldInv, Members, Onward
<1>3. Settled' /\ GetsListed'
  BY <1>1 DEF HeldInv, Settled, GetsListed
<1>4. \A c, x : Holds(c, x) => Holds(c, x)'
  BY DEF Holds
<1>5. NobodyForgotten'
  BY <1>1, <1>4, HeldIs DEF HeldInv, NobodyForgotten, Holds
<1> QED
  BY <1>2, <1>3, <1>5 DEF HeldInv

\* A step of a request: it goes on with the same callers, or ends once nobody
\* waits for it.
LEMMA AnswerHolds ==
    ASSUME Types, HeldInv, \A d \in Calls : Onward(d), NEW f \in Flights, NEW new,
           flight' = [flight EXCEPT ![f] = new],
           new = Free \/ /\ new.for = flight[f].for /\ new.kind = flight[f].kind
                         /\ new.ids = flight[f].ids /\ new.pc # "free",
           UNCHANGED <<batch, disposed>>,
           \A d \in Calls : call'[d].pc = "waiting" => call[d].pc \in Asked,
           new = Free \/ (new.kind = "batch" /\ new.pc = "evicting")
               => \A d \in Calls : call'[d].pc = "waiting" => d \notin flight[f].for[call[d].id],
           groupRefreshInFlight' = Unlisted(f)
             \/ (UNCHANGED groupRefreshInFlight /\ (new # Free \/ flight[f].kind # "get"))
    PROVE  HeldInv'
<1>1. \A d \in Calls : call'[d].pc = "waiting" => call[d].pc = "waiting" /\ call'[d].id = call[d].id
  BY WaitsOn
<1>2. /\ flight'[f] = new
      /\ \A e \in Flights : e # f => flight'[e] = flight[e]
  BY DEF Types, FlightsOK
<1>3. \A x \in Ids : Free.for[x] = {}
  BY DEF Free, Nobody
<1>4. Members'
  <2>1. \A e \in Flights, x \in Ids, c \in Calls : c \in flight'[e].for[x] => c \in flight[e].for[x]
    BY <1>2, <1>3
  <2> QED
    BY <2>1 DEF HeldInv, Members, Onward, batch
<1>5. Settled'
  <2> SUFFICES ASSUME NEW e \in Flights, NEW c \in Calls, flight'[e].kind = "batch",
                      flight'[e].pc = "evicting", call'[c].pc = "waiting"
               PROVE  c \notin flight'[e].for[call'[c].id]
    BY DEF Settled
  <2>1. CASE e # f
    BY <1>1, <1>2, <2>1 DEF HeldInv, Settled
  <2>2. CASE e = f
    BY <1>1, <1>2, <2>2 DEF Free
  <2> QED
    BY <2>1, <2>2
<1>6. GetsListed'
  BY <1>2, NoneAssumption DEF HeldInv, GetsListed, Unlisted, Types, MapsOK
<1>7. NobodyForgotten'
  <2> SUFFICES ASSUME NEW c \in Calls, call'[c].pc = "waiting" PROVE Holds(c, call[c].id)'
    BY <1>1 DEF NobodyForgotten, Holds
  <2>1. call'[c].id = call[c].id /\ Holds(c, call[c].id)
    BY <1>1, HeldIs DEF HeldInv
  <2> QED
    BY <1>2, <2>1 DEF Holds, batch
<1> QED
  BY <1>4, <1>5, <1>6, <1>7 DEF HeldInv

\* A request goes out for callers that have asked.
LEMMA SendIs ==
    ASSUME Types, NEW kind, NEW ids, NEW who, Send(kind, ids, who)
    PROVE  /\ Slot \in Flights /\ flight[Slot].pc = "free"
           /\ flight'[Slot].kind = kind /\ flight'[Slot].pc = "sent"
           /\ flight'[Slot].ids = ids /\ flight'[Slot].for = who
           /\ \A e \in Flights : e # Slot => flight'[e] = flight[e]
<1> DEFINE s == Slot
<1>1. s \in Flights /\ flight[s].pc = "free"
  BY SlotFree DEF Send
<1>2. flight' = [flight EXCEPT ![s] = [Free EXCEPT !.kind = kind, !.pc = "sent", !.ids = ids, !.for = who]]
  BY DEF Send
<1> HIDE DEF s
<1>3. flight \in [Flights -> Flight]
  BY DEF Types, FlightsOK
<1> QED
  BY <1>1, <1>2, <1>3 DEF Free, s

LEMMA SendHolds ==
    ASSUME Types, Subjects', HeldInv, \A d \in Calls : Onward(d), NEW kind, NEW ids, NEW who,
           Send(kind, ids, who), UNCHANGED <<batch, disposed>>,
           UNCHANGED groupRefreshInFlight
             \/ \E g \in Groups : /\ kind = "get" /\ ids = {g}
                                  /\ groupRefreshInFlight' = [groupRefreshInFlight EXCEPT ![g] = Slot],
           \A x \in Ids, d \in Calls : d \in who[x] => call'[d].pc \in Asked,
           \A d \in Calls : call'[d].pc = "waiting" => call[d].pc \in Asked \/ d \in who[call'[d].id]
    PROVE  HeldInv'
<1> DEFINE s == Slot
<1>1. /\ s \in Flights /\ flight[s].pc = "free"
      /\ flight'[s].kind = kind /\ flight'[s].pc = "sent" /\ flight'[s].ids = ids /\ flight'[s].for = who
      /\ \A e \in Flights : e # s => flight'[e] = flight[e]
  BY SendIs
<1> HIDE DEF s
<1>2. Members'
  BY <1>1 DEF HeldInv, Members, Onward, batch
<1>3. Settled'
  <2> SUFFICES ASSUME NEW e \in Flights, NEW c \in Calls, flight'[e].kind = "batch",
                      flight'[e].pc = "evicting", call'[c].pc = "waiting"
               PROVE  c \notin flight'[e].for[call'[c].id]
    BY DEF Settled
  <2>1. e # s /\ flight'[e] = flight[e]
    BY <1>1
  <2>2. CASE call[c].pc \in Asked
    BY <2>1, <2>2, WaitsOn DEF HeldInv, Settled
  <2>3. CASE call[c].pc \notin Asked
    <3>1. call'[c].id \in Ids
      BY DEF Subjects
    <3> QED
      BY <2>1, <2>3, <3>1 DEF HeldInv, Members
  <2> QED
    BY <2>2, <2>3
<1>4. GetsListed'
  <2>1. CASE UNCHANGED groupRefreshInFlight
    BY <1>1, <2>1 DEF HeldInv, GetsListed, Types, MapsOK
  <2>2. CASE \E g \in Groups : /\ kind = "get" /\ ids = {g}
                               /\ groupRefreshInFlight' = [groupRefreshInFlight EXCEPT ![g] = s]
    BY <1>1, <2>2 DEF HeldInv, GetsListed, Types, MapsOK
  <2> QED
    BY <2>1, <2>2 DEF s
<1>5. NobodyForgotten'
  <2> SUFFICES ASSUME NEW c \in Calls, call'[c].pc = "waiting" PROVE Holds(c, call[c].id)'
    BY DEF NobodyForgotten, Holds
  <2>1. CASE call[c].pc \in Asked
    <3>1. call'[c].id = call[c].id /\ Holds(c, call[c].id)
      BY <2>1, WaitsOn, HeldIs DEF HeldInv
    <3> QED
      BY <1>1, <3>1 DEF Holds, batch
  <2>2. CASE c \in who[call'[c].id]
    BY <1>1, <2>2 DEF Holds
  <2> QED
    BY <2>1, <2>2
<1> QED
  BY <1>2, <1>3, <1>4, <1>5 DEF HeldInv

\* The batch goes out with all that wait for it.
LEMMA FlushHolds ==
    ASSUME Types, Subjects', HeldInv, \A d \in Calls : Onward(d),
           NEW pending \in [Users -> SUBSET (Calls \cup {Background})], NEW queue,
           FlushUserBatch(queue, pending), UNCHANGED groupRefreshInFlight,
           \A w \in Users : userPendingResolvers[w] \subseteq pending[w],
           \A w \in Users, d \in Calls : d \in pending[w] => call'[d].pc \in Asked,
           \A d \in Calls : call'[d].pc = "waiting" =>
               call[d].pc \in Asked \/ (call'[d].id \in Users /\ d \in pending[call'[d].id])
    PROVE  HeldInv'
<1> DEFINE s == Slot
           who == [x \in Ids |-> IF x \in Users THEN pending[x] ELSE {}]
<1>0. Send("batch", queue, who)
  BY DEF FlushUserBatch
<1>1. /\ s \in Flights /\ flight[s].pc = "free"
      /\ flight'[s].kind = "batch" /\ flight'[s].pc = "sent" /\ flight'[s].for = who
      /\ \A e \in Flights : e # s => flight'[e] = flight[e]
  BY <1>0, SendIs
<1>2. /\ \A x \in Users : who[x] = pending[x]
      /\ \A x \in Ids : x \notin Users => who[x] = {}
  BY DEF Ids
<1>3. userPendingResolvers' = [u \in Users |-> {}]
  BY DEF FlushUserBatch
<1> HIDE DEF s, who
<1>4. Members'
  BY <1>1, <1>2, <1>3 DEF HeldInv, Members, Onward
<1>5. Settled'
  <2> SUFFICES ASSUME NEW e \in Flights, NEW c \in Calls, flight'[e].kind = "batch",
                      flight'[e].pc = "evicting", call'[c].pc = "waiting"
               PROVE  c \notin flight'[e].for[call'[c].id]
    BY DEF Settled
  <2>1. e # s /\ flight'[e] = flight[e]
    BY <1>1
  <2>2. CASE call[c].pc \in Asked
    BY <2>1, <2>2, WaitsOn DEF HeldInv, Settled
  <2>3. CASE call[c].pc \notin Asked
    <3>1. call'[c].id \in Ids
      BY DEF Subjects
    <3> QED
      BY <2>1, <2>3, <3>1 DEF HeldInv, Members
  <2> QED
    BY <2>2, <2>3
<1>6. GetsListed'
  BY <1>1 DEF HeldInv, GetsListed, Types, MapsOK
<1>7. NobodyForgotten'
  <2> SUFFICES ASSUME NEW c \in Calls, call'[c].pc = "waiting" PROVE Holds(c, call[c].id)'
    BY DEF NobodyForgotten, Holds
  <2>1. CASE call'[c].id \in Users /\ c \in pending[call'[c].id]
    BY <1>1, <1>2, <2>1 DEF Holds
  <2>2. CASE call[c].pc \in Asked
    <3>1. call'[c].id = call[c].id /\ Holds(c, call[c].id)
      BY <2>2, WaitsOn, HeldIs DEF HeldInv
    <3>2. CASE call[c].id \in userBatchQueue /\ c \in userPendingResolvers[call[c].id]
      BY <2>1, <3>1, <3>2 DEF Types, BatchOK
    <3>3. CASE \E f \in Flights : flight[f].pc # "free" /\ c \in flight[f].for[call[c].id]
      BY <1>1, <3>1, <3>3 DEF Holds
    <3> QED
      BY <3>1, <3>2, <3>3 DEF Holds
  <2> QED
    BY <2>1, <2>2
<1> QED
  BY <1>4, <1>5, <1>6, <1>7 DEF HeldInv

\* A user is put into the batch, which goes out when it is full.
LEMMA QueueHolds ==
    ASSUME Types, Subjects', HeldInv, \A d \in Calls : Onward(d),
           NEW u \in Users, NEW who \in Calls \cup {Background}, QueueUserFetch(u, who),
           UNCHANGED <<groupRefreshInFlight, disposed>>,
           who \in Calls => call'[who].pc \in Asked /\ call'[who].id = u,
           \A d \in Calls : call'[d].pc = "waiting" => call[d].pc \in Asked \/ d = who
    PROVE  HeldInv'
<1> DEFINE queue == userBatchQueue \cup {u}
           pending == Joined(u, who)
<1>1. /\ pending \in [Users -> SUBSET (Calls \cup {Background})]
      /\ \A w \in Users : userPendingResolvers[w] \subseteq pending[w]
      /\ \A w \in Users : \A d \in pending[w] : d \in userPendingResolvers[w] \/ (d = who /\ w = u)
      /\ who \in pending[u]
  BY DEF Joined, Types, BatchOK
<1>2. \A w \in Users, d \in Calls : d \in pending[w] => call'[d].pc \in Asked
  BY <1>1 DEF HeldInv, Members, Onward
<1>3. CASE FullSize(queue)
  <2>1. FlushUserBatch(queue, pending)
    BY <1>3 DEF QueueUserFetch
  <2> HIDE DEF pending, queue
  <2> QED
    BY <1>1, <1>2, <2>1, FlushHolds
<1>4. CASE ~FullSize(queue)
  <2>1. /\ userBatchQueue' = queue /\ userPendingResolvers' = pending /\ userBatchTimer' = TRUE
        /\ UNCHANGED flight
    BY <1>4 DEF QueueUserFetch
  <2> HIDE DEF pending
  <2>2. Members'
    BY <1>2, <2>1 DEF HeldInv, Members, Onward
  <2>3. Settled'
    <3> SUFFICES ASSUME NEW e \in Flights, NEW c \in Calls, flight[e].kind = "batch",
                        flight[e].pc = "evicting", call'[c].pc = "waiting"
                 PROVE  c \notin flight[e].for[call'[c].id]
      BY <2>1 DEF Settled
    <3>1. CASE call[c].pc \in Asked
      BY <3>1, WaitsOn DEF HeldInv, Settled
    <3>2. CASE call[c].pc \notin Asked
      <4>1. call'[c].id \in Ids
        BY DEF Subjects
      <4> QED
        BY <3>2, <4>1 DEF HeldInv, Members
    <3> QED
      BY <3>1, <3>2
  <2>4. GetsListed'
    BY <2>1 DEF HeldInv, GetsListed
  <2>5. NobodyForgotten'
    <3> SUFFICES ASSUME NEW c \in Calls, call'[c].pc = "waiting" PROVE Holds(c, call[c].id)'
      BY DEF NobodyForgotten, Holds
    <3>1. CASE c = who
      BY <1>1, <2>1, <3>1 DEF Holds
    <3>2. CASE call[c].pc \in Asked
      <4>1. call'[c].id = call[c].id /\ Holds(c, call[c].id)
        BY <3>2, WaitsOn, HeldIs DEF HeldInv
      <4>2. call[c].id \in userBatchQueue => call[c].id \in Users
        BY DEF Types, BatchOK
      <4> QED
        BY <1>1, <2>1, <4>1, <4>2 DEF Holds
    <3> QED
      BY <3>1, <3>2
  <2> QED
    BY <2>2, <2>3, <2>4, <2>5 DEF HeldInv
<1> QED
  BY <1>3, <1>4

\* A caller joins the GET that its group's entry of the map names.
LEMMA JoinHolds ==
    ASSUME Types, Subjects', HeldInv, \A d \in Calls : Onward(d), NEW g \in Groups, NEW c \in Calls,
           Fetches(g), flight' = [flight EXCEPT ![groupRefreshInFlight[g]].for[g] = @ \cup {c}],
           call'[c].pc \in Asked, call'[c].id = g,
           UNCHANGED <<batch, groupRefreshInFlight, disposed>>,
           \A d \in Calls : call'[d].pc = "waiting" => call[d].pc \in Asked \/ d = c
    PROVE  HeldInv'
<1> DEFINE f == groupRefreshInFlight[g]
<1>1. f \in Flights /\ flight[f].pc # "free" /\ flight[f].kind = "get" /\ flight[f].ids = {g}
  BY DEF HeldInv, GetsListed, Fetches, Types, MapsOK
<1>2. flight[f] \in Flight /\ g \in Ids
  BY <1>1 DEF Types, FlightsOK, Ids
<1>3. flight' = [flight EXCEPT ![f].for[g] = @ \cup {c}]
  OBVIOUS
<1> HIDE DEF f
<1>4. /\ flight'[f].kind = flight[f].kind /\ flight'[f].pc = flight[f].pc /\ flight'[f].ids = flight[f].ids
      /\ flight'[f].for[g] = flight[f].for[g] \cup {c}
      /\ \A x \in Ids : x # g => flight'[f].for[x] = flight[f].for[x]
      /\ \A e \in Flights : e # f => flight'[e] = flight[e]
  BY <1>1, <1>2, <1>3 DEF Flight, Types, FlightsOK
<1>5. Members'
  BY <1>4 DEF HeldInv, Members, Onward, batch
<1>6. Settled'
  <2> SUFFICES ASSUME NEW e \in Flights, NEW d \in Calls, flight'[e].kind = "batch",
                      flight'[e].pc = "evicting", call'[d].pc = "waiting"
               PROVE  d \notin flight'[e].for[call'[d].id]
    BY DEF Settled
  <2>1. e # f /\ flight'[e] = flight[e]
    BY <1>1, <1>4
  <2>2. CASE call[d].pc \in Asked
    BY <2>1, <2>2, WaitsOn DEF HeldInv, Settled
  <2>3. CASE call[d].pc \notin Asked
    <3>1. call'[d].id \in Ids
      BY DEF Subjects
    <3> QED
      BY <2>1, <2>3, <3>1 DEF HeldInv, Members
  <2> QED
    BY <2>2, <2>3
<1>7. GetsListed'
  BY <1>1, <1>4 DEF HeldInv, GetsListed, Types, MapsOK
<1>8. NobodyForgotten'
  <2> SUFFICES ASSUME NEW d \in Calls, call'[d].pc = "waiting" PROVE Holds(d, call[d].id)'
    BY DEF NobodyForgotten, Holds
  <2>1. CASE d = c
    BY <1>1, <1>2, <1>4, <2>1 DEF Holds
  <2>2. CASE call[d].pc \in Asked
    <3>1. call'[d].id = call[d].id /\ Holds(d, call[d].id) /\ call'[d].id \in Ids
      BY <2>2, WaitsOn, HeldIs DEF HeldInv, Subjects
    <3> QED
      BY <1>1, <1>4, <3>1 DEF Holds, batch
  <2> QED
    BY <2>1, <2>2
<1> QED
  BY <1>5, <1>6, <1>7, <1>8 DEF HeldInv

LEMMA EndsRests ==
    ASSUME CallsOK, NEW c \in Calls, (\E v : Ends(c, v)) \/ \E pc \in {"written", "found"} : Goes(c, pc)
    PROVE  \A d \in Calls : call'[d].pc = "waiting" => call[d].pc \in Asked
BY DEF CallsOK, CallState, Ends, Goes, Asked

LEMMA GoesWaits ==
    ASSUME CallsOK, NEW c \in Calls, Goes(c, "waiting")
    PROVE  /\ call'[c].pc \in Asked /\ call'[c].id = call[c].id
           /\ \A d \in Calls : call'[d].pc = "waiting" => call[d].pc \in Asked \/ d = c
BY DEF CallsOK, CallState, Goes, Asked

\* A caller sends a request of its own and waits for it.
LEMMA OwnHolds ==
    ASSUME Types, Subjects, Subjects', HeldInv, \A d \in Calls : Onward(d), NEW c \in Calls,
           call[c].pc # "idle", NEW kind, NEW ids,
           Goes(c, "waiting"), Send(kind, ids, For(c, call[c].id)), UNCHANGED <<batch, disposed>>,
           UNCHANGED groupRefreshInFlight
             \/ \E g \in Groups : /\ kind = "get" /\ ids = {g}
                                  /\ groupRefreshInFlight' = [groupRefreshInFlight EXCEPT ![g] = Slot]
    PROVE  HeldInv'
<1> DEFINE who == For(c, call[c].id)
<1>1. call[c].id \in Ids
  BY DEF Subjects
<1>2. \A x \in Ids : who[x] = IF x = call[c].id THEN {c} ELSE {}
  BY <1>1 DEF For, Nobody
<1>3. /\ call'[c].pc \in Asked /\ call'[c].id = call[c].id
      /\ \A d \in Calls : call'[d].pc = "waiting" => call[d].pc \in Asked \/ d = c
  BY GoesWaits DEF Types
<1>4. Send(kind, ids, who)
  OBVIOUS
<1> HIDE DEF who
<1>5. \A x \in Ids, d \in Calls : d \in who[x] => call'[d].pc \in Asked
  BY <1>2, <1>3
<1>6. \A d \in Calls : call'[d].pc = "waiting" => call[d].pc \in Asked \/ d \in who[call'[d].id]
  BY <1>1, <1>2, <1>3
<1> QED
  BY <1>4, <1>5, <1>6, SendHolds

LEMMA ReadsHold ==
    ASSUME Types, Subjects, Subjects', HeldInv, \A d \in Calls : Onward(d),
           NEW c \in Calls, Call(c) \/ Reads(c)
    PROVE  HeldInv'
<1> USE DEF Types
<1> DEFINE x == call[c].id
<1>1. CASE Call(c)
  <2>1. PICK op \in Ops, y \in Ids : Starts(c, op, y)
    BY <1>1, KindsAssumption DEF Call
  <2>2. \A d \in Calls : call'[d].pc = "waiting" => call[d].pc \in Asked
    BY <2>1 DEF CallsOK, CallState, Starts, Idle, Asked
  <2> QED
    BY <1>1, <2>2, QuietHolds DEF Call, batch, refreshes
<1>2. CASE ReadUser(c)
  <2>1. x \in Users /\ call[c].pc = "reading"
    BY <1>2 DEF ReadUser, At, Subjects
  <2>2. CASE Ends(c, row[x]) /\ UNCHANGED <<batch, userRefreshInFlight, flight>>
    BY <1>2, <2>2, EndsRests, QuietHolds DEF ReadUser, batch
  <2>3. CASE Ends(c, row[x]) /\ QueueUserFetch(x, Background)
    <3>1. \A d \in Calls : call'[d].pc = "waiting" => call[d].pc \in Asked
      BY <2>3, EndsRests
    <3> QED
      BY <1>2, <2>1, <2>3, <3>1, QueueHolds, NamesAssumption DEF ReadUser
  <2>4. CASE call' = [call EXCEPT ![c].pc = "waiting", ![c].asked = Served[x]] /\ QueueUserFetch(x, c)
    <3>1. /\ call'[c].pc \in Asked /\ call'[c].id = x
          /\ \A d \in Calls : call'[d].pc = "waiting" => call[d].pc \in Asked \/ d = c
      BY <2>4 DEF CallsOK, CallState, Asked
    <3> QED
      BY <1>2, <2>1, <2>4, <3>1, QueueHolds DEF ReadUser
  <2> QED
    BY <1>2, <2>2, <2>3, <2>4 DEF ReadUser
<1>3. CASE HydrateUser(c)
  <2>1. \A d \in Calls : call'[d].pc = "waiting" => call[d].pc \in Asked
    BY <1>3, EndsRests DEF HydrateUser, CallsOK, CallState, Starts, Idle, Asked
  <2> QED
    BY <1>3, <2>1, QuietHolds DEF HydrateUser, batch, refreshes
<1>4. CASE ReadGroup(c)
  <2>1. x \in Groups /\ call[c].pc = "reading"
    BY <1>4 DEF ReadGroup, At, Subjects
  <2>2. CASE Ends(c, row[x]) /\ UNCHANGED <<flight, groupRefreshInFlight>>
    BY <1>4, <2>2, EndsRests, QuietHolds DEF ReadGroup, batch
  <2>3. CASE Ends(c, row[x]) /\ Get(x, Nobody)
    <3>1. \A d \in Calls : call'[d].pc = "waiting" => call[d].pc \in Asked
      BY <2>3, EndsRests
    <3>2. \A y \in Ids, d \in Calls : d \notin Nobody[y]
      BY DEF Nobody
    <3>3. Send("get", {x}, Nobody) /\ groupRefreshInFlight' = [groupRefreshInFlight EXCEPT ![x] = Slot]
      BY <2>3 DEF Get
    <3> QED
      BY <1>4, <2>1, <3>1, <3>2, <3>3, SendHolds DEF ReadGroup
  <2>4. CASE Goes(c, "waiting") /\ Get(x, For(c, x))
    <3>1. Send("get", {x}, For(c, x)) /\ groupRefreshInFlight' = [groupRefreshInFlight EXCEPT ![x] = Slot]
      BY <2>4 DEF Get
    <3> QED
      BY <1>4, <2>1, <2>4, <3>1, OwnHolds DEF ReadGroup
  <2>5. CASE /\ Fetches(x) /\ Goes(c, "waiting")
             /\ flight' = [flight EXCEPT ![groupRefreshInFlight[x]].for[x] = @ \cup {c}]
             /\ UNCHANGED groupRefreshInFlight
    <3>1. /\ call'[c].pc \in Asked /\ call'[c].id = x
          /\ \A d \in Calls : call'[d].pc = "waiting" => call[d].pc \in Asked \/ d = c
      BY <2>5, GoesWaits
    <3> QED
      BY <1>4, <2>1, <2>5, <3>1, JoinHolds DEF ReadGroup
  <2> QED
    BY <1>4, <2>2, <2>3, <2>4, <2>5 DEF ReadGroup
<1>5. CASE ReadRows(c)
  <2>1. CASE Ends(c, row[x]) /\ UNCHANGED flight
    BY <1>5, <2>1, EndsRests, QuietHolds DEF ReadRows, batch, refreshes
  <2>2. CASE \E ids : Send("list", ids, For(c, x)) /\ Goes(c, "waiting")
    BY <1>5, <2>2, OwnHolds DEF ReadRows, refreshes
  <2> QED
    BY <1>5, <2>1, <2>2 DEF ReadRows
<1>6. CASE ListGroups(c)
  BY <1>6, OwnHolds DEF ListGroups, At, refreshes
<1> QED
  BY <1>1, <1>2, <1>3, <1>4, <1>5, <1>6 DEF Reads

LEMMA WritesHold ==
    ASSUME Types, Subjects, Subjects', HeldInv, \A d \in Calls : Onward(d),
           NEW c \in Calls, Writes(c)
    PROVE  HeldInv'
<1> USE DEF Types
<1>1. CASE ServerWrites(c)
  <2>1. \A d \in Calls : call'[d].pc = "waiting" => call[d].pc \in Asked
    <3>1. CASE Ends(c, None)
      BY <3>1, EndsRests
    <3>2. CASE call' = [call EXCEPT ![c].pc = "written", ![c].asked = version[call[c].id] + 1]
      BY <3>2 DEF CallsOK, CallState, Asked
    <3> QED
      BY <1>1, <3>1, <3>2 DEF ServerWrites
  <2> QED
    BY <1>1, <2>1, QuietHolds DEF ServerWrites, batch, refreshes
<1>2. CASE WriteFails(c) \/ FindRow(c) \/ DropRow(c) \/ KeepCreated(c)
  <2>1. \A d \in Calls : call'[d].pc = "waiting" => call[d].pc \in Asked
    BY <1>2, EndsRests DEF WriteFails, FindRow, DropRow, KeepCreated
  <2> QED
    BY <1>2, <2>1, QuietHolds DEF WriteFails, FindRow, DropRow, KeepCreated, batch, refreshes
<1>3. CASE Refetch(c)
  BY <1>3, OwnHolds DEF Refetch, OwnGet, refreshes
<1> QED
  BY <1>1, <1>2, <1>3 DEF Writes

LEMMA AnswersHold ==
    ASSUME Types, Subjects, HeldInv, \A d \in Calls : Onward(d), NEW f \in Flights, Answer(f)
    PROVE  HeldInv'
<1> USE DEF Types
<1>0. flight[f] \in Flight
  BY DEF FlightsOK
<1>1. ASSUME UNCHANGED call PROVE \A d \in Calls : call'[d].pc = "waiting" => call[d].pc \in Asked
  BY <1>1 DEF Asked
<1>2. ASSUME NEW pc \in {"storing", "evicting"}, NEW todo, Does(f, pc, todo)
      PROVE  \E new : /\ flight' = [flight EXCEPT ![f] = new]
                      /\ new.for = flight[f].for /\ new.kind = flight[f].kind
                      /\ new.ids = flight[f].ids /\ new.pc = pc
  <2> DEFINE new == [flight[f] EXCEPT !.pc = pc, !.todo = todo]
  <2>1. flight' = [flight EXCEPT ![f] = new]
    BY <1>2 DEF Does
  <2>2. new.for = flight[f].for /\ new.kind = flight[f].kind /\ new.ids = flight[f].ids /\ new.pc = pc
    BY <1>0 DEF Flight
  <2> QED
    BY <2>1, <2>2
\* The request goes on and nobody is told.
<1>3. ASSUME NEW pc \in {"storing", "evicting"}, NEW todo, Does(f, pc, todo),
             UNCHANGED <<call, batch, refreshes, disposed>>,
             flight[f].kind # "batch" \/ pc = "storing" \/ flight[f].pc = "evicting"
      PROVE  HeldInv'
  <2>1. PICK new : /\ flight' = [flight EXCEPT ![f] = new]
                   /\ new.for = flight[f].for /\ new.kind = flight[f].kind
                   /\ new.ids = flight[f].ids /\ new.pc = pc
    BY <1>2, <1>3
  <2>2. new # Free
    BY <2>1 DEF Free
  <2>3. new.kind = "batch" /\ new.pc = "evicting"
          => \A d \in Calls : call'[d].pc = "waiting" => d \notin flight[f].for[call[d].id]
    BY <1>3, <2>1 DEF HeldInv, Settled
  <2>4. /\ UNCHANGED batch /\ UNCHANGED disposed /\ UNCHANGED groupRefreshInFlight
        /\ \A d \in Calls : call'[d].pc = "waiting" => call[d].pc \in Asked
    BY <1>1, <1>3 DEF refreshes
  <2> QED
    BY <2>1, <2>2, <2>3, <2>4, AnswerHolds
\* The request ends, and whoever waits did not wait for it.
<1>4. ASSUME Frees(f), UNCHANGED <<batch, disposed>>,
             \A d \in Calls : call'[d].pc = "waiting" => call[d].pc = "waiting" /\ d \notin flight[f].for[call[d].id],
             groupRefreshInFlight' = Unlisted(f)
               \/ (UNCHANGED groupRefreshInFlight /\ flight[f].kind # "get")
      PROVE  HeldInv'
  <2>1. flight' = [flight EXCEPT ![f] = Free] /\ \A d \in Calls : call'[d].pc = "waiting" => call[d].pc \in Asked
    BY <1>4 DEF Frees, Asked
  <2> QED
    BY <1>4, <2>1, AnswerHolds
<1>5. CASE ServerReads(f)
  <2>0. PICK left \in SUBSET flight[f].ids :
             flight' = [flight EXCEPT ![f] = [flight[f] EXCEPT !.pc = "back", !.reply = Without(left)]]
    BY <1>5, ReadsReply DEF Types
  <2> DEFINE new == [flight[f] EXCEPT !.pc = "back", !.reply = Without(left)]
  <2>1. /\ flight' = [flight EXCEPT ![f] = new]
        /\ new.for = flight[f].for /\ new.kind = flight[f].kind /\ new.ids = flight[f].ids /\ new.pc = "back"
    BY <1>0, <2>0 DEF Flight
  <2> HIDE DEF new
  <2>2. new # Free
    BY <2>1 DEF Free
  <2>3. /\ UNCHANGED batch /\ UNCHANGED disposed /\ UNCHANGED groupRefreshInFlight
        /\ \A d \in Calls : call'[d].pc = "waiting" => call[d].pc \in Asked
    BY <1>1, <1>5 DEF ServerReads, refreshes
  <2> QED
    BY <2>1, <2>2, <2>3, AnswerHolds
<1>6. CASE BatchAnswered(f)
  BY <1>3, <1>6 DEF BatchAnswered
<1>7. CASE StoreUser(f)
  BY <1>3, <1>7 DEF StoreUser
<1>8. CASE BatchResolved(f)
  <2>1. \A d \in Calls : call'[d].pc = "waiting" => call[d].pc = "waiting" /\ d \notin flight[f].for[call[d].id]
    BY <1>8, ToldOnward DEF BatchResolved
  <2>2. /\ UNCHANGED <<batch, disposed>> /\ UNCHANGED groupRefreshInFlight /\ flight[f].kind # "get"
        /\ Frees(f) \/ Does(f, "evicting", Missing(f))
    BY <1>8 DEF BatchResolved, Is
  <2>3. CASE Does(f, "evicting", Missing(f))
    <3>1. PICK new : /\ flight' = [flight EXCEPT ![f] = new]
                     /\ new.for = flight[f].for /\ new.kind = flight[f].kind
                     /\ new.ids = flight[f].ids /\ new.pc = "evicting"
      BY <1>2, <2>3
    <3>2. new # Free /\ new.pc # "free"
      BY <3>1 DEF Free
    <3>3. \A d \in Calls : call'[d].pc = "waiting" => call[d].pc \in Asked
      BY <2>1 DEF Asked
    <3> QED
      BY <2>1, <2>2, <3>1, <3>2, <3>3, AnswerHolds
  <2> QED
    BY <1>4, <2>1, <2>2, <2>3
<1>9. CASE EvictUser(f)
  <2>1. PICK u \in flight[f].todo : EvictUser(f)!(u)
    BY <1>9 DEF EvictUser
  <2>2. flight[f].kind = "batch" /\ flight[f].pc = "evicting"
    BY <2>1 DEF Is
  <2>3. CASE Frees(f)
    <3>1. \A d \in Calls : call'[d].pc = "waiting" => call[d].pc = "waiting" /\ d \notin flight[f].for[call[d].id]
      BY <2>1, <2>2 DEF HeldInv, Settled
    <3> QED
      BY <1>4, <2>1, <2>2, <2>3, <3>1 DEF refreshes
  <2>4. CASE Does(f, "evicting", flight[f].todo \ {u})
    BY <1>3, <2>1, <2>2, <2>4
  <2> QED
    BY <2>1, <2>3, <2>4
<1>10. CASE GroupAnswered(f)
  BY <1>3, <1>10 DEF GroupAnswered, Is
<1>11. CASE \E v : GroupSettles(f, v) /\ UNCHANGED <<batch, disposed>>
  BY <1>4, <1>11, SettleOnward DEF GroupSettles
<1>12. CASE /\ \E v : call' = Told(flight[f].for, v)
            /\ Frees(f) /\ flight[f].kind # "get"
            /\ UNCHANGED <<batch, disposed>> /\ UNCHANGED groupRefreshInFlight
  BY <1>4, <1>12, ToldOnward
<1> QED
  BY <1>5, <1>6, <1>7, <1>8, <1>9, <1>10, <1>11, <1>12
  DEF Answer, GroupWritten, Listed, RequestFails, Is, refreshes

LEMMA RestHolds ==
    ASSUME Types, Subjects', HeldInv, \A d \in Calls : Onward(d), Rest
    PROVE  HeldInv'
<1>1. \A d \in Calls : call'[d].pc = "waiting" => call[d].pc \in Asked
  BY DEF Rest, TimerFires, TombstoneExpires, RowExpires, ClearCache, ServerChanges, Dispose, Asked
<1>2. CASE TimerFires /\ userBatchQueue = {}
  <2>1. \A u \in Users : userPendingResolvers[u] = {}
    BY <1>2 DEF Types, BatchOK
  <2>2. /\ UNCHANGED <<call, flight, userBatchQueue, userPendingResolvers, groupRefreshInFlight>>
    BY <1>2 DEF TimerFires, refreshes
  <2>3. \A c, x : Holds(c, x) => Holds(c, x)'
    BY <1>2, <2>2 DEF Holds
  <2> QED
    BY <1>2, <2>1, <2>2, <2>3 DEF HeldInv, Members, Settled, GetsListed, NobodyForgotten, Holds
<1>3. CASE TimerFires /\ userBatchQueue # {}
  <2>1. FlushUserBatch(userBatchQueue, userPendingResolvers) /\ UNCHANGED <<call, groupRefreshInFlight>>
    BY <1>3 DEF TimerFires, refreshes
  <2>2. \A w \in Users, d \in Calls : d \in userPendingResolvers[w] => call'[d].pc \in Asked
    BY <2>1 DEF HeldInv, Members
  <2> QED
    BY <1>1, <2>1, <2>2, FlushHolds DEF Types, BatchOK
<1>4. CASE TombstoneExpires \/ RowExpires \/ ClearCache \/ ServerChanges
  BY <1>1, <1>4, QuietHolds DEF TombstoneExpires, RowExpires, ClearCache, ServerChanges, batch, refreshes
<1>5. CASE Dispose
  BY <1>1, <1>5, QuietHolds DEF Dispose, refreshes
<1> QED
  BY <1>2, <1>3, <1>4, <1>5 DEF Rest

LEMMA InitHeld == Init => HeldInv
<1> SUFFICES ASSUME Init PROVE HeldInv
  OBVIOUS
<1>1. \A c \in Calls : call[c].pc = "idle"
  BY DEF Init, Idle
<1>2. \A f \in Flights, x \in Ids : flight[f].for[x] = {}
  BY DEF Init, Free, Nobody
<1>3. \A f \in Flights : flight[f].pc = "free"
  BY DEF Init, Free
<1> QED
  BY <1>1, <1>2, <1>3 DEF Init, HeldInv, Members, Settled, GetsListed, NobodyForgotten

LEMMA NextHolds == TypeInv /\ HeldInv /\ [Next]_vars => HeldInv'
<1> SUFFICES ASSUME TypeInv, HeldInv, [Next]_vars PROVE HeldInv'
  OBVIOUS
<1>1. Types /\ Subjects
  BY TypeParts DEF TypeInv
<1>2. CASE Next
  <2>1. (\A d \in Calls : Onward(d)) /\ Subjects'
    BY <1>1, <1>2, StepsOnward
  <2> QED
    BY <1>1, <1>2, <2>1, ReadsHold, WritesHold, AnswersHold, RestHolds DEF Next, Rest
<1>3. CASE UNCHANGED vars
  <2>1. UNCHANGED <<call, flight, batch, groupRefreshInFlight, disposed>>
    BY <1>3 DEF vars, refreshes, server
  <2> QED
    BY <2>1 DEF HeldInv, Members, Settled, GetsListed, NobodyForgotten, batch
<1> QED
  BY <1>2, <1>3

\* Whoever waits for a user or a group is in the batch whose timer runs, or in a
\* request that is out, however batches, GETs, failures and dispose overlap.
THEOREM NobodyForgottenAlways == Spec => []NobodyForgotten
<1>1. HeldInv => NobodyForgotten
  BY DEF HeldInv
<1> QED
  BY <1>1, InitTypes, NextKeepsTypes, InitHeld, NextHolds, PTL DEF Spec

-----------------------------------------------------------------------------
\* What a caller may be told.

\* What the operation of c asks for is there, and was when it asked.
AsksForIt(c) ==
    /\ call[c].pc = "reading" => call[c].asked = Gone
    /\ call[c].pc # "idle" => call[c].asked <= version[call[c].id]
    /\ call[c].pc # "idle" /\ call[c].op \in {"group", "update"} => version[call[c].id] # Gone
    /\ call[c].pc = "written" => version[call[c].id] # Gone
    /\ call[c].pc = "fallback" => call[c].op = "create"

\* Users exist; who is gone has been gone, and so has who has a tombstone.
GoneOnce == (\A u \in Users : version[u] # Gone) /\ gone \subseteq wasGone
AskInv == GoneOnce /\ \A c \in Calls : AsksForIt(c)

Grown ==
    \A x \in Ids : /\ version[x] \in Nat /\ version'[x] \in Nat /\ version[x] <= version'[x]
                   /\ version[x] # Gone => version'[x] # Gone

\* The server forgets neither versions nor who has been gone.
LEMMA Grows ==
    ASSUME Types, Types', Subjects, Next
    PROVE  Grown /\ wasGone \subseteq wasGone'
<1> USE DEF Grown
<1>0. \A x \in Ids : version[x] \in Nat /\ version'[x] \in Nat
  BY BatchAssumption DEF Types, ServerOK, Versions
<1>1. CASE UNCHANGED server
  BY <1>0, <1>1 DEF server
<1>4. CASE \E f \in Flights : ServerReads(f)
  <2>1. UNCHANGED version /\ wasGone \subseteq wasGone'
    BY <1>4 DEF ServerReads
  <2> QED
    BY <1>0, <2>1
<1>2. CASE \E c \in Calls : ServerWrites(c)
  <2>1. PICK c \in Calls : ServerWrites(c)
    BY <1>2
  <2>2. \A x \in Ids : version'[x] = IF x = call[c].id THEN version[x] + 1 ELSE version[x]
    BY <2>1 DEF ServerWrites, Types, ServerOK
  <2> QED
    BY <1>0, <2>1, <2>2 DEF ServerWrites, Gone
<1>3. CASE ServerChanges
  <2>1. PICK x \in Ids : ServerChanges!2!(x)
    BY <1>3 DEF ServerChanges
  <2>2. wasGone \subseteq wasGone'
    BY <2>1
  <2>3. UNCHANGED version \/ version' = [version EXCEPT ![x] = @ + 1]
    BY <2>1
  <2>4. \A y \in Ids : version'[y] = version[y] \/ version'[y] = version[y] + 1
    BY <2>3 DEF Types, ServerOK
  <2> QED
    BY <1>0, <2>2, <2>4 DEF Gone
<1> QED
  BY <1>1, <1>2, <1>3, <1>4 DEF Next, Reads, Writes, Answer, Call, ReadUser, HydrateUser, ReadGroup, ReadRows, ListGroups,
     WriteFails, FindRow, DropRow, Refetch, KeepCreated, BatchAnswered, StoreUser, BatchResolved,
     EvictUser, GroupAnswered, GroupWritten, Listed, RequestFails,
     TimerFires, TombstoneExpires, RowExpires, ClearCache, Dispose, server

LEMMA StepsGoneOnce ==
    ASSUME Types, Types', Subjects, GoneOnce, Next
    PROVE  GoneOnce'
<1>1. \A u \in Users : version'[u] # Gone
  BY Grows DEF GoneOnce, Grown, Ids
<1>2. CASE UNCHANGED gone /\ wasGone \subseteq wasGone'
  BY <1>1, <1>2 DEF GoneOnce
<1>3. CASE ServerChanges
  BY <1>1, <1>3 DEF GoneOnce, ServerChanges
<1> QED
  BY <1>2, <1>3 DEF Next, Reads, Writes, Answer, Call, ReadUser, HydrateUser, ReadGroup, ReadRows, ListGroups,
     ServerWrites, WriteFails, FindRow, DropRow, Refetch, KeepCreated, ServerReads, BatchAnswered, StoreUser, BatchResolved,
     EvictUser, GroupAnswered, GroupWritten, Listed, RequestFails,
     TimerFires, TombstoneExpires, RowExpires, ClearCache, Dispose, server

\* A call that goes on with the same question, or whose answer has come.
LEMMA GoesAsking ==
    ASSUME Types, Subjects, NEW c \in Calls, AsksForIt(c),
           Grown,
           call[c].pc # "idle" => call'[c].id = call[c].id,
           call'[c].op = call[c].op, call'[c].asked = call[c].asked,
           \/ call'[c].pc = call[c].pc
           \/ /\ call[c].pc # "idle"
              /\ call'[c].pc \in {"waiting", "found", "done"} \/ (call'[c].pc = "fallback" /\ call[c].op = "create")
    PROVE  AsksForIt(c)'
<1>1. call[c].pc # "idle" => call[c].id \in Ids
  BY DEF Subjects
<1>2. call[c].asked \in Nat
  BY BatchAssumption DEF Types, CallsOK, CallState, Versions
<1> QED
  BY <1>1, <1>2 DEF AsksForIt, Grown

LEMMA OthersAsk ==
    ASSUME Types, Subjects, \A d \in Calls : AsksForIt(d), Grown, NEW c \in Calls, AsksForIt(c)',
           \A d \in Calls : d # c => call'[d] = call[d]
    PROVE  \A d \in Calls : AsksForIt(d)'
BY GoesAsking

LEMMA StepsAsk ==
    ASSUME Types, Types', Subjects, AskInv, Next
    PROVE  AskInv'
<1> USE DEF Types
<1>0. Grown /\ GoneOnce' /\ \A d \in Calls : AsksForIt(d)
  BY Grows, StepsGoneOnce DEF AskInv
<1> SUFFICES \A d \in Calls : AsksForIt(d)'
  BY <1>0 DEF AskInv
<1>1. CASE UNCHANGED call
  BY <1>0, <1>1, GoesAsking
<1>2. ASSUME NEW c \in Calls, call[c].pc # "idle", NEW v,
             Ends(c, v) \/ Goes(c, "waiting") \/ Goes(c, "found")
      PROVE  \A d \in Calls : AsksForIt(d)'
  <2>1. /\ \A d \in Calls : d # c => call'[d] = call[d]
        /\ call'[c].id = call[c].id /\ call'[c].op = call[c].op /\ call'[c].asked = call[c].asked
        /\ call'[c].pc \in {"waiting", "found", "done"}
    BY <1>2 DEF Ends, Goes, CallsOK, CallState
  <2>2. AsksForIt(c)'
    BY <1>0, <1>2, <2>1, GoesAsking
  <2> QED
    BY <1>0, <2>1, <2>2, OthersAsk
<1>3. ASSUME NEW c \in Calls, NEW op \in Ops, NEW x \in Ids, Starts(c, op, x),
             op \in {"group", "update"} => version[x] # Gone
      PROVE  \A d \in Calls : AsksForIt(d)'
  <2>1. /\ \A d \in Calls : d # c => call'[d] = call[d]
        /\ call'[c].id = x /\ call'[c].op = op /\ call'[c].asked = Gone /\ call'[c].pc \in {"reading", "done"}
    BY <1>3 DEF Starts, Idle, CallsOK, CallState
  <2>2. AsksForIt(c)'
    BY <1>0, <1>3, <2>1 DEF AsksForIt, Grown, Gone
  <2> QED
    BY <1>0, <2>1, <2>2, OthersAsk
<1>4. ASSUME NEW c \in Calls, ReadUser(c), call' = [call EXCEPT ![c].pc = "waiting", ![c].asked = Served[call[c].id]]
      PROVE  \A d \in Calls : AsksForIt(d)'
  <2>1. call[c].id \in Users /\ call[c].id \in Ids /\ call[c].op = "user"
    BY <1>4 DEF ReadUser, At, Subjects
  <2>2. Served[call[c].id] <= version[call[c].id]
    BY <1>0, <2>1 DEF Served, Grown, Gone
  <2>3. /\ \A d \in Calls : d # c => call'[d] = call[d]
        /\ call'[c].id = call[c].id /\ call'[c].op = call[c].op /\ call'[c].pc = "waiting"
        /\ call'[c].asked = Served[call[c].id] /\ UNCHANGED version
    BY <1>4 DEF ReadUser, server, CallsOK, CallState
  <2>4. AsksForIt(c)'
    BY <2>1, <2>2, <2>3 DEF AsksForIt
  <2> QED
    BY <1>0, <2>3, <2>4, OthersAsk
<1>5. ASSUME NEW c \in Calls, ServerWrites(c),
             call' = [call EXCEPT ![c].pc = "written", ![c].asked = version[call[c].id] + 1]
      PROVE  \A d \in Calls : AsksForIt(d)'
  <2>1. call[c].id \in Ids
    BY <1>5 DEF ServerWrites, Subjects
  <2>2. /\ \A d \in Calls : d # c => call'[d] = call[d]
        /\ call'[c].id = call[c].id /\ call'[c].pc = "written"
        /\ call'[c].asked = version[call[c].id] + 1
    BY <1>5 DEF CallsOK, CallState
  <2>3. version'[call[c].id] = version[call[c].id] + 1
    BY <1>5, <2>1 DEF ServerWrites, ServerOK
  <2>4. AsksForIt(c)'
    BY <1>0, <2>1, <2>2, <2>3 DEF AsksForIt, Grown, Gone
  <2> QED
    BY <1>0, <2>2, <2>4, OthersAsk
<1>6. ASSUME NEW f \in Flights, NEW v, call' = Told(flight[f].for, v) \/ GroupSettles(f, v)
      PROVE  \A d \in Calls : AsksForIt(d)'
  <2> SUFFICES ASSUME NEW d \in Calls PROVE AsksForIt(d)'
    OBVIOUS
  <2>1. /\ call'[d].id = call[d].id /\ call'[d].op = call[d].op /\ call'[d].asked = call[d].asked
        /\ \/ call'[d].pc = call[d].pc
           \/ call[d].pc = "waiting" /\ (call'[d].pc = "done" \/ (call'[d].pc = "fallback" /\ call[d].op = "create"))
    <3>1. call[d] \in CallState
      BY DEF CallsOK
    <3>2. CASE GroupSettles(f, v) /\ d \in Fallback(f, v)
      BY <3>1, <3>2 DEF GroupSettles, Fallback, Creating, CallState
    <3>3. CASE call'[d] = Told(flight[f].for, v)[d]
      BY <3>1, <3>3 DEF Told, CallState
    <3> QED
      BY <1>6, <3>2, <3>3 DEF GroupSettles
  <2> QED
    BY <1>0, <2>1, GoesAsking
<1>7. ASSUME NEW c \in Calls, Call(c) PROVE \A d \in Calls : AsksForIt(d)'
  <2>1. PICK op \in Ops, x \in Ids : Starts(c, op, x) /\ (op \in {"group", "update"} => version[x] # Gone)
    BY <1>7, KindsAssumption DEF Call
  <2> QED
    BY <1>3, <2>1
<1>8. ASSUME NEW c \in Calls, Reads(c) \/ Writes(c) PROVE \A d \in Calls : AsksForIt(d)'
  <2>1. call[c].pc # "idle"
    BY <1>8 DEF Reads, Writes, ReadUser, HydrateUser, ReadGroup, ReadRows, ListGroups, ServerWrites, WriteFails,
       FindRow, DropRow, Refetch, KeepCreated, At
  <2>2. CASE Reads(c)
    <3>1. CASE HydrateUser(c)
      <4>1. call[c].id \in Ids
        BY <3>1 DEF HydrateUser, At, Subjects
      <4> QED
        BY <1>2, <1>3, <2>1, <3>1, <4>1 DEF HydrateUser, Ops
    <3>2. CASE ReadUser(c)
      BY <1>2, <1>4, <2>1, <3>2 DEF ReadUser
    <3>3. CASE ReadGroup(c) \/ ReadRows(c) \/ ListGroups(c)
      BY <1>2, <2>1, <3>3 DEF ReadGroup, ReadRows, ListGroups
    <3> QED
      BY <2>2, <3>1, <3>2, <3>3 DEF Reads
  <2>3. CASE Writes(c)
    BY <1>2, <1>5, <2>1, <2>3 DEF Writes, ServerWrites, WriteFails, FindRow, DropRow, Refetch, KeepCreated
  <2> QED
    BY <1>8, <2>2, <2>3
<1>9. ASSUME NEW f \in Flights, Answer(f) PROVE \A d \in Calls : AsksForIt(d)'
  BY <1>1, <1>6, <1>9 DEF Answer, ServerReads, BatchAnswered, StoreUser, BatchResolved,
     EvictUser, GroupAnswered, GroupWritten, Listed, RequestFails
<1>10. CASE Rest
  BY <1>1, <1>10 DEF Rest, TimerFires, TombstoneExpires, RowExpires, ClearCache, ServerChanges, Dispose
<1> QED
  BY <1>7, <1>8, <1>9, <1>10 DEF Next, Rest

\* What a request will answer: it serves callers that asked about what it asks
\* for, and its reply is not older than their questions and true.
Back == {"back", "storing", "evicting"}
Serves(f) ==
    /\ \A x \in Ids, c \in Calls : c \in flight[f].for[x] =>
        /\ call[c].id = x
        /\ flight[f].kind \in {"batch", "get"} => x \in flight[f].ids
        /\ flight[f].kind = "list" => call[c].op \in {"profile", "users", "groups"}
        /\ flight[f].pc \in Back /\ flight[f].reply[x] # Gone => flight[f].reply[x] >= call[c].asked
    /\ flight[f].kind \in {"batch", "get"} =>
        \A x \in flight[f].ids :
            /\ version[x] # Gone
            /\ flight[f].pc \in Back /\ flight[f].reply[x] = Gone => x \in wasGone
BatchServes == \A u \in Users, c \in Calls : c \in userPendingResolvers[u] => call[c].id = u
ServeInv == BatchServes /\ \A f \in Flights : Serves(f)

\* What every step gives the next lemmas.
Stepping == Types /\ Types' /\ Subjects /\ HeldInv /\ AskInv /\ AskInv' /\ ServeInv /\ Grown
            /\ wasGone \subseteq wasGone' /\ (\A d \in Calls : Onward(d)) /\ Subjects'

\* A request that goes on, or that a caller joins who asked for any version.
LEMMA OnServes ==
    ASSUME Stepping, NEW f \in Flights,
           flight'[f].kind = flight[f].kind, flight'[f].ids = flight[f].ids,
           flight'[f].reply = flight[f].reply, flight'[f].pc \in Back => flight[f].pc \in Back,
           \A x \in Ids, c \in Calls : c \in flight'[f].for[x] =>
               \/ c \in flight[f].for[x]
               \/ flight[f].kind = "get" /\ x \in flight[f].ids /\ call'[c].id = x /\ call'[c].asked = Gone
    PROVE  Serves(f)'
<1>1. Serves(f) /\ flight[f] \in Flight
  BY DEF Stepping, ServeInv, Types, FlightsOK
<1>2. flight[f].reply \in [Ids -> Nat] /\ flight[f].ids \subseteq Ids
  BY <1>1, BatchAssumption DEF Flight, Versions
<1>3. \A x \in Ids, c \in Calls : c \in flight[f].for[x] =>
        call'[c].id = call[c].id /\ call'[c].op = call[c].op /\ call'[c].asked = call[c].asked
  BY DEF Stepping, HeldInv, Members, Onward
<1>4. \A x \in Ids, c \in Calls : c \in flight'[f].for[x] =>
        /\ call'[c].id = x
        /\ flight'[f].kind \in {"batch", "get"} => x \in flight'[f].ids
        /\ flight'[f].kind = "list" => call'[c].op \in {"profile", "users", "groups"}
        /\ flight'[f].pc \in Back /\ flight'[f].reply[x] # Gone => flight'[f].reply[x] >= call'[c].asked
  BY <1>1, <1>2, <1>3 DEF Serves, Gone
<1>5. flight'[f].kind \in {"batch", "get"} =>
        \A x \in flight'[f].ids :
            /\ version'[x] # Gone
            /\ flight'[f].pc \in Back /\ flight'[f].reply[x] = Gone => x \in wasGone'
  BY <1>1, <1>2 DEF Serves, Stepping, Grown
<1> QED
  BY <1>4, <1>5 DEF Serves

\* A request that ends, and one that goes out.
LEMMA FreeServes ==
    ASSUME NEW f \in Flights, flight'[f] = Free
    PROVE  Serves(f)'
<1>1. Free.kind = "none" /\ \A x \in Ids : Free.for[x] = {}
  BY DEF Free, Nobody
<1> QED
  BY <1>1 DEF Serves

LEMMA SentServes ==
    ASSUME Stepping, NEW kind, NEW ids, NEW who, Send(kind, ids, who),
           kind \in {"batch", "get"} => ids \subseteq Ids /\ \A x \in ids : version[x] # Gone,
           \A x \in Ids, c \in Calls : c \in who[x] =>
               /\ call'[c].id = x
               /\ kind \in {"batch", "get"} => x \in ids
               /\ kind = "list" => call'[c].op \in {"profile", "users", "groups"}
    PROVE  \A f \in Flights : Serves(f)'
<1>1. PICK s \in Flights :
        /\ flight'[s].kind = kind /\ flight'[s].pc = "sent"
        /\ flight'[s].ids = ids /\ flight'[s].for = who
        /\ \A e \in Flights : e # s => flight'[e] = flight[e]
  BY SendIs DEF Stepping
<1>2. Serves(s)'
  BY <1>1 DEF Serves, Back, Stepping, Grown
<1>3. \A e \in Flights : e # s => Serves(e)'
  BY <1>1, OnServes
<1> QED
  BY <1>2, <1>3

\* A batch goes out.
LEMMA FlushServes ==
    ASSUME Stepping, NEW pending \in [Users -> SUBSET (Calls \cup {Background})],
           NEW queue, queue = {w \in Users : pending[w] # {}}, FlushUserBatch(queue, pending),
           \A w \in Users, d \in Calls : d \in pending[w] => call'[d].id = w
    PROVE  ServeInv'
<1> DEFINE who == [x \in Ids |-> IF x \in Users THEN pending[x] ELSE {}]
<1>1. Send("batch", queue, who) /\ userPendingResolvers' = [u \in Users |-> {}]
  BY DEF FlushUserBatch
<1>2. /\ \A x \in Ids : x \notin Users => who[x] = {}
      /\ \A x \in Users : who[x] = pending[x]
  BY DEF Ids
<1>3. queue \subseteq Ids /\ \A x \in queue : version[x] # Gone
  BY DEF Stepping, AskInv, GoneOnce, Ids
<1> HIDE DEF who
<1>4. \A x \in Ids, c \in Calls : c \in who[x] => call'[c].id = x /\ x \in queue
  BY <1>2
<1>5. \A f \in Flights : Serves(f)'
  BY <1>1, <1>3, <1>4, SentServes
<1> QED
  BY <1>1, <1>5 DEF ServeInv, BatchServes

LEMMA QueueServes ==
    ASSUME Stepping, NEW u \in Users, NEW who \in Calls \cup {Background}, QueueUserFetch(u, who),
           who \in Calls => call'[who].id = u
    PROVE  ServeInv'
<1> DEFINE queue == userBatchQueue \cup {u}
           pending == Joined(u, who)
<1>1. /\ pending \in [Users -> SUBSET (Calls \cup {Background})]
      /\ \A w \in Users : \A d \in pending[w] : d \in userPendingResolvers[w] \/ (d = who /\ w = u)
      /\ queue = {w \in Users : pending[w] # {}}
  BY DEF Joined, Stepping, Types, BatchOK
<1>2. \A w \in Users, d \in Calls : d \in userPendingResolvers[w] => call'[d].id = w
  BY DEF Stepping, HeldInv, Members, Onward, ServeInv, BatchServes
<1>3. \A w \in Users, d \in Calls : d \in pending[w] => call'[d].id = w
  BY <1>1, <1>2
<1>4. CASE FullSize(queue)
  <2>1. FlushUserBatch(queue, pending)
    BY <1>4 DEF QueueUserFetch
  <2> HIDE DEF queue, pending
  <2> QED
    BY <1>1, <1>3, <2>1, FlushServes
<1>5. CASE ~FullSize(queue)
  <2>1. userPendingResolvers' = pending /\ UNCHANGED flight
    BY <1>5 DEF QueueUserFetch
  <2> HIDE DEF queue, pending
  <2>2. \A f \in Flights : Serves(f)'
    BY <2>1, OnServes
  <2> QED
    BY <1>3, <2>1, <2>2 DEF ServeInv, BatchServes
<1> QED
  BY <1>4, <1>5

\* Who is in the batch goes on asking about the same user.
LEMMA QuietServes ==
    ASSUME Stepping, UNCHANGED userPendingResolvers
    PROVE  BatchServes'
BY DEF Stepping, HeldInv, Members, Onward, ServeInv, BatchServes

\* A caller sends a request of its own.
LEMMA OwnServes ==
    ASSUME Stepping, NEW c \in Calls, call[c].pc # "idle", Goes(c, "waiting"), UNCHANGED batch,
           NEW kind \in {"get", "list"}, NEW ids, Send(kind, ids, For(c, call[c].id)),
           kind = "get" => ids = {call[c].id} /\ version[call[c].id] # Gone,
           kind = "list" => call[c].op \in {"profile", "users", "groups"}
    PROVE  ServeInv'
<1> DEFINE who == For(c, call[c].id)
<1>1. call[c].id \in Ids /\ call'[c].id = call[c].id /\ call'[c].op = call[c].op
  BY DEF Stepping, Subjects, Types, CallsOK, CallState, Goes
<1>2. \A x \in Ids : who[x] = IF x = call[c].id THEN {c} ELSE {}
  BY <1>1 DEF For, Nobody
<1>3. Send(kind, ids, who)
  OBVIOUS
<1> HIDE DEF who
<1>4. \A x \in Ids, d \in Calls : d \in who[x] => d = c /\ x = call[c].id
  BY <1>2
<1>5. \A f \in Flights : Serves(f)'
  BY <1>1, <1>3, <1>4, SentServes
<1> QED
  BY <1>5, QuietServes DEF ServeInv, batch

LEMMA ReadsServe ==
    ASSUME Stepping, NEW c \in Calls, Call(c) \/ Reads(c)
    PROVE  ServeInv'
<1> DEFINE x == call[c].id
<1>0. ASSUME UNCHANGED <<flight, userPendingResolvers>> PROVE ServeInv'
  BY <1>0, OnServes, QuietServes DEF ServeInv
<1>1. CASE Call(c) \/ HydrateUser(c)
  BY <1>0, <1>1 DEF Call, HydrateUser, batch
<1>2. CASE ReadUser(c)
  <2>1. x \in Users
    BY <1>2 DEF ReadUser, At, Stepping, Subjects
  <2>2. CASE UNCHANGED <<batch, flight>>
    BY <1>0, <2>2 DEF batch
  <2>3. CASE QueueUserFetch(x, Background)
    BY <2>1, <2>3, QueueServes, NamesAssumption
  <2>4. CASE call' = [call EXCEPT ![c].pc = "waiting", ![c].asked = Served[x]] /\ QueueUserFetch(x, c)
    <3>1. call'[c].id = x
      BY <2>4 DEF Stepping, Types, CallsOK, CallState
    <3> QED
      BY <2>1, <2>4, <3>1, QueueServes
  <2> QED
    BY <1>2, <2>2, <2>3, <2>4 DEF ReadUser
<1>3. CASE ReadGroup(c)
  <2>1. x \in Groups /\ x \in Ids /\ call[c].pc = "reading" /\ version[x] # Gone /\ call[c].asked = Gone
    BY <1>3 DEF ReadGroup, At, Stepping, Subjects, AskInv, AsksForIt
  <2>2. CASE UNCHANGED flight
    BY <1>0, <1>3, <2>2 DEF ReadGroup, batch
  <2>3. CASE Get(x, Nobody)
    <3>1. Send("get", {x}, Nobody) /\ \A y \in Ids : Nobody[y] = {}
      BY <2>3 DEF Get, Nobody
    <3>2. \A f \in Flights : Serves(f)'
      BY <2>1, <3>1, SentServes
    <3> QED
      BY <1>3, <3>2, QuietServes DEF ReadGroup, batch, ServeInv
  <2>4. CASE Goes(c, "waiting") /\ Get(x, For(c, x))
    BY <1>3, <2>1, <2>4, OwnServes DEF ReadGroup, Get
  <2>5. CASE /\ Fetches(x) /\ Goes(c, "waiting")
             /\ flight' = [flight EXCEPT ![groupRefreshInFlight[x]].for[x] = @ \cup {c}]
    <3>1. PICK f \in Flights : f = groupRefreshInFlight[x]
      BY <2>1, <2>5 DEF Fetches, Stepping, Types, MapsOK
    <3>2. /\ flight[f].kind = "get" /\ flight[f].ids = {x} /\ flight[f] \in Flight
          /\ flight' = [flight EXCEPT ![f].for[x] = @ \cup {c}]
      BY <2>1, <2>5, <3>1 DEF Fetches, Stepping, HeldInv, GetsListed, Types, MapsOK, FlightsOK
    <3>3. /\ flight'[f].kind = flight[f].kind /\ flight'[f].pc = flight[f].pc
          /\ flight'[f].ids = flight[f].ids /\ flight'[f].reply = flight[f].reply
          /\ flight'[f].for[x] = flight[f].for[x] \cup {c}
          /\ \A y \in Ids : y # x => flight'[f].for[y] = flight[f].for[y]
          /\ \A e \in Flights : e # f => flight'[e] = flight[e]
      BY <2>1, <3>1, <3>2 DEF Flight, Stepping, Types, FlightsOK
    <3>4. call'[c].id = x /\ call'[c].asked = Gone
      BY <2>1, <2>5 DEF Goes, Stepping, Types, CallsOK, CallState
    <3>5. \A y \in Ids, d \in Calls : d \in flight'[f].for[y] => d \in flight[f].for[y] \/ (d = c /\ y = x)
      BY <3>3
    <3>6. Serves(f)'
      BY <3>2, <3>3, <3>4, <3>5, OnServes
    <3>7. \A e \in Flights : e # f => Serves(e)'
      BY <3>3, OnServes
    <3> QED
      BY <1>3, <3>6, <3>7, QuietServes DEF ReadGroup, batch, ServeInv
  <2> QED
    BY <1>3, <2>2, <2>3, <2>4, <2>5 DEF ReadGroup
<1>4. CASE ReadRows(c)
  BY <1>0, <1>4, OwnServes DEF ReadRows, batch
<1>5. CASE ListGroups(c)
  BY <1>5, OwnServes DEF ListGroups, At
<1> QED
  BY <1>1, <1>2, <1>3, <1>4, <1>5 DEF Reads

LEMMA WritesServe ==
    ASSUME Stepping, NEW c \in Calls, Writes(c)
    PROVE  ServeInv'
<1>1. CASE UNCHANGED <<flight, batch>>
  BY <1>1, OnServes, QuietServes DEF ServeInv, batch
<1>2. CASE Refetch(c)
  <2>1. version[call[c].id] # Gone
    BY <1>2 DEF Refetch, Stepping, AskInv, AsksForIt
  <2> QED
    BY <1>2, <2>1, OwnServes DEF Refetch, OwnGet
<1> QED
  BY <1>1, <1>2 DEF Writes, ServerWrites, WriteFails, FindRow, DropRow, KeepCreated

LEMMA AnswersServe ==
    ASSUME Stepping, NEW f \in Flights, Answer(f)
    PROVE  ServeInv'
<1>0. flight[f] \in Flight /\ UNCHANGED batch
  BY DEF Answer, ServerReads, BatchAnswered, StoreUser, BatchResolved, EvictUser, GroupAnswered, GroupWritten,
     Listed, RequestFails, Stepping, Types, FlightsOK
<1>1. \A e \in Flights : e # f => flight'[e] = flight[e]
  BY DEF Answer, ServerReads, BatchAnswered, StoreUser, BatchResolved, EvictUser, GroupAnswered, GroupWritten,
     Listed, RequestFails, Does, Frees, GroupSettles, Stepping, Types, FlightsOK
<1>2. \A e \in Flights : e # f => Serves(e)'
  BY <1>1, OnServes
<1> SUFFICES Serves(f)'
  BY <1>0, <1>2, QuietServes DEF ServeInv, batch
<1>3. CASE Frees(f)
  <2>1. flight'[f] = Free
    BY <1>3 DEF Frees, Stepping, Types, FlightsOK
  <2> QED
    BY <2>1, FreeServes
<1>4. ASSUME NEW pc \in {"storing", "evicting"}, NEW todo, Does(f, pc, todo), flight[f].pc \in Back
      PROVE  Serves(f)'
  <2>1. flight'[f] = [flight[f] EXCEPT !.pc = pc, !.todo = todo]
    BY <1>4 DEF Does, Stepping, Types, FlightsOK
  <2>2. /\ flight'[f].kind = flight[f].kind /\ flight'[f].ids = flight[f].ids
        /\ flight'[f].reply = flight[f].reply /\ flight'[f].for = flight[f].for
    BY <1>0, <2>1 DEF Flight
  <2> QED
    BY <1>4, <2>2, OnServes
<1>5. CASE ServerReads(f)
  <2>0. PICK left \in SUBSET flight[f].ids :
             /\ flight' = [flight EXCEPT ![f] = [flight[f] EXCEPT !.pc = "back", !.reply = Without(left)]]
             /\ wasGone' = wasGone \cup left
    BY <1>5, ReadsReply DEF Stepping, Types
  <2> DEFINE answer == Without(left)
  <2>1. flight'[f] = [flight[f] EXCEPT !.pc = "back", !.reply = answer]
    BY <2>0 DEF Stepping, Types, FlightsOK
  <2>2. /\ flight'[f].kind = flight[f].kind /\ flight'[f].ids = flight[f].ids
        /\ flight'[f].reply = answer /\ flight'[f].for = flight[f].for
    BY <1>0, <2>1 DEF Flight
  <2>3. UNCHANGED <<call, version, gone>>
    BY <1>5 DEF ServerReads
  <2>4. flight[f].ids \subseteq Ids
    BY <1>0 DEF Flight
  <2>5. ASSUME NEW x \in Ids PROVE /\ answer[x] # Gone => answer[x] = version[x]
                                   /\ answer[x] = Gone => version[x] = Gone \/ x \in wasGone'
    BY <2>0 DEF Without, Served, Present, Stepping, AskInv, GoneOnce
  <2> HIDE DEF answer
  <2>6. \A c \in Calls, x \in Ids : call[c].id = x /\ call[c].pc # "idle" => call[c].asked <= version[x]
    BY DEF Stepping, AskInv, AsksForIt
  <2>7. \A c \in Calls, x \in Ids : c \in flight[f].for[x] => call[c].pc # "idle"
    BY DEF Stepping, HeldInv, Members, Asked
  <2>8. \A x \in Ids : version[x] \in Nat
    BY DEF Stepping, Grown
  <2>9. Serves(f)
    BY DEF Stepping, ServeInv
  <2>10. \A x \in Ids, c \in Calls : c \in flight'[f].for[x] =>
            /\ call'[c].id = x
            /\ flight'[f].kind \in {"batch", "get"} => x \in flight'[f].ids
            /\ flight'[f].kind = "list" => call'[c].op \in {"profile", "users", "groups"}
            /\ flight'[f].pc \in Back /\ flight'[f].reply[x] # Gone => flight'[f].reply[x] >= call'[c].asked
    <3> SUFFICES ASSUME NEW x \in Ids, NEW c \in Calls, c \in flight[f].for[x]
                 PROVE  /\ call[c].id = x
                        /\ flight[f].kind \in {"batch", "get"} => x \in flight[f].ids
                        /\ flight[f].kind = "list" => call[c].op \in {"profile", "users", "groups"}
                        /\ answer[x] # Gone => answer[x] >= call[c].asked
      BY <2>2, <2>3
    <3>1. call[c].asked \in Nat
      BY BatchAssumption DEF Stepping, Types, CallsOK, CallState, Versions
    <3> QED
      BY <2>5, <2>6, <2>7, <2>8, <2>9, <3>1 DEF Serves
  <2>11. flight'[f].kind \in {"batch", "get"} =>
           \A x \in flight'[f].ids :
             /\ version'[x] # Gone
             /\ flight'[f].pc \in Back /\ flight'[f].reply[x] = Gone => x \in wasGone'
    BY <2>2, <2>3, <2>4, <2>5, <2>9 DEF Serves
  <2> QED
    BY <2>10, <2>11 DEF Serves
<1> QED
  BY <1>3, <1>4, <1>5 DEF Answer, BatchAnswered, StoreUser, BatchResolved, EvictUser, GroupAnswered,
     GroupWritten, Listed, RequestFails, GroupSettles, Is, Back

LEMMA StepsServe ==
    ASSUME Stepping, Next
    PROVE  ServeInv'
<1>1. CASE Rest
  <2>1. CASE UNCHANGED <<flight, userPendingResolvers>>
    BY <2>1, OnServes, QuietServes DEF ServeInv
  <2>2. CASE TimerFires /\ userBatchQueue # {}
    <3>1. FlushUserBatch(userBatchQueue, userPendingResolvers) /\ UNCHANGED call
      BY <2>2 DEF TimerFires
    <3> QED
      BY <3>1, FlushServes DEF Stepping, Types, BatchOK, ServeInv, BatchServes
  <2> QED
    BY <1>1, <2>1, <2>2 DEF Rest, TimerFires, TombstoneExpires, RowExpires, ClearCache, ServerChanges, Dispose, batch
<1> QED
  BY <1>1, ReadsServe, WritesServe, AnswersServe DEF Next, Rest

\* What c was told is true, and not older than its question.
ToldRight(c) ==
    /\ call[c].pc = "done" /\ call[c].got \notin {None, Gone} => call[c].got >= call[c].asked
    /\ call[c].op \in {"user", "group"} /\ call[c].got = Gone => call[c].id \in wasGone
Buries == notFound \subseteq wasGone
RightInv == Buries /\ \A c \in Calls : ToldRight(c)

LEMMA OthersRight ==
    ASSUME Stepping, RightInv, NEW c \in Calls, ToldRight(c)', \A d \in Calls : d # c => call'[d] = call[d]
    PROVE  \A d \in Calls : ToldRight(d)'
BY DEF RightInv, ToldRight, Stepping

\* A tombstone is of somebody whom an answer did not name.
LEMMA StepsBury ==
    ASSUME Stepping, RightInv, Next
    PROVE  Buries'
<1>1. CASE notFound' \subseteq notFound
  BY <1>1 DEF RightInv, Buries, Stepping
<1>2. ASSUME NEW f \in Flights, notFound' = Buried(f), flight[f].kind \in {"batch", "get"}, flight[f].pc \in Back
      PROVE  Buries'
  <2>1. Missing(f) \subseteq wasGone
    BY <1>2 DEF Missing, Found, Stepping, ServeInv, Serves
  <2> QED
    BY <1>2, <2>1 DEF RightInv, Buries, Buried, Stepping
<1>3. ASSUME NEW f \in Flights, Answer(f) PROVE Buries'
  <2>1. CASE BatchResolved(f) \/ GroupAnswered(f)
    BY <1>2, <2>1 DEF BatchResolved, GroupAnswered, Is, Back
  <2> QED
    BY <1>1, <1>3, <2>1 DEF Answer, ServerReads, BatchAnswered, StoreUser, EvictUser,
       GroupWritten, Listed, RequestFails, NoTombstone
<1>4. ASSUME NEW c \in Calls, Call(c) \/ Reads(c) \/ Writes(c) PROVE Buries'
  BY <1>1, <1>4 DEF Call, Reads, Writes, ReadUser, HydrateUser, ReadGroup, ReadRows, ListGroups,
     ServerWrites, WriteFails, FindRow, DropRow, Refetch, KeepCreated
<1>5. CASE Rest
  BY <1>1, <1>5 DEF Rest, TimerFires, TombstoneExpires, RowExpires, ClearCache, ServerChanges, Dispose
<1> QED
  BY <1>3, <1>4, <1>5 DEF Next, Rest

\* What a request tells.
LEMMA TellsRight ==
    ASSUME Stepping, RightInv, NEW f \in Flights, NEW v, call' = Told(flight[f].for, v) \/ GroupSettles(f, v),
           \/ v = [x \in Ids |-> None]
           \/ v = flight[f].reply /\ flight[f].pc \in Back /\ flight[f].kind \in {"batch", "get", "list"}
    PROVE  \A d \in Calls : ToldRight(d)'
<1> SUFFICES ASSUME NEW d \in Calls PROVE ToldRight(d)'
  OBVIOUS
<1>0. ToldRight(d) /\ wasGone \subseteq wasGone' /\ None # Gone
  BY NoneAssumption DEF RightInv, Stepping, Gone
<1>1. \/ call'[d] = call[d]
      \/ call'[d] = [call[d] EXCEPT !.pc = "fallback"]
      \/ /\ call[d].pc = "waiting" /\ d \in flight[f].for[call[d].id]
         /\ call'[d] = [call[d] EXCEPT !.pc = "done", !.got = v[call[d].id]]
  BY DEF GroupSettles, Told
<1>2. call[d] \in CallState
  BY DEF Stepping, Types, CallsOK
<1>3. CASE call'[d] = call[d] \/ call'[d] = [call[d] EXCEPT !.pc = "fallback"]
  BY <1>0, <1>2, <1>3 DEF ToldRight, CallState
<1>4. CASE /\ call[d].pc = "waiting" /\ d \in flight[f].for[call[d].id]
           /\ call'[d] = [call[d] EXCEPT !.pc = "done", !.got = v[call[d].id]]
  <2>1. /\ call'[d].pc = "done" /\ call'[d].got = v[call[d].id] /\ call'[d].op = call[d].op
        /\ call'[d].id = call[d].id /\ call'[d].asked = call[d].asked
    BY <1>2, <1>4 DEF CallState
  <2>2. call[d].id \in Ids
    BY <1>4 DEF Stepping, Subjects
  <2>3. CASE v = [x \in Ids |-> None]
    BY <1>0, <2>1, <2>2, <2>3 DEF ToldRight
  <2>4. CASE v = flight[f].reply /\ flight[f].pc \in Back /\ flight[f].kind \in {"batch", "get", "list"}
    <3>1. Serves(f)
      BY DEF Stepping, ServeInv
    <3>2. v[call[d].id] # Gone => v[call[d].id] >= call[d].asked
      BY <1>4, <2>2, <2>4, <3>1 DEF Serves
    <3>3. call[d].op \in {"user", "group"} /\ v[call[d].id] = Gone => call[d].id \in wasGone
      BY <1>4, <2>2, <2>4, <3>1 DEF Serves
    <3> QED
      BY <1>0, <2>1, <3>2, <3>3 DEF ToldRight
  <2> QED
    BY <1>4, <2>3, <2>4 DEF Stepping
<1> QED
  BY <1>1, <1>3, <1>4

LEMMA StepsRight ==
    ASSUME Stepping, RightInv, Next
    PROVE  RightInv'
<1>0. Buries' /\ None # Gone /\ wasGone \subseteq wasGone'
  BY StepsBury, NoneAssumption DEF Stepping, Gone
<1> SUFFICES \A d \in Calls : ToldRight(d)'
  BY <1>0 DEF RightInv
<1>1. CASE UNCHANGED call
  BY <1>0, <1>1 DEF RightInv, ToldRight
\* It goes on, to another await.
<1>2. ASSUME NEW c \in Calls, NEW pc \in {"waiting", "written", "found"}, NEW v,
             Goes(c, pc) \/ call' = [call EXCEPT ![c].pc = pc, ![c].asked = v]
      PROVE  \A d \in Calls : ToldRight(d)'
  <2>1. /\ \A d \in Calls : d # c => call'[d] = call[d]
        /\ call'[c].op = call[c].op /\ call'[c].id = call[c].id /\ call'[c].got = call[c].got /\ call'[c].pc = pc
    BY <1>2 DEF Goes, Stepping, Types, CallsOK, CallState
  <2>2. ToldRight(c)'
    BY <1>0, <2>1 DEF RightInv, ToldRight
  <2> QED
    BY <2>1, <2>2, OthersRight
\* It ends with nothing, or with a row that it found.
<1>3. ASSUME NEW c \in Calls, NEW v, Ends(c, v),
             v = None \/ (v \in Nat \ {Gone} /\ v >= call[c].asked)
      PROVE  \A d \in Calls : ToldRight(d)'
  <2>1. /\ \A d \in Calls : d # c => call'[d] = call[d]
        /\ call'[c].asked = call[c].asked /\ call'[c].got = v
    BY <1>3 DEF Ends, Stepping, Types, CallsOK, CallState
  <2>2. ToldRight(c)'
    BY <1>0, <1>3, <2>1 DEF ToldRight
  <2> QED
    BY <2>1, <2>2, OthersRight
<1>4. ASSUME NEW c \in Calls, call[c].pc = "reading", NEW x \in Ids, row[x] # Gone, Ends(c, row[x])
      PROVE  \A d \in Calls : ToldRight(d)'
  <2>1. row[x] \in Nat \ {Gone} /\ call[c].asked = 0
    BY <1>4, BatchAssumption DEF Stepping, Types, TablesOK, Versions, AskInv, AsksForIt, Gone
  <2>2. row[x] >= call[c].asked
    BY <2>1
  <2> QED
    BY <1>3, <1>4, <2>1, <2>2
\* It starts; a tombstone answers at once.
<1>5. ASSUME NEW c \in Calls, NEW op \in Ops, NEW x \in Ids, Starts(c, op, x)
      PROVE  \A d \in Calls : ToldRight(d)'
  <2>1. /\ \A d \in Calls : d # c => call'[d] = call[d]
        /\ call'[c].id = x
        /\ call'[c].got = None \/ (call'[c].got = Gone /\ x \in notFound)
    BY <1>5 DEF Starts, Idle, Stepping, Types, CallsOK, CallState
  <2>2. ToldRight(c)'
    BY <1>0, <2>1 DEF RightInv, Buries, ToldRight
  <2> QED
    BY <2>1, <2>2, OthersRight
<1>6. ASSUME NEW c \in Calls, Call(c) PROVE \A d \in Calls : ToldRight(d)'
  <2>1. PICK op \in Ops, x \in Ids : Starts(c, op, x)
    BY <1>6, KindsAssumption DEF Call
  <2> QED
    BY <1>5, <2>1
<1>7. ASSUME NEW c \in Calls, Reads(c) PROVE \A d \in Calls : ToldRight(d)'
  <2> DEFINE x == call[c].id
  <2>1. call[c].pc = "reading" /\ x \in Ids
    BY <1>7 DEF Reads, ReadUser, HydrateUser, ReadGroup, ReadRows, ListGroups, At, Stepping, Subjects
  <2>2. CASE Ends(c, row[x]) /\ row[x] # Gone
    BY <1>4, <2>1, <2>2
  <2>3. CASE Goes(c, "waiting") \/ call' = [call EXCEPT ![c].pc = "waiting", ![c].asked = Served[x]]
    BY <1>2, <2>3
  <2>4. CASE Starts(c, "user", x)
    BY <1>5, <2>1, <2>4 DEF Ops
  <2>5. CASE ReadRows(c) /\ Ends(c, row[x])
    <3>1. x \in Users
      BY <2>1, <2>5 DEF ReadRows, Stepping, Subjects
    <3>2. CASE Goes(c, "waiting")
      BY <2>3, <3>2
    <3>3. CASE row[x] # Gone
      BY <2>2, <2>5, <3>3
    <3> QED
      BY <2>5, <3>1, <3>2, <3>3 DEF ReadRows, Cached
  <2> QED
    BY <1>7, <2>2, <2>3, <2>4, <2>5 DEF Reads, ReadUser, HydrateUser, ReadGroup, ReadRows, ListGroups, Cached
<1>8. ASSUME NEW c \in Calls, Writes(c) PROVE \A d \in Calls : ToldRight(d)'
  <2>1. CASE KeepCreated(c)
    <3>1. /\ \A d \in Calls : d # c => call'[d] = call[d]
          /\ call'[c].asked = call[c].asked /\ call'[c].got = call[c].asked /\ call'[c].op = "create"
      BY <2>1 DEF KeepCreated, Ends, Stepping, Types, CallsOK, CallState, AskInv, AsksForIt
    <3>2. call[c].asked \in Nat
      BY BatchAssumption DEF Stepping, Types, CallsOK, CallState, Versions
    <3>3. ToldRight(c)'
      BY <3>1, <3>2 DEF ToldRight
    <3> QED
      BY <3>1, <3>3, OthersRight
  <2> QED
    BY <1>2, <1>3, <1>8, <2>1 DEF Writes, ServerWrites, WriteFails, FindRow, DropRow, Refetch
<1>9. ASSUME NEW f \in Flights, Answer(f) PROVE \A d \in Calls : ToldRight(d)'
  <2>1. CASE RequestFails(f)
    BY <2>1, TellsRight DEF RequestFails
  <2>2. CASE BatchResolved(f) \/ GroupWritten(f) \/ Listed(f)
    BY <2>2, TellsRight DEF BatchResolved, GroupWritten, Listed, Is, Back
  <2> QED
    BY <1>1, <1>9, <2>1, <2>2 DEF Answer, ServerReads, BatchAnswered, StoreUser, EvictUser, GroupAnswered
<1>10. CASE Rest
  BY <1>1, <1>10 DEF Rest, TimerFires, TombstoneExpires, RowExpires, ClearCache, ServerChanges, Dispose
<1> QED
  BY <1>6, <1>7, <1>8, <1>9, <1>10 DEF Next, Rest

PeopleInv == TypeInv /\ HeldInv /\ AskInv /\ ServeInv /\ RightInv

LEMMA InitRight == Init => AskInv /\ ServeInv /\ RightInv
<1> SUFFICES ASSUME Init PROVE AskInv /\ ServeInv /\ RightInv
  OBVIOUS
<1>1. \A c \in Calls : call[c].pc = "idle" /\ call[c].op = "none"
  BY DEF Init, Idle
<1>2. \A f \in Flights : flight[f].kind = "none" /\ \A x \in Ids : flight[f].for[x] = {}
  BY DEF Init, Free, Nobody
<1>3. AskInv
  BY <1>1 DEF Init, AskInv, GoneOnce, AsksForIt, Gone, Ids
<1>4. ServeInv
  BY <1>2 DEF Init, ServeInv, BatchServes, Serves
<1>5. RightInv
  BY <1>1 DEF Init, RightInv, Buries, ToldRight
<1> QED
  BY <1>3, <1>4, <1>5

LEMMA NextRight == PeopleInv /\ [Next]_vars => PeopleInv'
<1> SUFFICES ASSUME PeopleInv, [Next]_vars PROVE PeopleInv'
  OBVIOUS
<1>1. Types /\ Subjects /\ TypeInv' /\ HeldInv' /\ Types'
  BY TypeParts, NextKeepsTypes, NextHolds DEF PeopleInv, TypeInv, TypeOK, Types, BatchOK, CallsOK, MapsOK, TablesOK,
     FlightsOK, ServerOK
<1>2. CASE Next
  <2>1. AskInv' /\ Grown /\ wasGone \subseteq wasGone'
    BY <1>1, <1>2, StepsAsk, Grows DEF PeopleInv
  <2>2. (\A d \in Calls : Onward(d)) /\ Subjects'
    BY <1>1, <1>2, StepsOnward
  <2>3. Stepping
    BY <1>1, <2>1, <2>2 DEF Stepping, PeopleInv
  <2> QED
    BY <1>1, <1>2, <2>1, <2>3, StepsServe, StepsRight DEF PeopleInv
<1>3. CASE UNCHANGED vars
  <2>1. UNCHANGED <<call, flight, userPendingResolvers, notFound, version, gone, wasGone>>
    BY <1>3 DEF vars, batch, server
  <2> QED
    BY <1>1, <2>1 DEF PeopleInv, AskInv, GoneOnce, AsksForIt, ServeInv, BatchServes, Serves, RightInv, Buries, ToldRight
<1> QED
  BY <1>2, <1>3

LEMMA InitPeople == Init => PeopleInv
BY InitTypes, InitHeld, InitRight DEF PeopleInv

\* Who asked the server is answered with what it had then or later: batches,
\* shared GETs and lists that were out before do not answer newer questions.
THEOREM AnsweredFreshAlways == Spec => []AnsweredFresh
<1>1. PeopleInv => AnsweredFresh
  BY DEF PeopleInv, RightInv, ToldRight, AnsweredFresh
<1> QED
  BY <1>1, InitPeople, NextRight, PTL DEF Spec

\* Nobody is told that a user or a group does not exist which always did.
THEOREM NullIsTrueAlways == Spec => []NullIsTrue
<1>1. PeopleInv => NullIsTrue
  BY DEF PeopleInv, RightInv, ToldRight, NullIsTrue
<1> QED
  BY <1>1, InitPeople, NextRight, PTL DEF Spec
=============================================================================
