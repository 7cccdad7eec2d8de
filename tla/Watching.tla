------------------------------ MODULE Watching ------------------------------
(***************************************************************************)
(* Waiting for a post's video: watchPostProcessing (src/postProcessing.ts)  *)
(* polls the post until it is processed, and the host lets a push of the    *)
(* realtime client (src/realtime.ts) end the wait early.                    *)
(*                                                                         *)
(* The client keeps one Echo connection and the channels it has joined.     *)
(* Several watchers may listen on one channel.                              *)
(***************************************************************************)
EXTENDS Naturals, FiniteSets

CONSTANTS
    Watchers,    \* watchers, each with a listener of its own
    Channels,    \* channel names
    ChannelOf,   \* [Watchers -> Channels]
    MaxPolls,    \* bound: polls that fit into maxTotalMs
    MaxEchoes,   \* bound: Echo objects connected at once
    None

Echoes == 1..MaxEchoes

VARIABLES
    watch,         \* per watcher: not begun, waiting for its timer, polling, settled
    polls,         \* timers that fired, per watcher
    late,          \* watchers that settled with a poll out
    onDone,        \* how often each watcher called back
    stopped,       \* watchers the host stopped or aborted
    echo, live,    \* this.echo; the Echo objects that are connected
    connecting,    \* connections being made, for this.connecting
    subscriptions, \* the channels in the map
    joined,        \* the channels each Echo object has joined
    listening      \* per Echo object: the watchers whose handlers it calls

watcher == <<watch, polls, late, onDone, stopped>>
realtime == <<echo, live, connecting, subscriptions, joined, listening>>
vars == <<watcher, realtime>>

Init ==
    /\ watch = [h \in Watchers |-> "no"] /\ polls = [h \in Watchers |-> 0] /\ late = {}
    /\ onDone = [h \in Watchers |-> 0] /\ stopped = {}
    /\ echo = None /\ live = {} /\ connecting = 0 /\ subscriptions = {}
    /\ joined = [e \in Echoes |-> {}] /\ listening = [e \in Echoes |-> {}]

-----------------------------------------------------------------------------
\* watchPostProcessing.

Waiting(h) == watch[h] \in {"timer", "fetching"}

\* finalize: once, with the timer cleared; onDone where the outcome is one.
AnyTime(h) == watch[h] # "no"
MayFinalize(h) == Waiting(h)

Finalize(h, fire) ==
    IF MayFinalize(h)
    THEN /\ watch' = [watch EXCEPT ![h] = "settled"]
         /\ onDone' = [onDone EXCEPT ![h] = IF fire THEN @ + 1 ELSE @]
    ELSE UNCHANGED <<watch, onDone>>

\* A poll that is out when the watch ends comes back to nothing.
Outlived(h) == late' = IF watch[h] = "fetching" THEN late \cup {h} ELSE late

\* A signal that is aborted beforehand settles the watch at once.
Watch(h) ==
    /\ watch[h] = "no"
    /\ \/ watch' = [watch EXCEPT ![h] = "timer"] /\ UNCHANGED stopped
       \/ watch' = [watch EXCEPT ![h] = "settled"] /\ stopped' = stopped \cup {h}
    /\ UNCHANGED <<polls, late, onDone, realtime>>

\* tick: gives up past the cap, else polls.
GoesOn(h) == TRUE
InTime(h) == polls[h] < MaxPolls

Tick(h) ==
    /\ watch[h] = "timer"
    /\ IF InTime(h)
       THEN /\ watch' = [watch EXCEPT ![h] = "fetching"]
            /\ polls' = [polls EXCEPT ![h] = IF @ < MaxPolls THEN @ + 1 ELSE @]
            /\ UNCHANGED onDone
       ELSE Finalize(h, TRUE) /\ UNCHANGED polls
    /\ UNCHANGED <<late, stopped, realtime>>

\* The post is processed; or it is not, is missing or cannot be had.
Processed(h) ==
    /\ watch[h] = "fetching" /\ Finalize(h, TRUE)
    /\ UNCHANGED <<polls, late, stopped, realtime>>

StillProcessing(h) ==
    /\ watch[h] = "fetching" /\ watch' = [watch EXCEPT ![h] = "timer"]
    /\ UNCHANGED <<polls, late, onDone, stopped, realtime>>

\* The answer of a poll whose watch has settled.
LateAnswer(h) ==
    /\ h \in late /\ late' = late \ {h} /\ Finalize(h, TRUE)
    /\ UNCHANGED <<polls, stopped, realtime>>

\* stop, or the signal.
Stop(h) ==
    /\ Waiting(h) /\ Finalize(h, FALSE) /\ stopped' = stopped \cup {h}
    /\ Outlived(h)
    /\ UNCHANGED <<polls, realtime>>

-----------------------------------------------------------------------------
\* RealtimeClient.

\* connect: callers while one connects share its promise.
Shared == connecting = 0

Connect ==
    /\ echo = None /\ Shared
    /\ connecting' = connecting + 1
    /\ UNCHANGED <<watcher, echo, live, subscriptions, joined, listening>>

\* The libraries are loaded and an Echo object is made, or they are not.
Connected ==
    /\ connecting > 0 /\ connecting' = connecting - 1
    /\ \E e \in Echoes \ live :
        /\ \A f \in Echoes \ live : e <= f
        /\ echo' = e /\ live' = live \cup {e}
    /\ UNCHANGED <<watcher, subscriptions, joined, listening>>

ConnectFails ==
    /\ connecting > 0 /\ connecting' = connecting - 1
    /\ UNCHANGED <<watcher, echo, live, subscriptions, joined, listening>>

\* subscribePrivate: nothing without a connection; the channel is joined once.
Subscribe(h) ==
    LET c == ChannelOf[h] IN
    /\ echo # None /\ Waiting(h) /\ h \notin listening[echo]
    /\ subscriptions' = subscriptions \cup {c}
    /\ joined' = [joined EXCEPT ![echo] = @ \cup {c}]
    /\ listening' = [listening EXCEPT ![echo] = @ \cup {h}]
    /\ UNCHANGED <<watcher, echo, live, connecting>>

\* Leaving a channel drops every listener it has.
Left(e, C) ==
    /\ joined' = [joined EXCEPT ![e] = @ \ C]
    /\ listening' = [listening EXCEPT ![e] = {h \in @ : ChannelOf[h] \notin C}]

\* unsubscribe of a watcher that has settled: its channel goes, with whoever
\* else listens there, also when it has been joined anew by a later connection.
Unsubscribe(h) ==
    LET c == ChannelOf[h] IN
    /\ watch[h] = "settled" /\ c \in subscriptions /\ echo # None
    /\ subscriptions' = subscriptions \ {c} /\ Left(echo, {c})
    /\ UNCHANGED <<watcher, echo, live, connecting>>

ClearMap == subscriptions' = {}

Disconnect ==
    /\ echo # None
    /\ ClearMap
    /\ Left(echo, subscriptions)
    /\ live' = live \ {echo} /\ echo' = None
    /\ UNCHANGED <<watcher, connecting>>

\* A push of the server reaches the handlers on the channel, which end their
\* watches by markComplete.
Push(c) ==
    \E e \in live : \E h \in listening[e] :
        /\ c \in joined[e] /\ ChannelOf[h] = c
        /\ Finalize(h, TRUE) /\ Outlived(h)
        /\ UNCHANGED <<polls, stopped, realtime>>

-----------------------------------------------------------------------------
WatchStep(h) ==
    Watch(h) \/ Tick(h) \/ Processed(h) \/ StillProcessing(h) \/ LateAnswer(h) \/ Stop(h)
    \/ Subscribe(h) \/ Unsubscribe(h)

Next ==
    \/ \E h \in Watchers : WatchStep(h)
    \/ Connect \/ Connected \/ ConnectFails \/ Disconnect
    \/ \E c \in Channels : Push(c)

\* Timers fire and polls are answered, one way or the other.
Moves(h) == Tick(h) \/ Processed(h) \/ StillProcessing(h)
Fairness == \A h \in Watchers : WF_vars(Moves(h))

Spec == Init /\ [][Next]_vars /\ Fairness

-----------------------------------------------------------------------------
\* Type invariant: the map names channels that the present Echo has joined.
TypeOK ==
    /\ watch \in [Watchers -> {"no", "timer", "fetching", "settled"}]
    /\ polls \in [Watchers -> 0..MaxPolls] /\ onDone \in [Watchers -> Nat]
    /\ late \subseteq Watchers /\ stopped \subseteq Watchers
    /\ live \subseteq Echoes /\ echo \in live \cup {None} /\ connecting \in 0..2
    /\ subscriptions \subseteq Channels
    /\ joined \in [Echoes -> SUBSET Channels] /\ listening \in [Echoes -> SUBSET Watchers]
    /\ subscriptions = IF echo = None THEN {} ELSE joined[echo]

\* A watch calls back once when it has an outcome and never when it was
\* stopped, whichever of poll, push, stop and cap meet (finalize).
CallsBackOnce ==
    \A h \in Watchers : onDone[h] = IF watch[h] = "settled" /\ h \notin stopped THEN 1 ELSE 0

\* A watch ends, also when the post is never processed (maxTotalMs).
WatchSettles == \A h \in Watchers : Waiting(h) ~> watch[h] = "settled"
=============================================================================
