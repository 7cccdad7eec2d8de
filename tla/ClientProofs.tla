----------------------------- MODULE ClientProofs -----------------------------
(***************************************************************************)
(* The parts of a client beside its session, for any tabs, requests,        *)
(* callers, lists, page sizes and bounds: as whom a request is sent, what a  *)
(* call that writes answers, what a walk along a paged list gets, and what  *)
(* becomes of the documents the API sends.                                  *)
(***************************************************************************)
EXTENDS Client, SequenceTheorems, FiniteSetTheorems, TLAPS

-----------------------------------------------------------------------------
\* As whom a request is sent: no bearer and no acting context crosses a sign-out.

\* What the proofs ask of the constants.
Bounds == MaxSets \in Nat /\ MaxOuts \in Nat /\ MaxReloads \in Nat

\* The named types of the state's parts.
Request == [pc : {"idle", "out", "replayed"}, tab : Tabs \cup {None},
            bearer : Acting!Sessions \cup {None}, context : Acting!Contexts \cup {None},
            since : 0..MaxOuts, dropped : 0..MaxOuts]

\* The parts that change together.
ActingOK ==
    /\ acting \in [Tabs -> Acting!Contexts \cup {None}]
    /\ stored \in Acting!Contexts \cup {None}
TokensOK ==
    /\ access \in [Tabs -> Acting!Sessions \cup {None}]
    /\ tokens \in Acting!Sessions \cup {None}

\* A request that is out was sent by a tab.
SentByTab == \A r \in Reqs : req[r].pc # "idle" => req[r].tab \in Tabs

LEMMA ContextsMove ==
    ASSUME ActingOK, NEW t \in Tabs, NEW c \in Acting!Contexts \cup {None}
    PROVE  /\ Acting!ActAs(t, c) => ActingOK'
           /\ Acting!ClearActingContext(t) => ActingOK'
           /\ Acting!DropExpired(t) => ActingOK'
BY DEF ActingOK, Acting!ActAs, Acting!ClearActingContext, Acting!DropExpired

LEMMA TokensMove ==
    ASSUME TokensOK, NEW t \in Tabs, NEW s \in Acting!Sessions \cup {None}, Acting!SetTokens(t, s)
    PROVE  TokensOK'
BY DEF TokensOK, Acting!SetTokens

\* The bearer and the context a tab would send are of their types.
LEMMA Headers ==
    ASSUME Acting!TypeOK, NEW t \in Tabs
    PROVE  /\ Acting!GetAccess(t) \in Acting!Sessions \cup {None}
           /\ Acting!ActingNow(t) \in Acting!Contexts \cup {None}
BY DEF Acting!TypeOK, Acting!GetAccess, Acting!ActingNow

LEMMA IdleRequest ==
    ASSUME Bounds
    PROVE  Acting!Idle \in Request
BY DEF Acting!Idle, Request, Bounds

LEMMA NextKeepsTypes ==
    ASSUME Bounds, Acting!TypeOK, SentByTab, Acting!Next
    PROVE  Acting!TypeOK'
<1>1. ActingOK /\ TokensOK /\ req \in [Reqs -> Request]
  BY DEF Acting!TypeOK, ActingOK, TokensOK, Request
<1>2. Acting!Idle \in Request
  BY IdleRequest
<1>3. /\ None \in Acting!Sessions \cup {None} /\ None \in Acting!Contexts \cup {None}
      /\ outs \in Acting!Sessions
  BY DEF Acting!TypeOK, Acting!Sessions
<1>4. ASSUME NEW t \in Tabs, Acting!SetActingContext(t) PROVE Acting!TypeOK'
  <2>1. [id |-> sets + 1, born |-> outs] \in Acting!Contexts /\ sets + 1 \in 0..MaxSets
    BY <1>4 DEF Acting!SetActingContext, Acting!signOuts, Acting!Contexts, Acting!TypeOK, Bounds
  <2>2. ActingOK'
    BY <1>1, <1>4, <2>1, ContextsMove DEF Acting!SetActingContext, Acting!signOuts
  <2> QED
    BY <1>4, <2>1, <2>2 DEF Acting!SetActingContext, Acting!signOuts, Acting!TypeOK, ActingOK, Acting!Sessions
<1>5. ASSUME NEW t \in Tabs, Acting!GetActingContext(t) PROVE Acting!TypeOK'
  BY <1>5 DEF Acting!GetActingContext, Acting!signOuts, Acting!TypeOK, Acting!Sessions
<1>6. ASSUME NEW t \in Tabs, Acting!StopActing(t) \/ Acting!IsActing(t) PROVE Acting!TypeOK'
  <2>1. ActingOK'
    BY <1>1, <1>3, <1>6, ContextsMove DEF Acting!StopActing, Acting!IsActing, Acting!signOuts
  <2> QED
    BY <1>6, <2>1 DEF Acting!StopActing, Acting!IsActing, Acting!signOuts, Acting!TypeOK, ActingOK, Acting!Sessions
<1>7. ASSUME NEW t \in Tabs, Acting!Login(t) PROVE Acting!TypeOK'
  <2>1. TokensOK'
    BY <1>1, <1>3, <1>7, TokensMove DEF Acting!Login, Acting!signOuts
  <2> QED
    BY <1>7, <2>1 DEF Acting!Login, Acting!signOuts, Acting!TypeOK, TokensOK, Acting!Contexts, Acting!Sessions
<1>8. ASSUME NEW t \in Tabs, Acting!BeginSignOut(t) \/ Acting!FinishSignOut(t) PROVE Acting!TypeOK'
  <2>1. CASE Acting!BeginSignOut(t)
    <3>1. ActingOK'
      BY <1>1, <1>3, <2>1, ContextsMove DEF Acting!BeginSignOut
    <3>2. outs + 1 \in 0..MaxOuts
      BY <2>1 DEF Acting!BeginSignOut, Acting!TypeOK, Bounds
    <3> QED
      BY <2>1, <3>1, <3>2 DEF Acting!BeginSignOut, Acting!TypeOK, ActingOK, Acting!Sessions
  <2>2. CASE Acting!FinishSignOut(t)
    <3>1. TokensOK'
      BY <1>1, <1>3, <2>2, TokensMove DEF Acting!FinishSignOut
    <3>2. dropped' \in [Tabs -> 0..MaxOuts]
      BY <2>2 DEF Acting!FinishSignOut, Acting!TypeOK
    <3> QED
      BY <2>2, <3>1, <3>2 DEF Acting!FinishSignOut, Acting!TypeOK, TokensOK, Acting!Contexts,
         Acting!Sessions
  <2> QED
    BY <1>8, <2>1, <2>2
<1>9. ASSUME NEW t \in Tabs, Acting!RemoteSignOut(t) PROVE Acting!TypeOK'
  <2>1. TokensOK' /\ ActingOK'
    BY <1>1, <1>3, <1>9, TokensMove, ContextsMove DEF Acting!RemoteSignOut
  <2> QED
    BY <1>9, <2>1 DEF Acting!RemoteSignOut, Acting!TypeOK, TokensOK, ActingOK, Acting!Sessions
<1>10. ASSUME NEW t \in Tabs, Acting!Reload(t) PROVE Acting!TypeOK'
  <2>1. req' \in [Reqs -> Request]
    BY <1>1, <1>2, <1>10 DEF Acting!Reload
  <2>2. restarts + 1 \in 0..MaxReloads
    BY <1>10 DEF Acting!Reload, Acting!TypeOK, Bounds
  <2> QED
    BY <1>10, <2>1, <2>2 DEF Acting!Reload, Acting!TypeOK, Request, Acting!Sessions
<1>11. ASSUME NEW t \in Tabs, NEW r \in Reqs, Acting!Send(t, r) PROVE Acting!TypeOK'
  <2>1. heard[t] \in 0..MaxOuts /\ dropped[t] \in 0..MaxOuts
    BY DEF Acting!TypeOK
  <2>2. [pc |-> "out", tab |-> t, bearer |-> Acting!GetAccess(t), context |-> Acting!ActingNow(t),
         since |-> heard[t], dropped |-> dropped[t]] \in Request
    BY <2>1, Headers DEF Request
  <2>3. req' \in [Reqs -> Request]
    BY <1>1, <1>11, <2>2 DEF Acting!Send, Acting!signOuts
  <2>4. ActingOK'
    BY <1>1, <1>3, <1>11, ContextsMove DEF Acting!Send, Acting!signOuts
  <2> QED
    BY <1>11, <2>3, <2>4 DEF Acting!Send, Acting!signOuts, Acting!TypeOK, ActingOK, Request, Acting!Sessions
<1>12. ASSUME NEW r \in Reqs, Acting!Answered(r) PROVE Acting!TypeOK'
  <2>1. req' \in [Reqs -> Request]
    BY <1>1, <1>2, <1>12 DEF Acting!Answered, Acting!signOuts
  <2> QED
    BY <1>12, <2>1 DEF Acting!Answered, Acting!signOuts, Acting!TypeOK, Request, Acting!Sessions
<1>13. ASSUME NEW r \in Reqs, Acting!ContextRejected(r) PROVE Acting!TypeOK'
  <2>1. req' \in [Reqs -> Request]
    BY <1>1, <1>2, <1>13 DEF Acting!ContextRejected, Acting!signOuts
  <2>2. /\ acting' \in [Tabs -> Acting!Contexts \cup {None}]
        /\ stored' \in Acting!Contexts \cup {None}
    BY <1>13 DEF Acting!ContextRejected, Acting!signOuts, Acting!ClearActingContext, Acting!ActAs, Acting!TypeOK
  <2> QED
    BY <1>13, <2>1, <2>2 DEF Acting!ContextRejected, Acting!signOuts, Acting!TypeOK, Request, Acting!Sessions
<1>14. ASSUME NEW r \in Reqs, Acting!Replay(r) PROVE Acting!TypeOK'
  <2>1. req[r] \in Request /\ req[r].tab \in Tabs
    BY <1>1, <1>14 DEF Acting!Replay, Acting!signOuts, SentByTab
  <2>2. Acting!GetAccess(req[r].tab) \in Acting!Sessions \cup {None}
    BY <2>1, Headers
  <2>3. [req[r] EXCEPT !.pc = "replayed", !.bearer = Acting!GetAccess(req[r].tab)] \in Request
    BY <2>1, <2>2 DEF Request
  <2>4. req' \in [Reqs -> Request]
    BY <1>1, <1>14, <2>3 DEF Acting!Replay, Acting!signOuts
  <2> QED
    BY <1>14, <2>4 DEF Acting!Replay, Acting!signOuts, Acting!TypeOK, Request, Acting!Sessions
<1>15. ASSUME NEW i \in 1..MaxSets, Acting!Expire(i) PROVE Acting!TypeOK'
  BY <1>15 DEF Acting!Expire, Acting!signOuts, Acting!TypeOK, Acting!Contexts, Acting!Sessions
<1> QED
  BY <1>4, <1>5, <1>6, <1>7, <1>8, <1>9, <1>10, <1>11, <1>12, <1>13, <1>14, <1>15 DEF Acting!Next
LEMMA NextKeepsSenders ==
    ASSUME Acting!TypeOK, SentByTab, Acting!Next
    PROVE  SentByTab'
<1>1. ASSUME NEW t \in Tabs, NEW r \in Reqs, Acting!Send(t, r) PROVE SentByTab'
  BY <1>1 DEF Acting!Send, Acting!signOuts, SentByTab, Acting!TypeOK
<1>2. ASSUME NEW r \in Reqs, Acting!Answered(r) \/ Acting!ContextRejected(r) PROVE SentByTab'
  BY <1>2 DEF Acting!Answered, Acting!signOuts, Acting!ContextRejected, Acting!Idle, SentByTab, Acting!TypeOK
<1>3. ASSUME NEW r \in Reqs, Acting!Replay(r) PROVE SentByTab'
  BY <1>3 DEF Acting!Replay, Acting!signOuts, SentByTab, Acting!TypeOK
<1>4. ASSUME NEW t \in Tabs, Acting!Reload(t) PROVE SentByTab'
  BY <1>4 DEF Acting!Reload, Acting!Idle, SentByTab, Acting!TypeOK
<1>5. ASSUME UNCHANGED req PROVE SentByTab'
  BY <1>5 DEF SentByTab
<1> QED
  BY <1>1, <1>2, <1>3, <1>4, <1>5 DEF Acting!Next, Acting!SetActingContext,
     Acting!GetActingContext, Acting!StopActing, Acting!IsActing, Acting!Login,
     Acting!BeginSignOut, Acting!FinishSignOut, Acting!RemoteSignOut, Acting!Expire,
     Acting!signOuts

TypeInv == Acting!TypeOK /\ SentByTab

LEMMA TypesHold ==
    ASSUME Bounds
    PROVE  /\ Acting!Init => TypeInv
           /\ TypeInv /\ [Acting!Next]_Acting!vars => TypeInv'
<1>1. Acting!Init => TypeInv
  BY IdleRequest DEF Acting!Init, Acting!Idle, Request, TypeInv, Acting!TypeOK, SentByTab,
     Acting!Sessions, Bounds
<1>2. TypeInv /\ UNCHANGED Acting!vars => TypeInv'
  BY DEF TypeInv, Acting!TypeOK, SentByTab, Acting!vars, Acting!Contexts, Acting!Sessions
<1> QED
  BY <1>1, <1>2, NextKeepsTypes, NextKeepsSenders DEF TypeInv

\* A step of the client is a step of its headers, or leaves them alone.
LEMMA IdentityStep ==
    ASSUME [ClientNext]_allVars
    PROVE  part' = part /\ (part = "identity" => [Acting!Next]_Acting!vars)
BY DEF ClientNext, SessionMoves, PayloadMoves, PagingMoves, WritingMoves, IdentityMoves,
   allVars, identity, Acting!vars

\* Providers, memories, storage, requests and messages keep their types,
\* whatever the numbers of tabs, contexts, sign-outs and reloads.
THEOREM IdentityTypeCorrect ==
    ASSUME Bounds
    PROVE  ClientSpec => [](part = "identity" => Acting!TypeOK)
<1> DEFINE Inv == part = "identity" => TypeInv
<1>1. ClientInit => Inv
  BY TypesHold DEF ClientInit
<1>2. Inv /\ [ClientNext]_allVars => Inv'
  BY TypesHold, IdentityStep
<1>3. Inv => (part = "identity" => Acting!TypeOK)
  BY DEF TypeInv
<1> QED
  BY <1>1, <1>2, <1>3, PTL DEF ClientSpec

-----------------------------------------------------------------------------
\* What a tab may still take is of the sign-in it knows of: a context in its
\* memory and in the local storage is of after the last sign-out it heard of,
\* and the bearer its provider returns of after the last one that dropped it.

FreshMemory == \A t \in Tabs : acting[t] # None => acting[t].born >= heard[t]
FreshStorage == stored # None => \A t \in Tabs : stored.born >= heard[t]
FreshBearer == \A t \in Tabs : Acting!GetAccess(t) # None => Acting!GetAccess(t) >= dropped[t]
HeardOuts == \A t \in Tabs : dropped[t] <= heard[t] /\ heard[t] <= outs

FreshInv == FreshMemory /\ FreshStorage /\ FreshBearer /\ HeardOuts /\ Acting!NothingAcrossSignOut

\* A tab that takes an older context from the storage while it has heard of
\* a later sign-out is what clearing the stored copy, too, rules out.
LEMMA NextKeepsFresh ==
    ASSUME Bounds, Acting!TypeOK, SentByTab, FreshInv, Acting!Next
    PROVE  FreshInv'
<1> USE DEF FreshInv
<1>1. ASSUME NEW t \in Tabs, Acting!SetActingContext(t) PROVE FreshInv'
  BY <1>1 DEF Acting!SetActingContext, Acting!signOuts, Acting!ActAs, Acting!GetAccess, FreshMemory,
     FreshStorage, FreshBearer, HeardOuts, Acting!NothingAcrossSignOut, Acting!TypeOK
<1>2. ASSUME NEW t \in Tabs, Acting!GetActingContext(t) PROVE FreshInv'
  BY <1>2 DEF Acting!GetActingContext, Acting!signOuts, Acting!GetAccess, FreshMemory, FreshStorage, FreshBearer,
     HeardOuts, Acting!NothingAcrossSignOut, Acting!TypeOK
<1>3. ASSUME NEW t \in Tabs, Acting!StopActing(t) \/ Acting!IsActing(t) PROVE FreshInv'
  BY <1>3 DEF Acting!StopActing, Acting!IsActing, Acting!signOuts, Acting!ClearActingContext, Acting!ActAs,
     Acting!GetAccess, FreshMemory, FreshStorage, FreshBearer, HeardOuts,
     Acting!NothingAcrossSignOut, Acting!TypeOK
<1>4. ASSUME NEW t \in Tabs, Acting!Login(t) PROVE FreshInv'
  BY <1>4 DEF Acting!Login, Acting!signOuts, Acting!SetTokens, Acting!GetAccess, FreshMemory, FreshStorage,
     FreshBearer, HeardOuts, Acting!NothingAcrossSignOut, Acting!TypeOK, Acting!Sessions
<1>5. ASSUME NEW t \in Tabs, Acting!BeginSignOut(t) PROVE FreshInv'
  BY <1>5 DEF Acting!BeginSignOut, Acting!ClearActingContext, Acting!ActAs,
     Acting!GetAccess, FreshMemory, FreshStorage, FreshBearer, HeardOuts,
     Acting!NothingAcrossSignOut, Acting!TypeOK, Acting!Sessions, Bounds
<1>12. ASSUME NEW t \in Tabs, Acting!FinishSignOut(t) PROVE FreshInv'
  BY <1>12 DEF Acting!FinishSignOut, Acting!SetTokens,
     Acting!GetAccess, FreshMemory, FreshStorage, FreshBearer, HeardOuts,
     Acting!NothingAcrossSignOut, Acting!TypeOK, Acting!Sessions, Bounds
<1>6. ASSUME NEW t \in Tabs, Acting!RemoteSignOut(t) PROVE FreshInv'
  BY <1>6 DEF Acting!RemoteSignOut, Acting!ClearActingContext, Acting!ActAs, Acting!SetTokens,
     Acting!GetAccess, FreshMemory, FreshStorage, FreshBearer, HeardOuts,
     Acting!NothingAcrossSignOut, Acting!TypeOK, Acting!Sessions
<1>7. ASSUME NEW t \in Tabs, Acting!Reload(t) PROVE FreshInv'
  BY <1>7 DEF Acting!Reload, Acting!Idle, Acting!GetAccess, FreshMemory, FreshStorage,
     FreshBearer, HeardOuts, Acting!NothingAcrossSignOut, Acting!TypeOK
<1>8. ASSUME NEW t \in Tabs, NEW r \in Reqs, Acting!Send(t, r) PROVE FreshInv'
  <2>1. FreshMemory' /\ FreshStorage' /\ FreshBearer' /\ HeardOuts'
    BY <1>8 DEF Acting!Send, Acting!signOuts, Acting!DropExpired, Acting!ClearActingContext, Acting!ActAs,
       Acting!GetAccess, FreshMemory, FreshStorage, FreshBearer, HeardOuts, Acting!TypeOK
  <2>2. Acting!NothingAcrossSignOut'
    BY <1>8 DEF Acting!Send, Acting!signOuts, Acting!ActingNow, FreshMemory, FreshBearer,
       Acting!NothingAcrossSignOut, Acting!TypeOK
  <2> QED
    BY <2>1, <2>2
<1>9. ASSUME NEW r \in Reqs, Acting!Answered(r) \/ Acting!Replay(r) PROVE FreshInv'
  BY <1>9 DEF Acting!Answered, Acting!signOuts, Acting!Replay, Acting!Idle, Acting!GetAccess, FreshMemory,
     FreshStorage, FreshBearer, HeardOuts, Acting!NothingAcrossSignOut, Acting!TypeOK
<1>10. ASSUME NEW r \in Reqs, Acting!ContextRejected(r) PROVE FreshInv'
  BY <1>10 DEF Acting!ContextRejected, Acting!signOuts, Acting!ClearActingContext, Acting!ActAs, Acting!Idle,
     Acting!GetAccess, FreshMemory, FreshStorage, FreshBearer, HeardOuts,
     Acting!NothingAcrossSignOut, Acting!TypeOK
<1>11. ASSUME NEW i \in 1..MaxSets, Acting!Expire(i) PROVE FreshInv'
  BY <1>11 DEF Acting!Expire, Acting!signOuts, Acting!GetAccess, FreshMemory, FreshStorage, FreshBearer,
     HeardOuts, Acting!NothingAcrossSignOut
<1> QED
  BY <1>1, <1>2, <1>3, <1>4, <1>5, <1>6, <1>7, <1>8, <1>9, <1>10, <1>11, <1>12 DEF Acting!Next

\* No request carries an acting context of before a sign-out its tab began or
\* heard of, nor a bearer of before one its tab ended or heard of: not from
\* memory, not from the local storage, not after a reload (beginSignOut clears
\* the context with its stored copy, finishSignOut the tokens, onRemoteSignOut
\* both).
THEOREM NothingAcrossSignOutAlways ==
    ASSUME Bounds
    PROVE  ClientSpec => []NothingAcrossSignOut
<1> DEFINE Inv == part = "identity" => TypeInv /\ FreshInv
<1>1. ClientInit => Inv
  <2>1. Acting!Init => FreshInv
    BY DEF Acting!Init, Acting!Idle, Acting!GetAccess, FreshInv, FreshMemory, FreshStorage,
       FreshBearer, HeardOuts, Acting!NothingAcrossSignOut
  <2> QED
    BY <2>1, TypesHold DEF ClientInit
<1>2. Inv /\ [ClientNext]_allVars => Inv'
  <2>1. FreshInv /\ UNCHANGED Acting!vars => FreshInv'
    BY DEF FreshInv, FreshMemory, FreshStorage, FreshBearer, HeardOuts, Acting!GetAccess,
       Acting!NothingAcrossSignOut, Acting!vars
  <2>2. TypeInv /\ FreshInv /\ [Acting!Next]_Acting!vars => TypeInv' /\ FreshInv'
    BY <2>1, TypesHold, NextKeepsFresh DEF TypeInv
  <2> QED
    BY <2>2, IdentityStep
<1>3. Inv => NothingAcrossSignOut
  BY DEF FreshInv, NothingAcrossSignOut
<1> QED
  BY <1>1, <1>2, <1>3, PTL DEF ClientSpec
-----------------------------------------------------------------------------
\* What a call that writes answers.

Opening == {"write", "delete", "ask"}
Reads == {"reread", "refetch", "readback"}
StepKinds == Opening \cup Reads \cup
    {"keep", "bump", "refresh", "drop", "poll", "merge", "forget", "remember", "profile"}
Steps == [do : StepKinds, on : {"new", "it", "parent", "me", "managed", "record"}]

\* Nothing is left to send that changes the API's mind.
Settled(s) == \A i \in 1..Len(s) : s[i].do \notin Opening

\* Every operation asks first, writes or deletes once, and reads back what it
\* wrote; the update of one's own profile ends it.
WellFormed(s) ==
    /\ s \in Seq(Steps) /\ Len(s) <= 5
    /\ \A i \in 1..Len(s) :
         /\ s[i].do \in Reads => s[i].on \in {"new", "it", "record"}
         /\ s[i].do = "profile" => s[i].on = "me"
    /\ \A i, j \in 1..Len(s) : i < j =>
         /\ s[j].do \in Opening => s[i].do = "ask"
         /\ s[i].do # "profile"
         /\ s[i].do = "write" /\ s[j].do \in Reads => s[j].on = s[i].on
         /\ s[j].do = "profile" => s[i].do = "write" /\ s[i].on = "me"

SubjectOf(c, s) == IF s = "new" THEN c ELSE s
AtLeast(x, n) == x = None \/ x >= n
OwnProfile(c) == about[c] \in {"me", "managed"}

\* One caller's part of the invariant.
Untouched(c) == wrote[c] = None /\ full[c] = None /\ answer[c] = None

CallInv(c) ==
    /\ WellFormed(todo[c])
    /\ phase[c] = "idle" => todo[c] = << >> /\ Untouched(c)
    /\ Settled(todo[c]) \/ Untouched(c)
    /\ Settled(todo[c]) => \A i \in 1..Len(todo[c]) : todo[c][i].do = "profile" => OwnProfile(c)
    /\ phase[c] = "failed" /\ wrote[c] # None => cause[c] \in {"storage", "profile", "readback"}
    /\ phase[c] = "done" /\ wrote[c] # None => answer[c] # None

\* What a call has read, or will read, is what it wrote or something newer.
ShowsWrite(c) == wrote[c] # None =>
    /\ \A i \in 1..Len(todo[c]) :
         todo[c][i].do \in Reads => AtLeast(version[SubjectOf(c, todo[c][i].on)], wrote[c])
    /\ phase[c] = "served" /\ todo[c] # << >> /\ todo[c][1].do \in Reads =>
         AtLeast(got[c], wrote[c])
    /\ AtLeast(full[c], wrote[c])
    /\ AtLeast(answer[c], wrote[c]) \/ (OwnProfile(c) /\ todo[c] = << >>)

WritesInv == \A c \in Callers : CallInv(c) /\ ShowsWrite(c)

LEMMA ProgramsWellFormed ==
    \A o \in Writing!Programs : WellFormed(o)
<1> USE DEF WellFormed, Steps, StepKinds, Opening, Reads, Writing!Do
<1>1. WellFormed(Writing!CreatePost) /\ WellFormed(Writing!UpdatePost)
  BY DEF Writing!CreatePost, Writing!UpdatePost
<1>2. WellFormed(Writing!Repost)
  BY DEF Writing!Repost
<1>3. WellFormed(Writing!Unrepost) /\ WellFormed(Writing!QuotePost)
  BY DEF Writing!Unrepost, Writing!QuotePost
<1>4. WellFormed(Writing!CreateComment)
  BY DEF Writing!CreateComment
<1>5. WellFormed(Writing!DeletePost) /\ WellFormed(Writing!ApprovePost)
  BY DEF Writing!DeletePost, Writing!ApprovePost
<1>6. WellFormed(Writing!DeleteComment) /\ WellFormed(Writing!React)
  BY DEF Writing!DeleteComment, Writing!React
<1>7. WellFormed(Writing!VotePoll) /\ WellFormed(Writing!FetchEngagementSnapshot)
  BY DEF Writing!VotePoll, Writing!FetchEngagementSnapshot
<1>8. WellFormed(Writing!FollowUser) /\ WellFormed(Writing!FollowUserByUlid)
  BY DEF Writing!FollowUser, Writing!FollowUserByUlid
<1>9. WellFormed(Writing!BlockUser) /\ WellFormed(Writing!UpdateCurrentUser)
  BY DEF Writing!BlockUser, Writing!UpdateCurrentUser
<1>10. WellFormed(Writing!UpdateManagedUserProfile) /\ WellFormed(Writing!CreatePlaylist)
  BY DEF Writing!UpdateManagedUserProfile, Writing!CreatePlaylist
<1>11. WellFormed(Writing!UpdateBlogPost) /\ WellFormed(Writing!UpdatePlaylist)
  BY DEF Writing!UpdateBlogPost, Writing!UpdatePlaylist
<1>12. WellFormed(Writing!DeleteBusiness)
  BY DEF Writing!DeleteBusiness
<1> HIDE DEF WellFormed, Steps, StepKinds, Opening, Reads, Writing!Do
<1> QED
  BY <1>1, <1>2, <1>3, <1>4, <1>5, <1>6, <1>7, <1>8, <1>9, <1>10, <1>11, <1>12
     DEF Writing!Programs, Writing!CreateVideoPost, Writing!CreateSong, Writing!RejectPost,
         Writing!CreateSongPlaylist, Writing!CreateRadioStation, Writing!CreateBlogPost,
         Writing!CreateBusinessEvent, Writing!CreateBusiness, Writing!UpdateBusinessEvent,
         Writing!UpdateBusiness

\* What is left of an operation is well formed, and settled once it has written.
LEMMA RestWellFormed ==
    ASSUME NEW s, WellFormed(s), s # << >>
    PROVE  /\ WellFormed(Tail(s)) /\ Head(s) = s[1] /\ s[1] \in Steps /\ 1 \in 1..Len(s)
           /\ Len(Tail(s)) = Len(s) - 1
           /\ \A i \in 1..Len(Tail(s)) : Tail(s)[i] = s[i + 1] /\ i + 1 \in 1..Len(s) /\ 1 < i + 1
           /\ Settled(s) => Settled(Tail(s))
           /\ s[1].do # "ask" => Settled(Tail(s))
           /\ s[1].do \notin Opening => Settled(s)
           /\ s[1].do \in Opening => ~Settled(s)
<1>1. s \in Seq(Steps) /\ Len(s) \in Nat /\ Len(s) <= 5
  BY DEF WellFormed
<1>2. Len(s) # 0 /\ 1 \in 1..Len(s) /\ Tail(s) \in Seq(Steps) /\ Len(Tail(s)) = Len(s) - 1
  BY <1>1
<1>3. \A i \in 1..Len(Tail(s)) : Tail(s)[i] = s[i + 1] /\ i + 1 \in 1..Len(s)
  BY <1>1, <1>2
<1>4. Head(s) = s[1] /\ s[1] \in Steps
  BY <1>1, <1>2
<1>5. WellFormed(Tail(s))
  <2>1. \A i \in 1..Len(Tail(s)) :
          /\ Tail(s)[i].do \in Reads => Tail(s)[i].on \in {"new", "it", "record"}
          /\ Tail(s)[i].do = "profile" => Tail(s)[i].on = "me"
    BY <1>3 DEF WellFormed
  <2>2. ASSUME NEW i \in 1..Len(Tail(s)), NEW j \in 1..Len(Tail(s)), i < j
        PROVE  /\ Tail(s)[j].do \in Opening => Tail(s)[i].do = "ask"
               /\ Tail(s)[i].do # "profile"
               /\ Tail(s)[i].do = "write" /\ Tail(s)[j].do \in Reads =>
                    Tail(s)[j].on = Tail(s)[i].on
               /\ Tail(s)[j].do = "profile" => Tail(s)[i].do = "write" /\ Tail(s)[i].on = "me"
    <3>1. i + 1 < j + 1 /\ i + 1 \in 1..Len(s) /\ j + 1 \in 1..Len(s)
      BY <1>3, <2>2
    <3> QED
      BY <1>3, <3>1 DEF WellFormed
  <2> QED
    BY <1>1, <1>2, <2>1, <2>2 DEF WellFormed
<1>6. Settled(s) => Settled(Tail(s))
  BY <1>3 DEF Settled
<1>7. \A i \in 1..Len(Tail(s)) : 1 < i + 1
  BY <1>1, <1>2
<1>8. s[1].do # "ask" => Settled(Tail(s))
  BY <1>2, <1>3, <1>7 DEF Settled, WellFormed
<1>9. s[1].do \notin Opening => Settled(s)
  <2> SUFFICES ASSUME s[1].do \notin Opening, NEW i \in 1..Len(s), s[i].do \in Opening PROVE FALSE
    BY DEF Settled
  <2>1. i # 1
    OBVIOUS
  <2>2. 1 < i
    BY <1>1, <2>1
  <2> QED
    BY <1>2, <2>2 DEF WellFormed, Opening
<1>10. s[1].do \in Opening => ~Settled(s)
  BY <1>2 DEF Settled
<1> QED
  BY <1>1, <1>2, <1>3, <1>4, <1>5, <1>6, <1>7, <1>8, <1>9, <1>10

\* The update of one's own profile ends with its profile step.
LEMMA ProfileIsLast ==
    ASSUME NEW s, WellFormed(s), s # << >>, s[1].do = "profile"
    PROVE  Tail(s) = << >>
<1>1. s \in Seq(Steps) /\ Len(s) \in Nat /\ 1 \in 1..Len(s)
  BY RestWellFormed DEF WellFormed
<1>2. 2 \notin 1..Len(s)
  BY <1>1 DEF WellFormed
<1>3. \A n \in Nat : 1 \in 1..n /\ 2 \notin 1..n => n = 1
  OBVIOUS
<1>4. Len(s) = 1
  BY <1>1, <1>2, <1>3
<1>5. Len(Tail(s)) = 0 /\ Tail(s) \in Seq(Steps)
  BY <1>4, RestWellFormed DEF WellFormed
<1> QED
  BY <1>5, EmptySeq

\* What each caller has at hand has its type.
WritingTypes ==
    /\ todo \in [Callers -> Seq(Steps)]
    /\ phase \in [Callers -> {"idle", "ready", "served", "holding", "done", "failed"}]
    /\ about \in [Callers -> Writing!Subjects \cup {None}]
    /\ got \in [Callers -> Nat \cup {None}] /\ full \in [Callers -> Nat \cup {None}]
    /\ wrote \in [Callers -> Nat \cup {None}] /\ answer \in [Callers -> Nat \cup {None}]
    /\ cause \in [Callers -> {None, "refused", "read", "readback", "profile", "storage"}]
    /\ version \in [Writing!Subjects -> Nat \cup {None}]
    /\ cached \in [Writing!Subjects -> Nat \cup {None}]
    /\ managing \in BOOLEAN

WritingInv == WritingTypes /\ WritesInv

\* The actions of one caller.
CallerStep(c) ==
    \/ \E o \in Writing!Programs : Writing!Begin(c, o)
    \/ Writing!Write(c) \/ Writing!Delete(c) \/ Writing!Refused(c) \/ Writing!AnswerLost(c)
    \/ Writing!Ask(c)
    \/ Writing!Reread(c) \/ Writing!LandReread(c) \/ Writing!RereadFails(c)
    \/ Writing!Refetch(c) \/ Writing!LandRefetch(c) \/ Writing!RefetchFails(c)
    \/ Writing!ReadbackThrows(c) \/ Writing!Keep(c) \/ Writing!Drop(c)
    \/ Writing!Capture(c) \/ Writing!NothingCached(c) \/ Writing!WriteBack(c)
    \/ Writing!Forget(c) \/ Writing!Swallow(c) \/ Writing!StorageFails(c)
    \/ Writing!Remember(c) \/ Writing!LandRemember(c)
    \/ Writing!Profile(c) \/ Writing!LandProfile(c) \/ Writing!ProfileThrows(c)
    \/ Writing!Return(c)

\* The subject of the step at hand is one, and of a read it is what was written.
LEMMA SubjectAtHand ==
    ASSUME WritingTypes, NEW c \in Callers, WellFormed(todo[c]), todo[c] # << >>
    PROVE  /\ Writing!On(c) \in Writing!Subjects
           /\ Head(todo[c]) = todo[c][1]
           /\ todo[c][1].do \in Reads => Writing!On(c) = SubjectOf(c, todo[c][1].on)
           /\ todo[c][1].on \in {"new", "it", "record"} =>
                Writing!On(c) = SubjectOf(c, todo[c][1].on)
           /\ todo[c][1].on = "me" => Writing!On(c) \in {"me", "managed"}
<1>1. todo[c][1] \in Steps /\ Head(todo[c]) = todo[c][1] /\ 1 \in 1..Len(todo[c])
  BY RestWellFormed
<1>2. todo[c][1].on \in {"new", "it", "parent", "me", "managed", "record"}
  BY <1>1 DEF Steps
<1>3. todo[c][1].do \in Reads => todo[c][1].on \in {"new", "it", "record"}
  BY <1>1 DEF WellFormed
<1>4. Writing!On(c) = CASE todo[c][1].on = "new" -> c
                        [] todo[c][1].on = "me" /\ managing -> "managed"
                        [] OTHER -> todo[c][1].on
  BY <1>1 DEF Writing!On
<1>5. \/ todo[c][1].on = "new" /\ Writing!On(c) = c
      \/ todo[c][1].on = "me" /\ managing /\ Writing!On(c) = "managed"
      \/ todo[c][1].on # "new" /\ ~(todo[c][1].on = "me" /\ managing)
         /\ Writing!On(c) = todo[c][1].on
  BY <1>4
<1>6. Writing!On(c) \in Writing!Subjects
  BY <1>2, <1>5 DEF Writing!Subjects
<1>7. todo[c][1].on \in {"new", "it", "record"} => Writing!On(c) = SubjectOf(c, todo[c][1].on)
  BY <1>5 DEF SubjectOf
<1> QED
  BY <1>1, <1>3, <1>5, <1>6, <1>7

\* A caller that does not move keeps its part when versions only grow or end.
LEMMA Bystander ==
    ASSUME WritingTypes, NEW d \in Callers, CallInv(d), ShowsWrite(d),
           todo'[d] = todo[d], phase'[d] = phase[d], got'[d] = got[d], about'[d] = about[d],
           full'[d] = full[d], wrote'[d] = wrote[d], answer'[d] = answer[d],
           cause'[d] = cause[d],
           \A s \in Writing!Subjects :
              \/ version'[s] = version[s] \/ version'[s] = None
              \/ version[s] \in Nat \ {None} /\ version'[s] = version[s] + 1
    PROVE  CallInv(d)' /\ ShowsWrite(d)'
<1>1. CallInv(d)'
  BY DEF CallInv, Untouched, OwnProfile
<1>2. ASSUME wrote[d] # None, NEW i \in 1..Len(todo[d]), todo[d][i].do \in Reads
      PROVE  AtLeast(version'[SubjectOf(d, todo[d][i].on)], wrote[d])
  <2>1. SubjectOf(d, todo[d][i].on) \in Writing!Subjects
    BY <1>2 DEF CallInv, WellFormed, SubjectOf, Writing!Subjects
  <2>2. AtLeast(version[SubjectOf(d, todo[d][i].on)], wrote[d])
    BY <1>2 DEF ShowsWrite
  <2>3. wrote[d] \in Nat
    BY <1>2 DEF WritingTypes
  <2> QED
    BY <2>1, <2>2, <2>3 DEF AtLeast
<1>3. ShowsWrite(d)'
  BY <1>2 DEF ShowsWrite, AtLeast, OwnProfile
<1> QED
  BY <1>1, <1>3

\* A caller takes the step at hand, and what it found or answers is no older
\* than what it wrote.
LEMMA Advance ==
    ASSUME NEW c \in Callers, CallInv(c), ShowsWrite(c), todo[c] # << >>,
           todo[c][1].do \notin {"write", "delete"},
           todo'[c] = Tail(todo[c]), phase'[c] = "ready", wrote'[c] = wrote[c],
           about'[c] = about[c], version' = version,
           \/ full'[c] = full[c]
           \/ Settled(todo[c]) /\ (wrote[c] # None => AtLeast(full'[c], wrote[c])),
           \/ answer'[c] = answer[c]
           \/ /\ Settled(todo[c])
              /\ wrote[c] # None =>
                   AtLeast(answer'[c], wrote[c]) \/ (OwnProfile(c) /\ Tail(todo[c]) = << >>)
    PROVE  CallInv(c)' /\ ShowsWrite(c)'
<1> DEFINE s == todo[c]  rest == Tail(todo[c])
<1>1. WellFormed(s)
  BY DEF CallInv
<1>2. /\ WellFormed(rest)
      /\ \A i \in 1..Len(rest) : rest[i] = s[i + 1] /\ i + 1 \in 1..Len(s)
      /\ Settled(s) => Settled(rest)
  BY <1>1, RestWellFormed
<1>3. \A i \in 1..Len(rest) : rest[i].do = "profile" => OwnProfile(c)
  <2> SUFFICES ASSUME NEW i \in 1..Len(rest), rest[i].do = "profile" PROVE OwnProfile(c)
    OBVIOUS
  <2>1. 1 \in 1..Len(s) /\ i + 1 \in 1..Len(s) /\ 1 < i + 1 /\ s[i + 1].do = "profile"
    BY <1>1, <1>2, RestWellFormed DEF WellFormed
  <2> QED
    BY <1>1, <2>1 DEF WellFormed
<1>4. Settled(rest) \/ (wrote'[c] = None /\ full'[c] = None /\ answer'[c] = None)
  BY <1>2 DEF CallInv, Untouched
<1>5. CallInv(c)'
  BY <1>2, <1>3, <1>4 DEF CallInv, Untouched, OwnProfile
<1>6. ASSUME wrote[c] # None PROVE ShowsWrite(c)'
  <2>1. \A i \in 1..Len(rest) :
          rest[i].do \in Reads => AtLeast(version[SubjectOf(c, rest[i].on)], wrote[c])
    BY <1>2, <1>6 DEF ShowsWrite
  <2>2. AtLeast(full'[c], wrote[c])
    BY <1>6 DEF ShowsWrite
  <2>3. AtLeast(answer'[c], wrote[c]) \/ (OwnProfile(c) /\ rest = << >>)
    BY <1>6 DEF ShowsWrite
  <2> QED
    BY <2>1, <2>2, <2>3 DEF ShowsWrite, AtLeast, OwnProfile
<1> QED
  BY <1>5, <1>6 DEF ShowsWrite

\* A caller holds what it reads about the subject at hand.
LEMMA Hold ==
    ASSUME WritingTypes, NEW c \in Callers, CallInv(c), ShowsWrite(c), todo[c] # << >>,
           todo[c][1].do \notin Opening,
           todo'[c] = todo[c], phase'[c] \in {"served", "holding"}, wrote'[c] = wrote[c],
           full'[c] = full[c], answer'[c] = answer[c], version' = version,
           about'[c] = about[c] \/ about'[c] = Writing!On(c),
           todo[c][1].do \in Reads => got'[c] = version[Writing!On(c)]
    PROVE  CallInv(c)' /\ ShowsWrite(c)'
<1> DEFINE s == todo[c]
<1>1. WellFormed(s)
  BY DEF CallInv
<1>2. Settled(s) /\ 1 \in 1..Len(s)
  BY <1>1, RestWellFormed
<1>3. ASSUME NEW i \in 1..Len(s), s[i].do = "profile" PROVE OwnProfile(c)'
  <2>1. i = 1
    <3> SUFFICES ASSUME 1 < i PROVE FALSE
      BY <1>1 DEF WellFormed
    <3> QED
      BY <1>1, <1>2, <1>3 DEF WellFormed, Opening
  <2>2. Writing!On(c) \in {"me", "managed"}
    BY <1>1, <1>2, <1>3, <2>1, SubjectAtHand DEF WellFormed
  <2> QED
    BY <1>2, <1>3, <2>2 DEF CallInv, OwnProfile
<1>4. CallInv(c)'
  BY <1>1, <1>2, <1>3 DEF CallInv, Untouched, OwnProfile
<1>5. s[1].do \in Reads => Writing!On(c) = SubjectOf(c, s[1].on)
  BY <1>1, SubjectAtHand
<1>6. ShowsWrite(c)'
  BY <1>2, <1>5 DEF ShowsWrite, AtLeast, OwnProfile
<1> QED
  BY <1>4, <1>6

\* A call fails once it has written only for a reason that is let through.
LEMMA Failing ==
    ASSUME NEW c \in Callers, CallInv(c), ShowsWrite(c),
           todo'[c] = todo[c], phase'[c] = "failed", wrote'[c] = wrote[c],
           about'[c] = about[c], full'[c] = full[c], answer'[c] = answer[c],
           version' = version,
           wrote[c] # None => cause'[c] \in {"storage", "profile", "readback"}
    PROVE  CallInv(c)' /\ ShowsWrite(c)'
<1>1. CallInv(c)'
  BY DEF CallInv, Untouched, OwnProfile
<1>2. ShowsWrite(c)'
  BY DEF ShowsWrite, AtLeast, OwnProfile
<1> QED
  BY <1>1, <1>2

\* Each action of a caller keeps that caller's part.
LEMMA BeginKeeps ==
    ASSUME WritingTypes, NEW c \in Callers, CallInv(c), NEW o \in Writing!Programs,
           Writing!Begin(c, o)
    PROVE  CallInv(c)' /\ ShowsWrite(c)'
<1>1. WellFormed(o)
  BY ProgramsWellFormed
<1>2. todo'[c] = o /\ phase'[c] = "ready"
  BY DEF Writing!Begin, WritingTypes
<1>3. Untouched(c) /\ UNCHANGED <<wrote, full, answer, about, version, got>>
  BY DEF Writing!Begin, CallInv
<1>4. wrote'[c] = None /\ full'[c] = None /\ answer'[c] = None
  BY <1>3 DEF Untouched
<1>5. Settled(o) => \A i \in 1..Len(o) : o[i].do # "profile"
  <2> SUFFICES ASSUME Settled(o), NEW i \in 1..Len(o), o[i].do = "profile" PROVE FALSE
    OBVIOUS
  <2>1. o \in {Writing!UpdateCurrentUser} \/ \A j \in 1..Len(o) : o[j].do # "profile"
    BY DEF Writing!Programs, Writing!Do, Writing!CreatePost, Writing!UpdatePost, Writing!Repost,
       Writing!Unrepost, Writing!QuotePost, Writing!CreateComment, Writing!DeletePost,
       Writing!ApprovePost, Writing!DeleteComment, Writing!React, Writing!VotePoll,
       Writing!FetchEngagementSnapshot, Writing!FollowUser, Writing!FollowUserByUlid,
       Writing!BlockUser, Writing!UpdateManagedUserProfile, Writing!CreatePlaylist,
       Writing!UpdateBlogPost, Writing!UpdatePlaylist, Writing!DeleteBusiness,
       Writing!CreateVideoPost, Writing!CreateSong, Writing!RejectPost,
       Writing!CreateSongPlaylist, Writing!CreateRadioStation, Writing!CreateBlogPost,
       Writing!CreateBusinessEvent, Writing!CreateBusiness, Writing!UpdateBusinessEvent,
       Writing!UpdateBusiness
  <2> QED
    BY <2>1 DEF Writing!UpdateCurrentUser, Writing!Do, Settled, Opening
<1> QED
  BY <1>1, <1>2, <1>4, <1>5 DEF CallInv, ShowsWrite, Untouched

LEMMA WriteKeeps ==
    ASSUME WritingTypes, NEW c \in Callers, CallInv(c), ShowsWrite(c), Writing!Write(c)
    PROVE  CallInv(c)' /\ ShowsWrite(c)'
<1> DEFINE s == todo[c]  rest == Tail(todo[c])  on == Writing!On(c)
<1>1. WellFormed(s) /\ s # << >> /\ Head(s) = s[1] /\ s[1].do = "write" /\ on \in Writing!Subjects
  BY RestWellFormed, SubjectAtHand DEF Writing!Write, Writing!At, CallInv
<1>2. /\ WellFormed(rest) /\ Settled(rest) /\ 1 \in 1..Len(s) /\ ~Settled(s)
      /\ \A i \in 1..Len(rest) : rest[i] = s[i + 1] /\ i + 1 \in 1..Len(s) /\ 1 < i + 1
  BY <1>1, RestWellFormed DEF WellFormed, Opening
<1>3. version[on] \in Nat /\ version'[on] = version[on] + 1 /\ wrote'[c] = version[on] + 1
  BY <1>1 DEF Writing!Write, WritingTypes
<1>4. todo'[c] = rest /\ phase'[c] = "ready" /\ about'[c] = on
  BY DEF Writing!Write, Writing!Step, Writing!Holds, WritingTypes
<1>5. full'[c] = None /\ answer'[c] = None
  BY <1>2 DEF Writing!Write, CallInv, Untouched
<1>6. \A i \in 1..Len(rest) : rest[i].do = "profile" => on \in {"me", "managed"}
  BY <1>1, <1>2, SubjectAtHand DEF WellFormed
<1>7. \A i \in 1..Len(rest) : rest[i].do \in Reads => SubjectOf(c, rest[i].on) = on
  BY <1>1, <1>2, SubjectAtHand DEF WellFormed
<1>8. CallInv(c)'
  BY <1>2, <1>4, <1>6 DEF CallInv, OwnProfile
<1>9. ShowsWrite(c)'
  BY <1>3, <1>4, <1>5, <1>7 DEF ShowsWrite, AtLeast
<1> QED
  BY <1>8, <1>9

LEMMA DeleteKeeps ==
    ASSUME WritingTypes, NEW c \in Callers, CallInv(c), ShowsWrite(c), Writing!Delete(c)
    PROVE  CallInv(c)' /\ ShowsWrite(c)'
<1> DEFINE s == todo[c]  rest == Tail(todo[c])
<1>1. WellFormed(s) /\ s # << >> /\ Head(s) = s[1] /\ s[1].do = "delete"
  BY RestWellFormed DEF Writing!Delete, Writing!At, CallInv
<1>2. /\ WellFormed(rest) /\ Settled(rest) /\ 1 \in 1..Len(s) /\ ~Settled(s)
      /\ \A i \in 1..Len(rest) : rest[i] = s[i + 1] /\ i + 1 \in 1..Len(s) /\ 1 < i + 1
  BY <1>1, RestWellFormed DEF WellFormed, Opening
<1>3. todo'[c] = rest /\ phase'[c] = "ready" /\ wrote'[c] = 0
  BY DEF Writing!Delete, Writing!Step, WritingTypes
<1>4. full'[c] = None /\ answer'[c] = None
  BY <1>2 DEF Writing!Delete, CallInv, Untouched
<1>5. \A i \in 1..Len(rest) : rest[i].do # "profile"
  BY <1>1, <1>2 DEF WellFormed
<1>6. CallInv(c)'
  BY <1>2, <1>3, <1>5 DEF CallInv
<1>7. \A x \in Nat \cup {None} : AtLeast(x, 0)
  BY DEF AtLeast
<1>8. \A i \in 1..Len(rest) : rest[i].do \in Reads =>
        SubjectOf(c, rest[i].on) \in Writing!Subjects
  BY <1>2 DEF WellFormed, SubjectOf, Writing!Subjects
<1>9. version' \in [Writing!Subjects -> Nat \cup {None}]
  BY DEF Writing!Delete, WritingTypes
<1>10. ShowsWrite(c)'
  BY <1>3, <1>4, <1>7, <1>8, <1>9 DEF ShowsWrite, AtLeast
<1> QED
  BY <1>6, <1>10

LEMMA AdvanceKeeps ==
    ASSUME WritingTypes, NEW c \in Callers, CallInv(c), ShowsWrite(c),
           \/ Writing!Ask(c) \/ Writing!LandReread(c) \/ Writing!RereadFails(c)
           \/ Writing!LandRefetch(c) \/ Writing!RefetchFails(c) \/ Writing!Keep(c)
           \/ Writing!Drop(c) \/ Writing!NothingCached(c) \/ Writing!WriteBack(c)
           \/ Writing!Forget(c) \/ Writing!Swallow(c) \/ Writing!LandRemember(c)
           \/ Writing!LandProfile(c)
    PROVE  CallInv(c)' /\ ShowsWrite(c)'
<1> DEFINE s == todo[c]
<1>1. WellFormed(s)
  BY DEF CallInv
<1>2. s # << >> => /\ Head(s) = s[1] /\ 1 \in 1..Len(s)
                   /\ s[1].do \notin Opening => Settled(s)
  BY <1>1, RestWellFormed
<1> USE DEF Writing!At, Writing!Step, Writing!WriteBacks, WritingTypes
<1>3. CASE Writing!Ask(c)
  BY <1>2, <1>3, Advance DEF Writing!Ask
<1>4. CASE Writing!LandReread(c)
  <2>1. s # << >> /\ s[1].do = "reread" /\ phase[c] = "served" /\ Settled(s)
    BY <1>2, <1>4 DEF Writing!LandReread, Opening
  <2>2. wrote[c] # None => AtLeast(got[c], wrote[c])
    BY <2>1 DEF ShowsWrite, Reads
  <2>3. full'[c] = got[c]
    BY <1>4 DEF Writing!LandReread
  <2> QED
    BY <1>4, <2>1, <2>2, <2>3, Advance DEF Writing!LandReread
<1>5. CASE Writing!RereadFails(c)
  BY <1>2, <1>5, Advance DEF Writing!RereadFails
<1>6. CASE Writing!LandRefetch(c)
  <2>1. s # << >> /\ s[1].do \in {"refetch", "readback"} /\ phase[c] = "served" /\ Settled(s)
    BY <1>2, <1>6 DEF Writing!LandRefetch, Opening
  <2>2. wrote[c] # None => AtLeast(got[c], wrote[c])
    BY <2>1 DEF ShowsWrite, Reads
  <2>3. answer'[c] = got[c]
    BY <1>6 DEF Writing!LandRefetch
  <2> QED
    BY <1>6, <2>1, <2>2, <2>3, Advance DEF Writing!LandRefetch
<1>7. CASE Writing!RefetchFails(c)
  BY <1>2, <1>7, Advance DEF Writing!RefetchFails
<1>8. CASE Writing!Keep(c)
  <2>1. s # << >> /\ s[1].do = "keep" /\ Settled(s)
    BY <1>2, <1>8 DEF Writing!Keep, Opening
  <2>2. answer'[c] = full[c] \/ answer'[c] = wrote[c]
    BY <1>8 DEF Writing!Keep
  <2>3. wrote[c] # None => wrote[c] \in Nat /\ AtLeast(full[c], wrote[c])
    BY DEF ShowsWrite
  <2>4. wrote[c] # None => AtLeast(answer'[c], wrote[c])
    BY <2>2, <2>3 DEF AtLeast
  <2> QED
    BY <1>8, <2>1, <2>4, Advance DEF Writing!Keep
<1>9. CASE Writing!Drop(c)
  BY <1>2, <1>9, Advance DEF Writing!Drop
<1>10. CASE Writing!NothingCached(c)
  BY <1>2, <1>10, Advance DEF Writing!NothingCached
<1>11. CASE Writing!WriteBack(c)
  BY <1>2, <1>11, Advance DEF Writing!WriteBack
<1>12. CASE Writing!Forget(c)
  BY <1>2, <1>12, Advance DEF Writing!Forget
<1>13. CASE Writing!Swallow(c)
  BY <1>2, <1>13, Advance DEF Writing!Swallow
<1>14. CASE Writing!LandRemember(c)
  BY <1>2, <1>14, Advance DEF Writing!LandRemember
<1>15. CASE Writing!LandProfile(c)
  <2>1. s # << >> /\ s[1].do = "profile" /\ Settled(s) /\ OwnProfile(c)
    BY <1>2, <1>15 DEF Writing!LandProfile, Opening, CallInv
  <2>2. Tail(s) = << >>
    BY <1>1, <2>1, ProfileIsLast
  <2> QED
    BY <1>15, <2>1, <2>2, Advance DEF Writing!LandProfile
<1> QED
  BY <1>3, <1>4, <1>5, <1>6, <1>7, <1>8, <1>9, <1>10, <1>11, <1>12, <1>13, <1>14, <1>15

LEMMA HoldKeeps ==
    ASSUME WritingTypes, NEW c \in Callers, CallInv(c), ShowsWrite(c),
           \/ Writing!Reread(c) \/ Writing!Refetch(c) \/ Writing!Remember(c)
           \/ Writing!Capture(c) \/ Writing!Profile(c)
    PROVE  CallInv(c)' /\ ShowsWrite(c)'
<1> DEFINE s == todo[c]
<1>1. WellFormed(s)
  BY DEF CallInv
<1>2. s # << >> => Head(s) = s[1]
  BY <1>1, RestWellFormed
<1> USE DEF Writing!At, Writing!WriteBacks, Writing!Holds, Writing!Served, WritingTypes
<1>3. CASE Writing!Reread(c) \/ Writing!Refetch(c) \/ Writing!Remember(c)
  <2>1. s # << >> /\ s[1].do \notin Opening /\ UNCHANGED <<todo, wrote, full, answer, version>>
    BY <1>2, <1>3 DEF Writing!Reread, Writing!Refetch, Writing!Remember, Opening
  <2>2. phase'[c] = "served" /\ got'[c] = version[Writing!On(c)] /\ about'[c] = Writing!On(c)
    BY <1>3 DEF Writing!Reread, Writing!Refetch, Writing!Remember
  <2> QED
    BY <2>1, <2>2, Hold
<1>4. CASE Writing!Capture(c)
  <2>1. s # << >> /\ s[1].do \notin Opening \cup Reads
        /\ UNCHANGED <<todo, wrote, full, answer, version>>
    BY <1>2, <1>4 DEF Writing!Capture, Opening, Reads
  <2>2. phase'[c] = "holding" /\ about'[c] = Writing!On(c)
    BY <1>4 DEF Writing!Capture
  <2> QED
    BY <2>1, <2>2, Hold
<1>5. CASE Writing!Profile(c)
  <2>1. s # << >> /\ s[1].do \notin Opening \cup Reads
        /\ UNCHANGED <<todo, wrote, full, answer, version>>
    BY <1>2, <1>5 DEF Writing!Profile, Opening, Reads
  <2>2. phase'[c] = "served" /\ (about'[c] = about[c] \/ about'[c] = Writing!On(c))
    BY <1>5 DEF Writing!Profile
  <2> QED
    BY <2>1, <2>2, Hold
<1> QED
  BY <1>3, <1>4, <1>5

LEMMA FailKeeps ==
    ASSUME WritingTypes, NEW c \in Callers, CallInv(c), ShowsWrite(c),
           \/ Writing!Refused(c) \/ Writing!ReadbackThrows(c) \/ Writing!StorageFails(c)
           \/ Writing!ProfileThrows(c)
    PROVE  CallInv(c)' /\ ShowsWrite(c)'
<1>1. Writing!Refused(c) => wrote[c] = None
  BY RestWellFormed DEF Writing!Refused, Writing!At, Opening, CallInv, Untouched
<1>2. phase'[c] = "failed" /\ UNCHANGED <<todo, wrote, about, full, answer, version>>
  BY DEF Writing!Refused, Writing!ReadbackThrows, Writing!StorageFails, Writing!ProfileThrows,
     Writing!Fail, WritingTypes
<1>3. Writing!Refused(c) \/ cause'[c] \in {"storage", "profile", "readback"}
  BY DEF Writing!ReadbackThrows, Writing!StorageFails, Writing!ProfileThrows, Writing!Fail,
     WritingTypes
<1> QED
  BY <1>1, <1>2, <1>3, Failing

LEMMA LostKeeps ==
    ASSUME WritingTypes, NEW c \in Callers, CallInv(c), Writing!AnswerLost(c)
    PROVE  CallInv(c)' /\ ShowsWrite(c)'
<1>1. wrote[c] = None /\ full[c] = None /\ answer[c] = None
  BY RestWellFormed DEF Writing!AnswerLost, Writing!At, Opening, CallInv, Untouched
<1>2. phase'[c] = "failed" /\ UNCHANGED <<todo, wrote, about, full, answer>>
  BY DEF Writing!AnswerLost, Writing!Fail, WritingTypes
<1> QED
  BY <1>1, <1>2 DEF CallInv, ShowsWrite, Untouched, OwnProfile

LEMMA ReturnKeeps ==
    ASSUME WritingTypes, NEW c \in Callers, CallInv(c), ShowsWrite(c), Writing!Return(c)
    PROVE  CallInv(c)' /\ ShowsWrite(c)'
<1>1. phase'[c] = "done" /\ todo[c] = << >>
      /\ UNCHANGED <<todo, got, about, full, wrote, cause, version>>
  BY DEF Writing!Return, WritingTypes
<1>2. answer'[c] = IF answer[c] = None THEN wrote[c] ELSE answer[c]
  BY DEF Writing!Return, WritingTypes
<1>3. wrote[c] # None => wrote[c] \in Nat /\ wrote[c] >= wrote[c]
  BY DEF WritingTypes
<1>4. Settled(todo[c])
  BY <1>1 DEF Settled
<1>5. CallInv(c)'
  BY <1>1, <1>2, <1>4 DEF CallInv, Untouched, OwnProfile
<1>6. ShowsWrite(c)'
  BY <1>1, <1>2, <1>3 DEF ShowsWrite, AtLeast, OwnProfile
<1> QED
  BY <1>5, <1>6

LEMMA CallerKeepsPart ==
    ASSUME WritingTypes, NEW c \in Callers, CallInv(c), ShowsWrite(c), CallerStep(c)
    PROVE  CallInv(c)' /\ ShowsWrite(c)'
BY BeginKeeps, WriteKeeps, DeleteKeeps, AdvanceKeeps, HoldKeeps, FailKeeps, LostKeeps,
   ReturnKeeps
   DEF CallerStep

\* A caller moves alone, and a version grows by one or ends.
LEMMA OthersStand ==
    ASSUME WritingTypes, NEW c \in Callers, CallerStep(c), NEW d \in Callers, d # c
    PROVE  /\ todo'[d] = todo[d] /\ phase'[d] = phase[d] /\ got'[d] = got[d]
           /\ about'[d] = about[d] /\ full'[d] = full[d] /\ wrote'[d] = wrote[d]
           /\ answer'[d] = answer[d] /\ cause'[d] = cause[d]
<1> USE DEF WritingTypes, Writing!Step, Writing!Fail, Writing!Holds, Writing!Served
<1>1. CASE \E o \in Writing!Programs : Writing!Begin(c, o)
  BY <1>1 DEF Writing!Begin
<1>2. CASE Writing!Write(c) \/ Writing!Delete(c) \/ Writing!Refused(c)
           \/ Writing!AnswerLost(c) \/ Writing!Ask(c)
  BY <1>2 DEF Writing!Write, Writing!Delete, Writing!Refused, Writing!AnswerLost, Writing!Ask
<1>3. CASE Writing!Reread(c) \/ Writing!LandReread(c) \/ Writing!RereadFails(c)
           \/ Writing!Refetch(c) \/ Writing!LandRefetch(c) \/ Writing!RefetchFails(c)
  BY <1>3 DEF Writing!Reread, Writing!LandReread, Writing!RereadFails, Writing!Refetch,
     Writing!LandRefetch, Writing!RefetchFails
<1>4. CASE Writing!ReadbackThrows(c) \/ Writing!Keep(c) \/ Writing!Drop(c)
           \/ Writing!Capture(c) \/ Writing!NothingCached(c) \/ Writing!WriteBack(c)
  BY <1>4 DEF Writing!ReadbackThrows, Writing!Keep, Writing!Drop, Writing!Capture,
     Writing!NothingCached, Writing!WriteBack
<1>5. CASE Writing!Forget(c) \/ Writing!Swallow(c) \/ Writing!StorageFails(c)
           \/ Writing!Remember(c) \/ Writing!LandRemember(c)
  BY <1>5 DEF Writing!Forget, Writing!Swallow, Writing!StorageFails, Writing!Remember,
     Writing!LandRemember
<1>6. CASE Writing!Profile(c) \/ Writing!LandProfile(c) \/ Writing!ProfileThrows(c)
           \/ Writing!Return(c)
  BY <1>6 DEF Writing!Profile, Writing!LandProfile, Writing!ProfileThrows, Writing!Return
<1> QED
  BY <1>1, <1>2, <1>3, <1>4, <1>5, <1>6 DEF CallerStep

LEMMA VersionsGrow ==
    ASSUME WritingTypes, NEW c \in Callers, CallerStep(c), NEW x \in Writing!Subjects
    PROVE  \/ version'[x] = version[x] \/ version'[x] = None
           \/ version[x] \in Nat \ {None} /\ version'[x] = version[x] + 1
<1>1. CASE Writing!Write(c)
  BY <1>1 DEF Writing!Write, WritingTypes
<1>2. CASE Writing!Delete(c)
  BY <1>2 DEF Writing!Delete, WritingTypes
<1>3. CASE Writing!AnswerLost(c)
  BY <1>3 DEF Writing!AnswerLost, WritingTypes
<1>4. CASE ~Writing!Write(c) /\ ~Writing!Delete(c) /\ ~Writing!AnswerLost(c)
  <2>1. version' = version
    BY <1>4 DEF CallerStep, Writing!Begin, Writing!Refused, Writing!Ask, Writing!Reread,
       Writing!Served, Writing!LandReread, Writing!RereadFails, Writing!Refetch,
       Writing!LandRefetch, Writing!RefetchFails, Writing!ReadbackThrows, Writing!Keep,
       Writing!Drop, Writing!Capture, Writing!NothingCached, Writing!WriteBack, Writing!Forget,
       Writing!Swallow, Writing!StorageFails, Writing!Remember, Writing!LandRemember,
       Writing!Profile, Writing!LandProfile, Writing!ProfileThrows, Writing!Return
  <2> QED
    BY <2>1
<1> QED
  BY <1>1, <1>2, <1>3, <1>4

LEMMA CallersKeepTypes ==
    ASSUME WritingTypes, NEW c \in Callers, CallInv(c), CallerStep(c)
    PROVE  WritingTypes'
<1> DEFINE s == todo[c]
<1>1. WellFormed(s)
  BY DEF CallInv
<1>2. s # << >> => Tail(s) \in Seq(Steps) /\ Writing!On(c) \in Writing!Subjects
  BY <1>1, RestWellFormed, SubjectAtHand DEF WellFormed
<1>3. wrote[c] \in Nat \cup {None}
  BY DEF WritingTypes
<1> USE DEF WritingTypes, Writing!At, Writing!Step, Writing!Fail, Writing!Holds
<1>4. ASSUME NEW o \in Writing!Programs, Writing!Begin(c, o) PROVE WritingTypes'
  BY <1>4, ProgramsWellFormed DEF Writing!Begin, WellFormed
<1>5. CASE Writing!Write(c)
  <2>1. version[Writing!On(c)] \in Nat
    BY <1>2, <1>5 DEF Writing!Write
  <2> QED
    BY <1>2, <1>5, <2>1 DEF Writing!Write
<1>6. CASE Writing!Delete(c)
  BY <1>2, <1>6 DEF Writing!Delete
<1>7. CASE Writing!Refused(c) \/ Writing!ReadbackThrows(c) \/ Writing!StorageFails(c)
           \/ Writing!ProfileThrows(c)
  BY <1>7 DEF Writing!Refused, Writing!ReadbackThrows, Writing!StorageFails,
     Writing!ProfileThrows
<1>8. CASE Writing!Ask(c) \/ Writing!RereadFails(c) \/ Writing!RefetchFails(c)
           \/ Writing!NothingCached(c) \/ Writing!Swallow(c)
  <2>1. s # << >> /\ Writing!Step(c)
        /\ UNCHANGED <<got, about, full, wrote, answer, cause, version, cached, managing>>
    BY <1>8 DEF Writing!Ask, Writing!RereadFails, Writing!RefetchFails,
       Writing!NothingCached, Writing!Swallow
  <2> QED
    BY <1>2, <2>1
<1>9. CASE Writing!Reread(c) \/ Writing!Refetch(c) \/ Writing!Remember(c)
  <2>1. s # << >> /\ Writing!Served(c)
    BY <1>9 DEF Writing!Reread, Writing!Refetch, Writing!Remember
  <2> QED
    BY <1>2, <2>1 DEF Writing!Served
<1>10. CASE Writing!LandReread(c) \/ Writing!LandRemember(c)
  <2>1. [cached EXCEPT ![about[c]] = got[c]] \in [Writing!Subjects -> Nat \cup {None}]
    OBVIOUS
  <2>2. s # << >> /\ Writing!Step(c)
        /\ UNCHANGED <<got, about, wrote, answer, cause, version, managing>>
    BY <1>10 DEF Writing!LandReread, Writing!LandRemember
  <2>3. full' = full \/ full' = [full EXCEPT ![c] = got[c]]
    BY <1>10 DEF Writing!LandReread, Writing!LandRemember
  <2>4. cached' = cached \/ cached' = [cached EXCEPT ![about[c]] = got[c]]
    BY <1>10 DEF Writing!LandReread, Writing!LandRemember
  <2> QED
    BY <1>2, <2>1, <2>2, <2>3, <2>4
<1>11. CASE Writing!LandRefetch(c)
  BY <1>2, <1>11 DEF Writing!LandRefetch
<1>12. CASE Writing!Keep(c)
  BY <1>2, <1>12 DEF Writing!Keep
<1>13. CASE Writing!Drop(c) \/ Writing!WriteBack(c) \/ Writing!Forget(c)
  <2>1. s # << >> /\ Writing!Step(c)
        /\ UNCHANGED <<got, about, full, wrote, answer, cause, version, managing>>
    BY <1>13 DEF Writing!Drop, Writing!WriteBack, Writing!Forget
  <2>2. \E x \in Nat \cup {None} : cached' = [cached EXCEPT ![Writing!On(c)] = x]
    BY <1>13 DEF Writing!Drop, Writing!WriteBack, Writing!Forget
  <2> QED
    BY <1>2, <2>1, <2>2
<1>14. CASE Writing!Capture(c)
  BY <1>2, <1>14 DEF Writing!Capture
<1>15. CASE Writing!Profile(c)
  <2>1. s # << >>
    BY <1>15 DEF Writing!Profile
  <2>2. \/ UNCHANGED <<got, about>> \/ Writing!Holds(c, cached[Writing!On(c)])
        \/ Writing!Holds(c, version[Writing!On(c)])
    BY <1>15 DEF Writing!Profile
  <2>3. phase' = [phase EXCEPT ![c] = "served"]
        /\ UNCHANGED <<todo, full, wrote, answer, cause, version, cached, managing>>
    BY <1>15 DEF Writing!Profile
  <2>4. got' \in [Callers -> Nat \cup {None}]
        /\ about' \in [Callers -> Writing!Subjects \cup {None}]
    <3>1. cached[Writing!On(c)] \in Nat \cup {None} /\ version[Writing!On(c)] \in Nat \cup {None}
      BY <1>2, <2>1
    <3>2. ASSUME NEW x \in Nat \cup {None}, Writing!Holds(c, x)
          PROVE  /\ got' \in [Callers -> Nat \cup {None}]
                 /\ about' \in [Callers -> Writing!Subjects \cup {None}]
      BY <1>2, <2>1, <3>2
    <3>3. CASE UNCHANGED <<got, about>>
      BY <3>3
    <3> QED
      BY <2>2, <3>1, <3>2, <3>3
  <2> QED
    BY <2>3, <2>4
<1>16. CASE Writing!LandProfile(c)
  BY <1>2, <1>16 DEF Writing!LandProfile
<1>17. CASE Writing!Return(c)
  BY <1>17 DEF Writing!Return
<1>18. CASE Writing!AnswerLost(c)
  <2>1. version[Writing!On(c)] \in Nat
    BY <1>2, <1>18 DEF Writing!AnswerLost
  <2> QED
    BY <1>2, <1>18, <2>1 DEF Writing!AnswerLost
<1> QED
  BY <1>4, <1>5, <1>6, <1>7, <1>8, <1>9, <1>10, <1>11, <1>12, <1>13, <1>14, <1>15, <1>16,
     <1>17, <1>18 DEF CallerStep

\* To stop acting moves no call.
LEMMA StopKeeps ==
    ASSUME WritingInv, Writing!StopActing
    PROVE  WritingInv'
<1>1. WritingTypes'
  BY DEF WritingInv, WritingTypes, Writing!StopActing
<1>2. ASSUME NEW d \in Callers PROVE CallInv(d)' /\ ShowsWrite(d)'
  BY Bystander DEF WritingInv, WritesInv, Writing!StopActing
<1> QED
  BY <1>1, <1>2 DEF WritingInv, WritesInv

LEMMA WritingHolds ==
    /\ Writing!Init => WritingInv
    /\ WritingInv /\ [Writing!Next]_Writing!vars => WritingInv'
<1>1. Writing!Init => WritingInv
  <2> SUFFICES ASSUME Writing!Init PROVE WritingInv
    OBVIOUS
  <2>1. WritingTypes
    BY DEF Writing!Init, WritingTypes
  <2>2. WellFormed(<< >>)
    BY DEF WellFormed
  <2>3. ASSUME NEW c \in Callers PROVE CallInv(c) /\ ShowsWrite(c)
    BY <2>2 DEF Writing!Init, CallInv, ShowsWrite, Untouched, Settled
  <2> QED
    BY <2>1, <2>3 DEF WritingInv, WritesInv
<1>2. WritingInv /\ UNCHANGED Writing!vars => WritingInv'
  BY DEF WritingInv, WritingTypes, WritesInv, CallInv, ShowsWrite, Untouched, OwnProfile,
     Writing!vars, AtLeast
<1>3. ASSUME WritingInv, NEW c \in Callers, CallerStep(c) PROVE WritingInv'
  <2>1. WritingTypes /\ \A d \in Callers : CallInv(d) /\ ShowsWrite(d)
    BY <1>3 DEF WritingInv, WritesInv
  <2>2. WritingTypes'
    BY <1>3, <2>1, CallersKeepTypes
  <2>3. CallInv(c)' /\ ShowsWrite(c)'
    BY <1>3, <2>1, CallerKeepsPart
  <2>4. ASSUME NEW d \in Callers, d # c PROVE CallInv(d)' /\ ShowsWrite(d)'
    BY <1>3, <2>1, <2>4, OthersStand, VersionsGrow, Bystander
  <2> QED
    BY <2>2, <2>3, <2>4 DEF WritingInv, WritesInv
<1>4. WritingInv /\ Writing!Next => WritingInv'
  BY <1>3, StopKeeps DEF Writing!Next, CallerStep
<1> QED
  BY <1>1, <1>2, <1>4

\* A step of the client is a step of its writing calls, or leaves them alone.
LEMMA WritingStep ==
    ASSUME [ClientNext]_allVars
    PROVE  part' = part /\ (part = "writing" => [Writing!Next]_Writing!vars)
BY DEF ClientNext, SessionMoves, PayloadMoves, PagingMoves, WritingMoves, IdentityMoves,
   allVars, writing, Writing!vars

\* The part that writes keeps its invariant.
LEMMA WritingAlways ==
    ClientSpec => [](part = "writing" => WritingInv)
<1> DEFINE Inv == part = "writing" => WritingInv
<1>1. ClientInit => Inv
  BY WritingHolds DEF ClientInit
<1>2. Inv /\ [ClientNext]_allVars => Inv'
  BY WritingHolds, WritingStep
<1> QED
  BY <1>1, <1>2, PTL DEF ClientSpec

\* The steps, the answers and the rows of the calls that write keep their
\* types, for any number of calls.
THEOREM WritingTypeCorrect ==
    ClientSpec => [](part = "writing" => Writing!TypeOK)
<1>1. (part = "writing" => WritingInv) => (part = "writing" => Writing!TypeOK)
  BY DEF WritingInv, WritesInv, CallInv, WellFormed, WritingTypes, Writing!TypeOK
<1> QED
  BY <1>1, WritingAlways, PTL

\* A call whose write the API accepted fails only for a storage that fails or
\* for an update of a profile or a playlist that cannot be read back; a lost
\* read-after-write, refresh or notification never fails it.
THEOREM AcceptedNeverFailsAlways ==
    ClientSpec => []AcceptedNeverFails
<1>1. (part = "writing" => WritingInv) => AcceptedNeverFails
  BY DEF WritingInv, WritesInv, CallInv, Writing!AcceptedNeverFails, AcceptedNeverFails
<1> QED
  BY <1>1, WritingAlways, PTL

\* What a call answers is what it wrote or something newer, whatever the other
\* calls write, delete or leave in the cache between its steps.
THEOREM AnswerShowsWriteAlways ==
    ClientSpec => []AnswerShowsWrite
<1>1. (part = "writing" => WritingInv) => AnswerShowsWrite
  <2> SUFFICES ASSUME WritingInv, NEW c \in Callers, phase[c] = "done", wrote[c] # None,
                      ~OwnProfile(c)
               PROVE  answer[c] >= wrote[c]
    BY DEF AnswerShowsWrite, Writing!AnswerShowsWrite, OwnProfile
  <2>1. CallInv(c) /\ ShowsWrite(c)
    BY DEF WritingInv, WritesInv
  <2>2. answer[c] # None /\ AtLeast(answer[c], wrote[c])
    BY <2>1 DEF CallInv, ShowsWrite
  <2> QED
    BY <2>2 DEF AtLeast
<1> QED
  BY <1>1, WritingAlways, PTL

-----------------------------------------------------------------------------
\* Lists and their order.  Sorting is by rank, the number of greater items, and
\* leaving items out is by the ranks of the places that stay, so that what they
\* return follows from facts on cardinalities.

\* The items of a list come newest first.
Down(seq) == \A i, j \in DOMAIN seq : i < j => seq[i] > seq[j]

\* The model counts as the theorems of the library do.
LEMMA SameCount ==
    ASSUME NEW S
    PROVE  Paging!Cardinality(S) = Cardinality(S)
BY DEF Paging!Cardinality, Cardinality

\* How many of S are above i.
Above(S, i) == Paging!Cardinality({j \in S : j > i})

\* Each number of a finite set has its own rank in it, counted from the top.
LEMMA Ranks ==
    ASSUME NEW n \in Nat, NEW S, S \subseteq 1..n
    PROVE  /\ IsFiniteSet(S) /\ Cardinality(S) \in 0..n
           /\ \A i \in S : Above(S, i) \in 0..(Cardinality(S) - 1)
           /\ \A i, k \in S : i > k => Above(S, i) < Above(S, k)
           /\ \A r \in 0..(Cardinality(S) - 1) : \E i \in S : Above(S, i) = r
<1>1. IsFiniteSet(S) /\ Cardinality(S) \in 0..n
  <2>1. IsFiniteSet(1..n) /\ Cardinality(1..n) = n
    BY FS_Interval
  <2>2. IsFiniteSet(S) /\ Cardinality(S) <= n
    BY <2>1, FS_Subset
  <2> QED
    BY <2>2, FS_CardinalityType
<1>2. \A i \in S : Above(S, i) \in 0..(Cardinality(S) - 1)
  <2> TAKE i \in S
  <2> DEFINE T == {j \in S : j > i}
  <2>1. IsFiniteSet(T) /\ Cardinality(T) \in Nat /\ Cardinality(T) <= Cardinality(S)
          /\ Cardinality(T) # Cardinality(S)
    BY <1>1, FS_Subset, FS_CardinalityType
  <2> QED
    BY <1>1, <2>1, SameCount DEF Above
<1>3. \A i, k \in S : i > k => Above(S, i) < Above(S, k)
  <2> SUFFICES ASSUME NEW i \in S, NEW k \in S, i > k PROVE Above(S, i) < Above(S, k)
    OBVIOUS
  <2> DEFINE T == {j \in S : j > i}
             U == {j \in S : j > k}
  <2>1. T \subseteq U /\ i \in U /\ i \notin T
    <3>1. \A j \in 1..n : j > i => j > k
      OBVIOUS
    <3>2. \A j \in S : j \in 1..n
      OBVIOUS
    <3>3. ~(i > i)
      BY <3>2
    <3>4. T \subseteq U
      BY <3>1, <3>2
    <3> QED BY <3>3, <3>4
  <2>2. IsFiniteSet(U) /\ U \subseteq S
    BY <1>1, FS_Subset
  <2>3. Cardinality(T) <= Cardinality(U) /\ Cardinality(T) # Cardinality(U)
          /\ Cardinality(T) \in Nat /\ Cardinality(U) \in Nat
    <3> HIDE DEF T, U
    <3> QED BY <2>1, <2>2, FS_Subset, FS_CardinalityType
  <2> QED
    BY <2>3, SameCount DEF Above
<1>4. \A r \in 0..(Cardinality(S) - 1) : \E i \in S : Above(S, i) = r
  <2> DEFINE c == Cardinality(S)
             R == 0..(c - 1)
             f == [i \in S |-> Above(S, i)]
  <2>1. c \in Nat /\ IsFiniteSet(R) /\ Cardinality(R) = c
    <3>1. c \in Nat
      BY <1>1
    <3> HIDE DEF c
    <3> QED BY <3>1, FS_Interval
  <2>2. f \in Injection(S, R)
    <3>1. f \in [S -> R]
      BY <1>2
    <3>2. \A i, k \in S : f[i] = f[k] => i = k
      BY <1>2, <1>3
    <3> HIDE DEF f, R
    <3> QED BY <3>1, <3>2 DEF Injection, IsInjective
  <2>3. f \in Surjection(S, R)
    <3> HIDE DEF f, R
    <3> QED BY <2>1, <2>2, FS_Injection
  <2>4. \A r \in R : \E i \in S : f[i] = r
    <3> HIDE DEF f, R
    <3> QED BY <2>3 DEF Surjection
  <2> QED
    BY <2>4
<1> QED
  BY <1>1, <1>2, <1>3, <1>4

\* Newest first: every item once, in descending order, and each in the place of its rank.
LEMMA Newest ==
    ASSUME NEW n \in Nat, NEW S, S \subseteq 1..n
    PROVE  LET s == Paging!NewestFirst(S) IN
           /\ s \in Seq(S) /\ Len(s) = Cardinality(S) /\ Cardinality(S) \in 0..n
           /\ DOMAIN s = 1..Cardinality(S)
           /\ Down(s) /\ Paging!ToSet(s) = S
           /\ \A m \in 1..Cardinality(S) : Cardinality({i \in S : i >= s[m]}) = m
<1> DEFINE s == Paging!NewestFirst(S)
           c == Cardinality(S)
<1>1. /\ IsFiniteSet(S) /\ c \in 0..n
      /\ \A i \in S : Above(S, i) \in 0..(c - 1)
      /\ \A i, k \in S : i > k => Above(S, i) < Above(S, k)
      /\ \A r \in 0..(c - 1) : \E i \in S : Above(S, i) = r
  BY Ranks
<1>2. s = [m \in 1..c |-> CHOOSE i \in S : Above(S, i) = m - 1]
  BY SameCount DEF Paging!NewestFirst, Above
<1> HIDE DEF s
<1>3. \A m \in 1..c : s[m] \in S /\ Above(S, s[m]) = m - 1
  <2> TAKE m \in 1..c
  <2>1. \E i \in S : Above(S, i) = m - 1
    BY <1>1
  <2> QED
    BY <1>2, <2>1
<1>4. s \in [1..c -> S]
  BY <1>2, <1>3
<1>5. s \in Seq(S) /\ Len(s) = c /\ DOMAIN s = 1..c
  BY <1>1, <1>4
<1>6. Down(s)
  <2> SUFFICES ASSUME NEW i \in 1..c, NEW j \in 1..c, i < j PROVE s[i] > s[j]
    BY <1>5 DEF Down
  <2>1. s[i] \in S /\ s[j] \in S /\ Above(S, s[i]) < Above(S, s[j])
    BY <1>3
  <2>2. s[i] \in 1..n /\ s[j] \in 1..n
    BY <2>1
  <2>3. ~(s[j] > s[i]) /\ s[i] # s[j]
    <3>1. Above(S, s[i]) = i - 1 /\ Above(S, s[j]) = j - 1 /\ ~(j - 1 < i - 1)
      BY <1>1, <1>3
    <3>2. s[j] > s[i] => Above(S, s[j]) < Above(S, s[i])
      BY <1>1, <2>1
    <3> QED BY <2>1, <3>1, <3>2
  <2> QED
    BY <2>2, <2>3
<1>7. \A i \in S : \E m \in 1..c : s[m] = i
  <2> TAKE i \in S
  <2> DEFINE m == Above(S, i) + 1
  <2>1. m \in 1..c /\ m - 1 = Above(S, i)
    BY <1>1
  <2>2. Above(S, s[m]) = Above(S, i) /\ s[m] \in S
    BY <1>3, <2>1
  <2>3. s[m] \in 1..n /\ i \in 1..n
    BY <2>2
  <2> QED
    BY <1>1, <2>1, <2>2, <2>3
<1>8. Paging!ToSet(s) = S
  BY <1>3, <1>5, <1>7 DEF Paging!ToSet
<1>9. ASSUME NEW m \in 1..c PROVE Cardinality({i \in S : i >= s[m]}) = m
  <2> DEFINE T == {j \in S : j > s[m]}
  <2>1. {i \in S : i >= s[m]} = T \cup {s[m]} /\ s[m] \notin T
    <3>1. s[m] \in S /\ s[m] \in 1..n
      BY <1>3
    <3>2. \A i \in 1..n : i >= s[m] <=> i > s[m] \/ i = s[m]
      BY <3>1
    <3>3. ~(s[m] > s[m]) /\ S \subseteq 1..n
      BY <3>1
    <3>4. \A i : i \in S /\ i >= s[m] <=> (i \in S /\ i > s[m]) \/ i = s[m]
      BY <3>1, <3>2, <3>3
    <3> QED BY <3>3, <3>4
  <2>2. IsFiniteSet(T) /\ Cardinality(T) = m - 1
    BY <1>1, <1>3, FS_Subset, SameCount DEF Above
  <2> HIDE DEF T
  <2>3. Cardinality(T \cup {s[m]}) = Cardinality(T) + 1
    BY <2>1, <2>2, FS_AddElement
  <2>4. c \in Nat /\ m \in Nat
    BY <1>1
  <2> DEFINE U == {i \in S : i >= s[m]}
  <2>5. Cardinality(U) = (m - 1) + 1
    BY <2>1, <2>2, <2>3
  <2> HIDE DEF U
  <2> QED
    BY <2>4, <2>5 DEF U
<1> QED
  BY <1>1, <1>5, <1>6, <1>8, <1>9 DEF s

\* Leaving items out keeps the others and their order.
LEMMA Filtered ==
    ASSUME NEW S, NEW seq \in Seq(S), NEW D
    PROVE  LET r == Paging!Without(seq, D) IN
           /\ r \in Seq(S)
           /\ Paging!ToSet(r) = Paging!ToSet(seq) \ D
           /\ Down(seq) => Down(r)
<1> DEFINE r == Paging!Without(seq, D)
           K == {n \in DOMAIN seq : seq[n] \notin D}
           b == Paging!NewestFirst(K)
           k == Cardinality(K)
<1>1. Len(seq) \in Nat /\ DOMAIN seq = 1..Len(seq) /\ \A n \in DOMAIN seq : seq[n] \in S
  BY LenProperties, ElementOfSeq
<1>2. K \subseteq 1..Len(seq)
  BY <1>1
<1>3. /\ b \in Seq(K) /\ Len(b) = k /\ k \in Nat /\ DOMAIN b = 1..k
      /\ Down(b) /\ Paging!ToSet(b) = K
  <2> HIDE DEF K
  <2>1. /\ b \in Seq(K) /\ Len(b) = k /\ k \in 0..Len(seq) /\ DOMAIN b = 1..k
        /\ Down(b) /\ Paging!ToSet(b) = K
    BY <1>1, <1>2, Newest
  <2> QED BY <1>1, <2>1
<1>4. r = [n \in 1..k |-> seq[b[k - n + 1]]]
  BY SameCount DEF Paging!Without
<1> HIDE DEF r, b, k
<1>5. \A n \in 1..k : k - n + 1 \in 1..k /\ b[k - n + 1] \in K
  BY <1>3, ElementOfSeq
<1>6. \A n \in 1..k : r[n] \in S /\ r[n] \notin D /\ r[n] = seq[b[k - n + 1]]
  BY <1>1, <1>4, <1>5
<1>7. r \in Seq(S) /\ DOMAIN r = 1..k
  BY <1>3, <1>4, <1>6
<1>8. Paging!ToSet(r) \subseteq Paging!ToSet(seq) \ D
  BY <1>5, <1>6, <1>7 DEF Paging!ToSet
<1>9. Paging!ToSet(seq) \ D \subseteq Paging!ToSet(r)
  <2> SUFFICES ASSUME NEW n \in DOMAIN seq, seq[n] \notin D PROVE seq[n] \in Paging!ToSet(r)
    BY DEF Paging!ToSet
  <2>1. PICK m \in 1..k : b[m] = n
    BY <1>3 DEF Paging!ToSet
  <2>2. k - m + 1 \in 1..k /\ k - (k - m + 1) + 1 = m
    BY <1>3
  <2> DEFINE j == k - m + 1
  <2>3. r[j] = seq[n]
    BY <1>6, <2>1, <2>2
  <2> QED
    BY <1>7, <2>2, <2>3 DEF Paging!ToSet
<1>10. ASSUME Down(seq) PROVE Down(r)
  <2> SUFFICES ASSUME NEW i \in 1..k, NEW j \in 1..k, i < j PROVE r[i] > r[j]
    BY <1>7 DEF Down
  <2>1. k - i + 1 \in 1..k /\ k - j + 1 \in 1..k /\ k - j + 1 < k - i + 1
    BY <1>3
  <2> DEFINE p == b[k - i + 1]
             q == b[k - j + 1]
  <2>2. q > p /\ p \in K /\ q \in K
    BY <1>3, <1>5, <2>1 DEF Down
  <2>3. p \in DOMAIN seq /\ q \in DOMAIN seq /\ p < q
    BY <1>1, <2>2
  <2>4. seq[p] > seq[q]
    BY <1>10, <2>3 DEF Down
  <2> QED
    BY <1>6, <2>4
<1> QED
  BY <1>7, <1>8, <1>9, <1>10 DEF r

\* The first items of a list, and where the next ones begin.
LEMMA Leads ==
    ASSUME NEW n \in Nat, NEW A, A \subseteq 1..n, NEW p \in Nat \ {0}
    PROVE  LET s == Paging!Leading(Paging!NewestFirst(A), p)
               last == s[Len(s)]
           IN  /\ s \in Seq(A) /\ Down(s)
               /\ Cardinality(A) \in Nat
               /\ Cardinality(A) <= p => Paging!ToSet(s) = A
               /\ Cardinality(A) > p =>
                    /\ s # << >> /\ last \in A
                    /\ Paging!ToSet(s) = {i \in A : i >= last}
                    /\ Cardinality({i \in A : i >= last}) = p
<1> DEFINE a == Paging!NewestFirst(A)
           c == Cardinality(A)
           m == IF p < c THEN p ELSE c
           s == Paging!Leading(a, p)
<1>0. /\ a \in Seq(A) /\ Len(a) = c /\ c \in 0..n /\ DOMAIN a = 1..c
      /\ Down(a) /\ Paging!ToSet(a) = A
      /\ \A l \in 1..c : Cardinality({i \in A : i >= a[l]}) = l
  BY Newest
<1>1. /\ a \in Seq(A) /\ Len(a) = c /\ c \in Nat /\ DOMAIN a = 1..c
      /\ Down(a) /\ Paging!ToSet(a) = A
      /\ \A l \in 1..c : Cardinality({i \in A : i >= a[l]}) = l
  BY <1>0
<1>2. s = SubSeq(a, 1, m)
  BY <1>1 DEF Paging!Leading
<1> HIDE DEF a, c, s
<1>3. m \in Nat /\ m <= c /\ (m = c \/ m = p)
  BY <1>1
<1>4. /\ s \in Seq(A) /\ Len(s) = m /\ DOMAIN s = 1..m
      /\ \A i \in 1..m : s[i] = a[i]
  BY <1>1, <1>2, <1>3
<1>5. Down(s)
  BY <1>1, <1>3, <1>4 DEF Down
<1>6. ASSUME c <= p PROVE Paging!ToSet(s) = A
  <2>1. m = c
    BY <1>1, <1>6
  <2> QED
    BY <1>1, <1>4, <2>1 DEF Paging!ToSet
<1>7. ASSUME c > p
      PROVE  LET last == s[Len(s)] IN
             /\ s # << >> /\ last \in A
             /\ Paging!ToSet(s) = {i \in A : i >= last}
             /\ Cardinality({i \in A : i >= last}) = p
  <2> DEFINE last == s[Len(s)]
  <2>1. m = p /\ p \in 1..c
    BY <1>1, <1>7
  <2>2. last = a[p] /\ last \in A /\ s # << >>
    BY <1>1, <1>4, <2>1
  <2>3. \A i \in 1..c : i <= p <=> a[i] >= a[p]
    <3> TAKE i \in 1..c
    <3>1. a[i] \in 1..n /\ a[p] \in 1..n
      BY <1>1, <2>1, ElementOfSeq
    <3>2. i < p => a[i] > a[p]
      BY <1>1, <2>1 DEF Down
    <3>3. i > p => a[p] > a[i]
      BY <1>1, <2>1 DEF Down
    <3> QED
      BY <1>1, <2>1, <3>1, <3>2, <3>3
  <2>4. Paging!ToSet(s) = {a[i] : i \in 1..p}
    BY <1>4, <2>1 DEF Paging!ToSet
  <2>5. A = {a[i] : i \in 1..c}
    BY <1>1 DEF Paging!ToSet
  <2>6. Paging!ToSet(s) = {i \in A : i >= a[p]}
    <3>1. \A i \in 1..p : i \in 1..c /\ a[i] >= a[p]
      BY <1>1, <2>1, <2>3
    <3>2. \A i \in 1..c : a[i] >= a[p] => i \in 1..p
      BY <1>1, <2>1, <2>3
    <3> QED
      BY <2>4, <2>5, <3>1, <3>2
  <2>7. Cardinality({i \in A : i >= a[p]}) = p
    BY <1>1, <2>1
  <2> QED
    BY <2>2, <2>6, <2>7
<1> QED
  BY <1>1, <1>4, <1>5, <1>6, <1>7 DEF s, a, c

\* As many numbers as lie from x up to n.
LEMMA Room ==
    ASSUME NEW n \in Nat, NEW A, A \subseteq 1..n, NEW x \in A, NEW p \in Nat,
           Cardinality({i \in A : i >= x}) = p
    PROVE  x + p <= n + 1
<1> DEFINE U == {i \in A : i >= x}
<1>1. x \in 1..n /\ IsFiniteSet(x..n) /\ Cardinality(x..n) = n - x + 1
  BY FS_Interval
<1>2. U \subseteq x..n
  <2> SUFFICES ASSUME NEW i \in A, i >= x PROVE i \in x..n
    OBVIOUS
  <2>1. i \in 1..n
    OBVIOUS
  <2> QED BY <1>1, <2>1
<1>3. Cardinality(U) <= Cardinality(x..n)
  <2> HIDE DEF U
  <2> QED BY <1>1, <1>2, FS_Subset
<1> QED
  BY <1>1, <1>3

\* What one list after another has.
LEMMA Joined ==
    ASSUME NEW S, NEW s \in Seq(S), NEW t \in Seq(S)
    PROVE  /\ s \o t \in Seq(S)
           /\ Paging!ToSet(s \o t) = Paging!ToSet(s) \cup Paging!ToSet(t)
           /\ Down(s) /\ Down(t) /\ (\A i \in Paging!ToSet(s), j \in Paging!ToSet(t) : i > j)
              => Down(s \o t)
<1> DEFINE u == s \o t
           m == Len(s)
           n == Len(t)
<1>1. /\ m \in Nat /\ n \in Nat /\ DOMAIN s = 1..m /\ DOMAIN t = 1..n
      /\ u \in Seq(S) /\ DOMAIN u = 1..(m + n)
      /\ \A i \in 1..(m + n) : u[i] = IF i <= m THEN s[i] ELSE t[i - m]
  BY LenProperties, ConcatProperties
<1> HIDE DEF u, m, n
<1>2. Paging!ToSet(u) = Paging!ToSet(s) \cup Paging!ToSet(t)
  <2>1. \A i \in 1..m : i \in 1..(m + n) /\ u[i] = s[i]
    BY <1>1
  <2>2. \A i \in 1..n : m + i \in 1..(m + n) /\ u[m + i] = t[i]
    BY <1>1
  <2>3. \A i \in 1..(m + n) : (i \in 1..m /\ u[i] = s[i]) \/ (i - m \in 1..n /\ u[i] = t[i - m])
    BY <1>1
  <2>4. Paging!ToSet(u) \subseteq Paging!ToSet(s) \cup Paging!ToSet(t)
    <3> SUFFICES ASSUME NEW i \in 1..(m + n) PROVE u[i] \in Paging!ToSet(s) \cup Paging!ToSet(t)
      BY <1>1 DEF Paging!ToSet
    <3> QED
      BY <1>1, <2>3 DEF Paging!ToSet
  <2>5. \A i \in 1..m : s[i] \in Paging!ToSet(u)
    BY <1>1, <2>1 DEF Paging!ToSet
  <2>6. \A i \in 1..n : t[i] \in Paging!ToSet(u)
    <3> TAKE i \in 1..n
    <3> DEFINE j == m + i
    <3>1. j \in 1..(m + n) /\ u[j] = t[i]
      BY <2>2
    <3> QED
      BY <1>1, <3>1 DEF Paging!ToSet
  <2>7. /\ \A x \in Paging!ToSet(s) : x \in Paging!ToSet(u)
        /\ \A x \in Paging!ToSet(t) : x \in Paging!ToSet(u)
    BY <1>1, <2>5, <2>6 DEF Paging!ToSet
  <2> QED
    BY <2>4, <2>7
<1>3. ASSUME Down(s), Down(t), \A i \in Paging!ToSet(s), j \in Paging!ToSet(t) : i > j
      PROVE  Down(u)
  <2> SUFFICES ASSUME NEW i \in 1..(m + n), NEW j \in 1..(m + n), i < j PROVE u[i] > u[j]
    BY <1>1 DEF Down
  <2>1. CASE j <= m
    BY <1>1, <1>3, <2>1 DEF Down
  <2>2. CASE i > m
    <3>1. i - m \in 1..n /\ j - m \in 1..n /\ i - m < j - m /\ u[i] = t[i - m] /\ u[j] = t[j - m]
      BY <1>1, <2>2
    <3> QED
      BY <1>1, <1>3, <3>1 DEF Down
  <2>3. CASE i <= m /\ j > m
    <3>1. i \in 1..m /\ j - m \in 1..n /\ u[i] = s[i] /\ u[j] = t[j - m]
      BY <1>1, <2>3
    <3> QED
      BY <1>1, <1>3, <3>1 DEF Paging!ToSet
  <2> QED
    BY <1>1, <2>1, <2>2, <2>3
<1> QED
  BY <1>1, <1>2, <1>3 DEF u

-----------------------------------------------------------------------------
\* The invariant of a walk.

Items == 1..MaxItem
Cursors == Items \cup {None}

\* The items up to where a page ends, and those of S beyond where it begins.
UpTo(c) == {i \in Items : c = None \/ i >= c}
Beyond(S, c) == {i \in S : c = None \/ i < c}

\* The cached first page of the feed.
Rows == [items : Seq(Items), cursor : Cursors]

\* What a reader makes of a reply: its cursor, and the items that can be shown.
LEMMA ReadsPage ==
    ASSUME endpoint \in Endpoints, endpoint # "search", place \in Paging!Places(endpoint),
           reply.items \in Seq(Items),
           endpoint = "station" => reply.next = None,
           IF Paging!ListsAll(endpoint) THEN reply.items = << >> => reply.next = None
           ELSE Paging!ToSet(reply.items) \cap hidden = {}
    PROVE  LET page == Paging!PageRead IN
           /\ page.next = reply.next
           /\ page.items \in Seq(Items)
           /\ Paging!ToSet(page.items) = Paging!ToSet(reply.items) \ hidden
           /\ Down(reply.items) => Down(page.items)
<1> DEFINE shown == Paging!Shown(reply.items)
           page == Paging!PageRead
<1>1. /\ shown \in Seq(Items) /\ Paging!ToSet(shown) = Paging!ToSet(reply.items) \ hidden
      /\ Down(reply.items) => Down(shown)
  BY Filtered DEF Paging!Shown
<1>3. /\ page.next = reply.next
      /\ \/ page.items = shown
         \/ page.items = reply.items /\ ~Paging!ListsAll(endpoint)
         \/ page.items = << >> /\ reply.items = << >>
  <2> HIDE DEF shown
  <2>0. endpoint \in Paging!Lists
    BY ListAssumption
  <2>1. CASE endpoint \in {"feed", "likes"}
    BY <2>1 DEF Paging!PageRead, Paging!FeedPage, Paging!LikesPage, Paging!Page, Paging!NextCursor,
       Paging!CursorIn, Paging!Places, Paging!ListsAll, shown
  <2>2. CASE endpoint \in {"trending", "unrated", "chat", "station"}
    BY <2>2 DEF Paging!PageRead, Paging!TrendingPage, Paging!UnratedPage, Paging!ChatPage,
          Paging!StationPage,
       Paging!Page, Paging!NextCursor, Paging!CursorIn, Paging!Places, Paging!ListsAll, shown
  <2>3. CASE endpoint \in {"all", "comments", "hashtag", "group"}
    BY <2>3 DEF Paging!PageRead, Paging!AllPage, Paging!CommentsPage, Paging!HashtagPage,
          Paging!GroupPage,
       Paging!Page, Paging!NextCursor, Paging!CursorIn, Paging!Places, Paging!ListsAll
  <2>4. CASE endpoint \in {"businesses", "events", "category", "reviews", "mine", "collection"}
    BY <2>4 DEF Paging!PageRead, Paging!BusinessesPage, Paging!EventsPage, Paging!CategoryPage,
       Paging!ReviewsPage, Paging!MyReviewsPage, Paging!CollectionPage,
       Paging!Page, Paging!CursorIn, Paging!Places, Paging!ListsAll
  <2> QED
    BY <2>0, <2>1, <2>2, <2>3, <2>4 DEF Paging!Lists
<1> HIDE DEF shown, page
<1>4. CASE page.items = << >> /\ reply.items = << >>
  <2>1. Paging!ToSet(<< >>) = {} /\ Down(<< >>) /\ << >> \in Seq(Items)
    BY DEF Paging!ToSet, Down
  <2> QED
    BY <1>3, <1>4, <2>1 DEF page
<1>5. CASE page.items = shown
  BY <1>1, <1>3, <1>5 DEF page
<1>6. CASE page.items = reply.items /\ ~Paging!ListsAll(endpoint)
  <2>1. Paging!ToSet(reply.items) \ hidden = Paging!ToSet(reply.items)
    BY <1>6
  <2> QED
    BY <1>3, <1>6, <2>1 DEF page
<1> QED
  BY <1>3, <1>4, <1>5, <1>6 DEF page

Walks == [pc : {"idle", "asked", "appending", "done"}, at : Nat \cup {None}, got : Seq(Items),
          pages : Nat, cached : BOOLEAN]

\* What is walked along.  Hidden items are not due.
Setting ==
    /\ endpoint \in Endpoints /\ place \in Paging!Places(endpoint) /\ counted \in BOOLEAN
    /\ listing \subseteq Items /\ hidden \subseteq Items /\ due \subseteq listing \ hidden
    /\ endpoint = "search" => hidden = {}
    /\ again \in 0..MaxAgain

\* A walk at the top has nothing yet.
WalkShape ==
    /\ walk \in Walks
    /\ walk.pc \notin {"asked", "appending"} => reply = None
    /\ walk.pc = "done" => walk.at = None
    /\ walk.at = None /\ walk.pc # "done" =>
         walk.got = << >> /\ walk.pages = 0 /\ ~walk.cached
    /\ walk.cached => endpoint = "feed"
    /\ feedRow # None => endpoint = "feed" /\ feedRow \in Rows

\* The walk has all that is due up to where it stands, and leaves room for the
\* pages it took.
Covers ==
    /\ walk.at \in Cursors
    /\ endpoint = "station" => walk.at = None
    /\ walk.at # None => walk.at + walk.pages * PageSize <= MaxItem + 1
    /\ walk.pc = "done" => walk.pages * PageSize <= MaxItem + PageSize
    /\ Paging!ToSet(walk.got) \cap hidden = {}
    /\ walk.at # None \/ walk.pc = "done" =>
         due \cap UpTo(walk.at) \subseteq Paging!ToSet(walk.got)
    /\ ~walk.cached =>
         Down(walk.got) /\ (walk.at # None => Paging!ToSet(walk.got) \subseteq UpTo(walk.at))

\* So has the cached feed, which stands where the walk does.
RowCovers ==
    /\ endpoint = "feed" /\ walk.at # None => feedRow # None /\ feedRow.cursor = walk.at
    /\ feedRow # None => due \cap UpTo(feedRow.cursor) \subseteq Paging!ToSet(feedRow.items)

\* A reply has the items from where the walk stands to its own cursor.
ReplyCovers(r) ==
    LET A == Beyond(r.listed, walk.at)
        page == A \cap UpTo(r.next)
    IN  /\ r.listed \subseteq Items /\ r.items \in Seq(Items) /\ r.next \in Cursors
        /\ Down(r.items) /\ Paging!ToSet(r.items) \subseteq page
        /\ page \ hidden \subseteq Paging!ToSet(r.items)
        /\ IF Paging!ListsAll(endpoint) THEN page \subseteq Paging!ToSet(r.items)
           ELSE Paging!ToSet(r.items) \cap hidden = {}
        /\ r.next # None =>
             /\ r.next \in A
             /\ r.next + PageSize <= (IF walk.at = None THEN MaxItem + 1 ELSE walk.at)
        /\ endpoint = "station" => r.next = None
        /\ walk.at # None => due \subseteq r.listed

ReplyHolds == reply # None => ReplyCovers(reply)

\* The row that a page is to extend is still the cached one.
RowHolds == walk.pc = "appending" => endpoint = "feed" /\ reply.read = feedRow

ListInv == Setting /\ WalkShape /\ Covers /\ RowCovers /\ ReplyHolds /\ RowHolds

\* What the walks need of the constants, from ListAssumption.
LEMMA ListConstants ==
    /\ MaxItem \in Nat /\ PageSize \in Nat /\ PageSize >= 1 /\ MaxAgain \in Nat
    /\ None \notin Items /\ None \notin Rows /\ Endpoints \subseteq Paging!Lists
BY ListAssumption DEF Items, Rows, Cursors

\* Asking, failing, posting and deleting leave what the walk covers as it is.
LEMMA ListAsk ==
    ASSUME ListInv, Paging!Ask
    PROVE  ListInv'
<1>1. walk \in Walks /\ walk' = [walk EXCEPT !.pc = "asked"] /\ walk.pc = "idle"
  BY DEF ListInv, WalkShape, Paging!Ask
<1>2. /\ walk' \in Walks /\ walk'.pc = "asked" /\ walk'.at = walk.at /\ walk'.got = walk.got
      /\ walk'.pages = walk.pages /\ walk'.cached = walk.cached
  BY <1>1 DEF Walks
<1>3. Setting'
  BY DEF ListInv, Setting, Paging!Ask
<1>4. WalkShape'
  BY <1>1, <1>2 DEF ListInv, WalkShape, Paging!Ask
<1>5. Covers'
  BY <1>1, <1>2 DEF ListInv, Covers, Paging!Ask
<1>6. RowCovers'
  BY <1>1, <1>2 DEF ListInv, RowCovers, Paging!Ask
<1>7. ReplyHolds'
  BY <1>1, <1>2 DEF ListInv, ReplyHolds, ReplyCovers, Paging!Ask
<1> QED
  BY <1>2, <1>3, <1>4, <1>5, <1>6, <1>7 DEF ListInv, RowHolds

\* So does the read of the row that a page is to extend.
LEMMA ListReadRow ==
    ASSUME ListInv, Paging!ReadRow
    PROVE  ListInv'
<1>1. /\ walk \in Walks /\ walk' = [walk EXCEPT !.pc = "appending"] /\ walk.pc = "asked" /\ reply # None
      /\ reply' = [items |-> reply.items, next |-> reply.next, listed |-> reply.listed, read |-> feedRow]
      /\ UNCHANGED <<endpoint, place, counted, listing, hidden, feedRow, due, again>>
      /\ endpoint = "feed"
  BY DEF ListInv, WalkShape, Paging!ReadRow, Paging!Appends
<1>2. /\ walk' \in Walks /\ walk'.pc = "appending" /\ walk'.at = walk.at /\ walk'.got = walk.got
      /\ walk'.pages = walk.pages /\ walk'.cached = walk.cached
  BY <1>1 DEF Walks
<1>3. Setting'
  BY <1>1 DEF ListInv, Setting
<1>4. WalkShape'
  BY <1>1, <1>2 DEF ListInv, WalkShape
<1>5. Covers'
  BY <1>1, <1>2 DEF ListInv, Covers
<1>6. RowCovers'
  BY <1>1, <1>2 DEF ListInv, RowCovers
<1>7. /\ reply'.items = reply.items /\ reply'.next = reply.next /\ reply'.listed = reply.listed
      /\ reply'.read = feedRow
  BY <1>1
<1>8. ReplyHolds'
  BY <1>1, <1>2, <1>7 DEF ListInv, ReplyHolds, ReplyCovers
<1> QED
  BY <1>1, <1>3, <1>4, <1>5, <1>6, <1>7, <1>8 DEF ListInv, RowHolds

LEMMA ListFail ==
    ASSUME ListInv, Paging!Fail
    PROVE  ListInv'
<1>1. /\ walk \in Walks /\ walk' = [walk EXCEPT !.pc = "idle"]
      /\ walk.pc \in {"asked", "appending"}
      /\ reply' = None
  BY DEF ListInv, WalkShape, Paging!Fail
<1>2. /\ walk' \in Walks /\ walk'.pc = "idle" /\ walk'.at = walk.at /\ walk'.got = walk.got
      /\ walk'.pages = walk.pages /\ walk'.cached = walk.cached
  BY <1>1 DEF Walks
<1>3. Setting'
  BY ListConstants DEF ListInv, Setting, Paging!Fail, Paging!Again
<1>4. WalkShape'
  BY <1>1, <1>2 DEF ListInv, WalkShape, Paging!Fail
<1>5. Covers'
  BY <1>1, <1>2 DEF ListInv, Covers, Paging!Fail
<1>6. RowCovers'
  BY <1>1, <1>2 DEF ListInv, RowCovers, Paging!Fail
<1>7. ReplyHolds' /\ RowHolds'
  BY <1>1, <1>2 DEF ReplyHolds, RowHolds
<1> QED
  BY <1>3, <1>4, <1>5, <1>6, <1>7 DEF ListInv

LEMMA ListPost ==
    ASSUME ListInv, NEW i \in 1..MaxItem, Paging!Post(i)
    PROVE  ListInv'
<1>1. Setting'
  BY DEF ListInv, Setting, Paging!Post, Items
<1>2. WalkShape' /\ Covers' /\ RowCovers' /\ ReplyHolds' /\ RowHolds'
  BY DEF ListInv, WalkShape, Covers, RowCovers, ReplyHolds, ReplyCovers, RowHolds, Paging!Post
<1> QED
  BY <1>1, <1>2 DEF ListInv

LEMMA ListDelete ==
    ASSUME ListInv, NEW i \in 1..MaxItem, Paging!Delete(i)
    PROVE  ListInv'
<1>1. Setting'
  BY DEF ListInv, Setting, Paging!Delete
<1>2. due' \subseteq due
  BY DEF Paging!Delete
<1>3. WalkShape'
  BY DEF ListInv, WalkShape, Paging!Delete
<1>4. Covers'
  BY <1>2 DEF ListInv, Covers, Paging!Delete
<1>5. RowCovers'
  BY <1>2 DEF ListInv, RowCovers, Paging!Delete
<1>6. ReplyHolds' /\ RowHolds'
  BY <1>2 DEF ListInv, ReplyHolds, ReplyCovers, RowHolds, Paging!Delete
<1> QED
  BY <1>1, <1>3, <1>4, <1>5, <1>6 DEF ListInv

\* A walk at the top has read nothing.
LEMMA TopWalk ==
    /\ Paging!AtTop \in Walks /\ Paging!AtTop.pc = "idle" /\ Paging!AtTop.at = None
    /\ Paging!AtTop.got = << >> /\ Paging!AtTop.pages = 0 /\ ~Paging!AtTop.cached
    /\ Paging!ToSet(<< >>) = {} /\ Down(<< >>)
BY DEF Paging!AtTop, Walks, Paging!ToSet, Down

\* Going back to the top is right whatever was read before.
LEMMA TopKeeps ==
    ASSUME ListInv, Setting', walk' = Paging!AtTop, reply' = None,
           UNCHANGED <<endpoint, hidden, feedRow, due>>
    PROVE  ListInv'
<1>1. WalkShape'
  BY TopWalk DEF ListInv, WalkShape
<1>2. Covers'
  BY TopWalk DEF ListInv, Covers, Cursors
<1>3. RowCovers'
  BY TopWalk DEF ListInv, RowCovers
<1>4. ReplyHolds' /\ RowHolds'
  BY TopWalk DEF ReplyHolds, RowHolds
<1> QED
  BY <1>1, <1>2, <1>3, <1>4 DEF ListInv

\* A pull to refresh goes back to the top.
LEMMA ListRefetch ==
    ASSUME ListInv, Paging!Refetch
    PROVE  ListInv'
<1>1. Setting'
  BY ListConstants DEF ListInv, Setting, Paging!Refetch, Paging!Again
<1>2. /\ walk' = Paging!AtTop /\ reply' = None
      /\ UNCHANGED <<endpoint, hidden, feedRow, due>>
  BY DEF ListInv, WalkShape, Paging!Refetch
<1> QED
  BY <1>1, <1>2, TopKeeps

\* A reload shows the cached feed and goes on from its cursor.
LEMMA ListReload ==
    ASSUME ListInv, Paging!Reload
    PROVE  ListInv'
<1>1. Setting'
  BY ListConstants DEF ListInv, Setting, Paging!Reload, Paging!Again
<1>2. CASE feedRow = None
  BY <1>1, <1>2, TopKeeps DEF Paging!Reload
<1>3. CASE feedRow # None
  <2> DEFINE got2 == Paging!Shown(feedRow.items)
             at2 == feedRow.cursor
  <2>1. feedRow.items \in Seq(Items) /\ at2 \in Cursors /\ endpoint = "feed"
    BY <1>3 DEF ListInv, WalkShape, Rows
  <2>2. got2 \in Seq(Items) /\ Paging!ToSet(got2) = Paging!ToSet(feedRow.items) \ hidden
    BY <2>1, Filtered DEF Paging!Shown
  <2>3. /\ walk' = [pc |-> Paging!StandingAt(at2), at |-> at2, got |-> got2,
                    pages |-> 0, cached |-> TRUE]
        /\ reply' = None
        /\ UNCHANGED <<endpoint, place, counted, listing, hidden, feedRow, due>>
    BY <1>3 DEF Paging!Reload
  <2> HIDE DEF got2, at2
  <2>4. /\ walk'.pc = Paging!StandingAt(at2) /\ walk'.at = at2 /\ walk'.got = got2
        /\ walk'.pages = 0 /\ walk'.cached
    BY <2>3
  <2>5. walk' \in Walks
    BY <2>1, <2>2, <2>3 DEF Walks, Paging!StandingAt, Cursors, Items
  <2>6. WalkShape'
    BY <2>1, <2>3, <2>4, <2>5 DEF ListInv, WalkShape, Paging!StandingAt
  <2>7. due \cap UpTo(at2) \subseteq Paging!ToSet(got2)
    <3>1. due \cap hidden = {}
      BY DEF ListInv, Setting
    <3> QED
      BY <1>3, <2>2, <3>1 DEF ListInv, RowCovers, at2
  <2>8. 0 * PageSize = 0
    BY ListConstants
  <2>9. Covers'
    <3>1. at2 # None => at2 + 0 * PageSize <= MaxItem + 1
      BY <2>1, <2>8, ListConstants DEF Cursors, Items
    <3>2. 0 * PageSize <= MaxItem + PageSize
      BY <2>8, ListConstants
    <3> QED
      BY <2>1, <2>2, <2>3, <2>4, <2>7, <3>1, <3>2 DEF Covers, UpTo
  <2>10. RowCovers'
    BY <1>3, <2>3, <2>4 DEF ListInv, RowCovers, at2
  <2> QED
    BY <1>1, <2>3, <2>4, <2>6, <2>9, <2>10 DEF ListInv, ReplyHolds, RowHolds, Paging!StandingAt
<1> QED
  BY <1>2, <1>3

\* A page of the items after the cursor, and whether there are more.
LEMMA ServesPage ==
    ASSUME ListInv, walk.pc = "asked", endpoint # "station"
    PROVE  ReplyCovers(Paging!ServeCursor(walk.at))
<1> DEFINE A == Beyond(listing, walk.at)
           c == Cardinality(A)
           s == Paging!Leading(Paging!NewestFirst(A), PageSize)
           last == s[Len(s)]
           r == Paging!ServeCursor(walk.at)
<1>1. A \subseteq Items /\ Paging!After(walk.at) = A /\ listing \subseteq Items
  BY DEF ListInv, Setting, Beyond, Paging!After
<1>2. PageSize \in Nat /\ PageSize >= 1 /\ PageSize \in Nat \ {0} /\ MaxItem \in Nat
        /\ None \notin Items
  BY ListConstants
<1>3. /\ r.items = IF Paging!ListsAll(endpoint) THEN s ELSE Paging!Shown(s)
      /\ r.next = IF c > PageSize THEN last ELSE None
      /\ r.listed = listing
  BY <1>1, SameCount DEF Paging!ServeCursor
<1> HIDE DEF A
<1>4. /\ s \in Seq(A) /\ Down(s) /\ c \in Nat
      /\ c <= PageSize => Paging!ToSet(s) = A
      /\ c > PageSize => /\ s # << >> /\ last \in A
                         /\ Paging!ToSet(s) = {i \in A : i >= last}
                         /\ Cardinality({i \in A : i >= last}) = PageSize
  <2>1. A \subseteq 1..MaxItem
    BY <1>1 DEF Items
  <2> QED BY <1>2, <2>1, Leads
<1> HIDE DEF s, c, r
<1>5. Paging!ToSet(s) = A \cap UpTo(r.next) /\ r.next \in Cursors /\ (r.next # None
        => r.next \in A /\ c > PageSize)
  <2>1. CASE c > PageSize
    <3>1. r.next = last /\ last \in A /\ last # None
      BY <1>1, <1>2, <1>3, <1>4, <2>1
    <3>2. Paging!ToSet(s) = {i \in A : i >= r.next}
      BY <1>4, <2>1, <3>1
    <3> HIDE DEF last
    <3>3. \A i \in A : i \in UpTo(r.next) <=> i >= r.next
      BY <1>1, <3>1 DEF UpTo
    <3> QED
      BY <1>1, <2>1, <3>1, <3>2, <3>3 DEF Cursors
  <2>2. CASE ~(c > PageSize)
    <3>1. c <= PageSize
      BY <1>2, <1>4, <2>2
    <3>2. r.next = None /\ Paging!ToSet(s) = A
      BY <1>3, <1>4, <2>2, <3>1
    <3> QED
      BY <1>1, <3>2 DEF UpTo, Cursors
  <2> QED BY <2>1, <2>2
<1>6. s \in Seq(Items)
  BY <1>1, <1>4
<1>7. /\ r.items \in Seq(Items) /\ Down(r.items)
      /\ Paging!ToSet(r.items) = IF Paging!ListsAll(endpoint) THEN Paging!ToSet(s)
            ELSE Paging!ToSet(s) \ hidden
  <2>1. CASE Paging!ListsAll(endpoint)
    BY <1>3, <1>4, <1>6, <2>1
  <2>2. CASE ~Paging!ListsAll(endpoint)
    <3>1. r.items = Paging!Without(s, hidden)
      BY <1>3, <2>2 DEF Paging!Shown
    <3> QED
      BY <1>4, <1>6, <2>2, <3>1, Filtered
  <2> QED BY <2>1, <2>2
<1>8. ASSUME r.next # None
      PROVE  r.next + PageSize <= (IF walk.at = None THEN MaxItem + 1 ELSE walk.at)
  <2> DEFINE top == IF walk.at = None THEN MaxItem ELSE walk.at - 1
             x == r.next
  <2>1. walk.at \in Cursors
    BY DEF ListInv, Covers
  <2>2. top \in Nat /\ A \subseteq 1..top
    <3>1. CASE walk.at = None
      BY <1>1, <1>2, <3>1 DEF Items
    <3>2. CASE walk.at # None
      <4>1. walk.at \in 1..MaxItem
        BY <2>1, <3>2 DEF Cursors, Items
      <4>2. top \in Nat
        BY <1>2, <3>2, <4>1
      <4>3. ASSUME NEW i \in A PROVE i \in 1..top
        <5>1. i \in 1..MaxItem /\ i < walk.at
          BY <1>1, <3>2 DEF A, Beyond, Items
        <5> QED BY <1>2, <3>2, <4>1, <5>1
      <4> QED BY <4>2, <4>3
    <3> QED BY <3>1, <3>2
  <2>3. x \in A /\ Cardinality({i \in A : i >= x}) = PageSize
    <3>1. c > PageSize /\ x \in A
      BY <1>5, <1>8
    <3>2. x = last
      BY <1>3, <3>1
    <3>3. Cardinality({i \in A : i >= last}) = PageSize
      BY <1>4, <3>1
    <3> HIDE DEF last, x
    <3> QED BY <3>1, <3>2, <3>3
  <2> HIDE DEF top, x
  <2>4. x + PageSize <= top + 1
    BY <1>2, <2>2, <2>3, Room
  <2> QED
    BY <1>2, <2>1, <2>4 DEF top, x, Cursors, Items
<1>9. due \subseteq listing
  BY DEF ListInv, Setting
<1> HIDE DEF last
<1> QED
  BY <1>1, <1>3, <1>5, <1>7, <1>8, <1>9 DEF ReplyCovers, A, r

\* The tracks of a station, all of them.
LEMMA ServesAll ==
    ASSUME ListInv, walk.pc = "asked", endpoint = "station"
    PROVE  ReplyCovers(Paging!ServeAll)
<1> DEFINE s == Paging!NewestFirst(listing)
           r == Paging!ServeAll
<1>1. listing \subseteq Items /\ due \subseteq listing /\ walk.at = None
        /\ Paging!ListsAll(endpoint)
  BY DEF ListInv, Setting, Covers, Paging!ListsAll
<1>2. s \in Seq(listing) /\ Down(s) /\ Paging!ToSet(s) = listing
  <2>1. listing \subseteq 1..MaxItem /\ MaxItem \in Nat
    BY <1>1, ListConstants DEF Items
  <2> QED BY <2>1, Newest
<1>3. r.items = s /\ r.next = None /\ r.listed = listing
  BY DEF Paging!ServeAll
<1> HIDE DEF s, r
<1>4. s \in Seq(Items)
  BY <1>1, <1>2
<1>5. Beyond(listing, walk.at) \cap UpTo(None) = listing
  BY <1>1 DEF Beyond, UpTo
<1> QED
  BY <1>1, <1>2, <1>3, <1>4, <1>5 DEF ReplyCovers, Cursors, r

\* Whatever the endpoint, the reply has the items from where the walk stands.
LEMMA ListServe ==
    ASSUME ListInv, endpoint # "search", Paging!Serve
    PROVE  ListInv'
<1>1. /\ UNCHANGED <<endpoint, place, counted, listing, hidden, walk, feedRow, due, again>>
      /\ walk.pc = "asked"
  BY DEF Paging!Serve
<1>2. ReplyCovers(reply')
  <2>1. CASE endpoint = "station"
    <3>1. reply' = Paging!ServeAll
      BY <2>1 DEF Paging!Serve
    <3> QED BY <1>1, <2>1, <3>1, ServesAll
  <2>2. CASE endpoint # "station"
    <3>1. reply' = Paging!ServeCursor(walk.at)
      BY <2>2 DEF Paging!Serve
    <3> QED BY <1>1, <2>2, <3>1, ServesPage
  <2> QED BY <2>1, <2>2
<1>3. Setting' /\ Covers' /\ RowCovers'
  BY <1>1 DEF ListInv, Setting, Covers, RowCovers
<1>4. WalkShape'
  BY <1>1 DEF ListInv, WalkShape
<1>5. ReplyHolds' /\ RowHolds'
  BY <1>1, <1>2 DEF ReplyHolds, ReplyCovers, RowHolds
<1> QED
  BY <1>3, <1>4, <1>5 DEF ListInv

\* An empty reply of a list that is served as it is is its last.
LEMMA EmptyIsLast ==
    ASSUME reply # None, ReplyHolds, Paging!ListsAll(endpoint), reply.items = << >>
    PROVE  reply.next = None /\ Beyond(reply.listed, walk.at) = {}
<1>1. Paging!ToSet(reply.items) = {}
  BY DEF Paging!ToSet
<1>2. reply.next = None
  <2> SUFFICES ASSUME reply.next # None PROVE FALSE
    OBVIOUS
  <2>1. reply.next \in Items /\ reply.next \in Beyond(reply.listed, walk.at)
    BY DEF ReplyHolds, ReplyCovers, Cursors
  <2>2. reply.next \in UpTo(reply.next)
    BY <2>1 DEF UpTo, Items
  <2> QED
    BY <1>1, <2>1, <2>2 DEF ReplyHolds, ReplyCovers
<1>3. Beyond(reply.listed, walk.at) \subseteq UpTo(None)
  BY DEF ReplyHolds, ReplyCovers, Beyond, UpTo
<1> QED
  BY <1>1, <1>2, <1>3 DEF ReplyHolds, ReplyCovers

\* What is due up to the next cursor is due up to this one or on the page.
LEMMA PageCovers ==
    ASSUME ListInv, reply # None, walk.at # None,
           NEW G, due \cap UpTo(walk.at) \subseteq G
    PROVE  due \cap UpTo(reply.next) \subseteq G \cup Paging!ToSet(reply.items)
<1> SUFFICES ASSUME NEW i \in due, i \in UpTo(reply.next), i \notin G
             PROVE  i \in Paging!ToSet(reply.items)
  OBVIOUS
<1>1. i \in Items /\ i \notin hidden /\ i \in reply.listed /\ walk.at \in Items
  BY DEF ListInv, Setting, ReplyHolds, ReplyCovers, Covers, Cursors
<1>2. i < walk.at
  <2>1. ~(i >= walk.at)
    BY <1>1 DEF UpTo
  <2> QED BY <1>1, <2>1, ListConstants DEF Items
<1>3. i \in Beyond(reply.listed, walk.at)
  BY <1>1, <1>2 DEF Beyond
<1> QED
  BY <1>1, <1>3 DEF ListInv, ReplyHolds, ReplyCovers

\* One page more.
LEMMA Times ==
    ASSUME NEW k \in Nat
    PROVE  k * PageSize \in Nat /\ (k + 1) * PageSize = k * PageSize + PageSize /\ 0 * PageSize = 0
BY ListConstants

\* A page that arrives is joined to what the walk has, and to the cached feed.
LEMMA ListArrive ==
    ASSUME ListInv, endpoint # "search", Paging!Arrive
    PROVE  ListInv'
<1> DEFINE page == Paging!PageRead
           next == reply.next
           A == Beyond(reply.listed, walk.at)
           got2 == walk.got \o page.items
<1>1. /\ walk \in Walks /\ reply # None /\ reply' = None
      /\ UNCHANGED <<endpoint, place, counted, listing, hidden, again>>
      /\ walk' = [walk EXCEPT !.pc = Paging!StandingAt(page.next), !.at = page.next,
                              !.got = @ \o page.items, !.pages = @ + 1]
      /\ feedRow' = Paging!CachedFeed(page)
      /\ due' = IF walk.at = None THEN (reply.listed \cap listing) \ hidden ELSE due
      /\ Paging!Appends => reply.read = feedRow
  BY DEF ListInv, WalkShape, RowHolds, Paging!Arrive
<1>2. /\ reply.listed \subseteq Items /\ reply.items \in Seq(Items) /\ next \in Cursors
      /\ Down(reply.items) /\ Paging!ToSet(reply.items) \subseteq A \cap UpTo(next)
      /\ (A \cap UpTo(next)) \ hidden \subseteq Paging!ToSet(reply.items)
      /\ ~Paging!ListsAll(endpoint) => Paging!ToSet(reply.items) \cap hidden = {}
      /\ next # None => next \in A /\ next + PageSize <= (IF walk.at = None THEN MaxItem + 1
            ELSE walk.at)
      /\ endpoint = "station" => next = None
      /\ walk.at # None => due \subseteq reply.listed
  BY <1>1 DEF ListInv, ReplyHolds, ReplyCovers
<1>3. Paging!ListsAll(endpoint) /\ reply.items = << >> => next = None /\ A = {}
  BY <1>1, EmptyIsLast DEF ListInv
<1>4. /\ page.next = next /\ page.items \in Seq(Items)
      /\ Paging!ToSet(page.items) = Paging!ToSet(reply.items) \ hidden
      /\ Down(page.items)
  <2>1. /\ endpoint \in Endpoints /\ place \in Paging!Places(endpoint)
    BY DEF ListInv, Setting
  <2> QED
    BY <1>2, <1>3, <2>1, ReadsPage
<1> HIDE DEF page, next, A
<1>5. /\ walk'.pc = Paging!StandingAt(next) /\ walk'.at = next /\ walk'.got = got2
      /\ walk'.pages = walk.pages + 1 /\ walk'.cached = walk.cached
  BY <1>1, <1>4 DEF Walks
<1>6. /\ MaxItem \in Nat /\ PageSize \in Nat /\ PageSize >= 1 /\ None \notin Items
      /\ next \in Items \cup {None} /\ walk.at \in Items \cup {None}
      /\ walk.pages \in Nat /\ walk.got \in Seq(Items)
  BY <1>1, <1>2, ListConstants DEF ListInv, Covers, Cursors, Walks
<1>7. /\ got2 \in Seq(Items)
      /\ Paging!ToSet(got2) = Paging!ToSet(walk.got) \cup Paging!ToSet(page.items)
      /\ (Down(walk.got) /\ \A i \in Paging!ToSet(walk.got),
            j \in Paging!ToSet(page.items) : i > j) => Down(got2)
  BY <1>4, <1>6, Joined
<1>8. \A i \in A : i \in Items /\ i \in reply.listed /\ (walk.at # None => i < walk.at)
  BY <1>2 DEF A, Beyond
<1>9. walk' \in Walks
  <2>1. walk.pages + 1 \in Nat /\ Paging!StandingAt(next) \in {"idle", "done"}
          /\ next \in Nat \cup {None}
    BY <1>6 DEF Paging!StandingAt, Items
  <2> QED
    BY <1>1, <1>4, <1>7, <2>1 DEF Walks
<1>10. due' \subseteq listing \ hidden
  BY <1>1 DEF ListInv, Setting
<1>11. Setting'
  BY <1>1, <1>10 DEF ListInv, Setting
\* What is due from the top.
<1>12. walk.at = None =>
         /\ walk.got = << >> /\ walk.pages = 0 /\ ~walk.cached
         /\ A = reply.listed
         /\ due' \cap UpTo(next) \subseteq Paging!ToSet(page.items)
         /\ due' \cap UpTo(next) \subseteq Paging!ToSet(reply.items)
  <2> SUFFICES ASSUME walk.at = None
               PROVE  /\ walk.got = << >> /\ walk.pages = 0 /\ ~walk.cached
                      /\ A = reply.listed
                      /\ due' \cap UpTo(next) \subseteq Paging!ToSet(page.items)
                      /\ due' \cap UpTo(next) \subseteq Paging!ToSet(reply.items)
    OBVIOUS
  <2>1. walk.got = << >> /\ walk.pages = 0 /\ ~walk.cached
    BY <1>1 DEF ListInv, WalkShape
  <2>2. A = reply.listed
    BY DEF A, Beyond
  <2>3. due' \subseteq reply.listed \ hidden
    BY <1>1
  <2> QED
    BY <1>2, <1>4, <2>1, <2>2, <2>3
<1>13. Covers'
  <2>1. next # None => next + (walk.pages + 1) * PageSize <= MaxItem + 1
    <3> DEFINE k == walk.pages * PageSize
    <3>1. k \in Nat /\ (walk.pages + 1) * PageSize = k + PageSize /\ (walk.pages = 0 => k = 0)
      BY <1>6, Times
    <3>2. walk.at # None => walk.at + k <= MaxItem + 1
      BY DEF ListInv, Covers
    <3> HIDE DEF k
    <3>3. CASE walk.at = None
      BY <1>2, <1>6, <1>12, <3>1, <3>3 DEF Items
    <3>4. CASE walk.at # None
      BY <1>2, <1>6, <3>1, <3>2, <3>4 DEF Items
    <3> QED BY <3>3, <3>4
  <2>2. (walk.pages + 1) * PageSize <= MaxItem + PageSize
    <3> DEFINE k == walk.pages * PageSize
    <3>1. k \in Nat /\ (walk.pages + 1) * PageSize = k + PageSize /\ (walk.pages = 0 => k = 0)
      BY <1>6, Times
    <3>2. walk.at # None => walk.at + k <= MaxItem + 1
      BY DEF ListInv, Covers
    <3> HIDE DEF k
    <3>3. CASE walk.at = None
      BY <1>6, <1>12, <3>1, <3>3
    <3>4. CASE walk.at # None
      BY <1>6, <3>1, <3>2, <3>4 DEF Items
    <3> QED BY <3>3, <3>4
  <2>3. Paging!ToSet(got2) \cap hidden = {}
    BY <1>4, <1>7 DEF ListInv, Covers
  <2>4. due' \cap UpTo(next) \subseteq Paging!ToSet(got2)
    <3>1. CASE walk.at = None
      BY <1>7, <1>12, <3>1
    <3>2. CASE walk.at # None
      <4>1. due' = due
        BY <1>1, <3>2
      <4>2. due \cap UpTo(walk.at) \subseteq Paging!ToSet(walk.got)
        BY <3>2 DEF ListInv, Covers
      <4>3. due \cap UpTo(next) \subseteq Paging!ToSet(walk.got) \cup Paging!ToSet(reply.items)
        BY <1>1, <3>2, <4>2, PageCovers DEF next
      <4>4. due \cap hidden = {}
        BY DEF ListInv, Setting
      <4> QED
        BY <1>4, <1>7, <4>1, <4>3, <4>4
    <3> QED BY <3>1, <3>2
  <2>5. ASSUME ~walk.cached
        PROVE  Down(got2) /\ (next # None => Paging!ToSet(got2) \subseteq UpTo(next))
    <3>1. CASE walk.at = None
      <4>1. Paging!ToSet(walk.got) = {} /\ Down(walk.got)
        BY <1>12, <3>1, TopWalk
      <4> QED
        BY <1>2, <1>4, <1>7, <4>1
    <3>2. CASE walk.at # None
      <4>1. Down(walk.got) /\ Paging!ToSet(walk.got) \subseteq UpTo(walk.at)
        BY <2>5, <3>2 DEF ListInv, Covers
      <4>2. \A i \in Paging!ToSet(walk.got), j \in Paging!ToSet(page.items) : i > j
        <5> TAKE i \in Paging!ToSet(walk.got), j \in Paging!ToSet(page.items)
        <5>1. i \in Items /\ i >= walk.at
          BY <3>2, <4>1 DEF UpTo
        <5>2. j \in Items /\ j < walk.at
          BY <1>2, <1>4, <1>8, <3>2
        <5> QED
          BY <1>6, <3>2, <5>1, <5>2 DEF Items
      <4>3. ASSUME next # None PROVE Paging!ToSet(walk.got) \subseteq UpTo(next)
        <5>1. next \in Items /\ next < walk.at /\ walk.at \in Items
          BY <1>2, <1>6, <1>8, <3>2, <4>3
        <5>2. \A i \in Items : i >= walk.at => i >= next
          BY <1>6, <5>1 DEF Items
        <5> QED
          BY <3>2, <4>1, <5>2 DEF UpTo
      <4> QED
        BY <1>2, <1>4, <1>7, <4>1, <4>2, <4>3
    <3> QED BY <3>1, <3>2
  <2> HIDE DEF got2
  <2>6. endpoint' = endpoint /\ hidden' = hidden /\ UpTo(next) = {i \in Items : next = None
          \/ i >= next}
    BY <1>1 DEF UpTo
  <2> QED
    BY <1>2, <1>5, <2>1, <2>2, <2>3, <2>4, <2>5, <2>6 DEF Covers, UpTo
<1>14. feedRow' # None => endpoint = "feed" /\ feedRow' \in Rows
  <2>1. CASE endpoint # "feed" \/ reply.items = << >>
    BY <1>1, <2>1 DEF ListInv, WalkShape, Paging!CachedFeed
  <2>2. CASE endpoint = "feed" /\ reply.items # << >> /\ walk.at = None
    <3>1. feedRow' = [items |-> reply.items, cursor |-> next]
      BY <1>1, <1>4, <2>2 DEF Paging!CachedFeed
    <3> QED BY <1>2, <2>2, <3>1 DEF Rows
  <2>3. CASE endpoint = "feed" /\ reply.items # << >> /\ walk.at # None
    <3>1. feedRow' = Paging!Extended(reply.items, next)
      BY <1>1, <1>4, <2>3 DEF Paging!CachedFeed
    <3>2. feedRow # None /\ feedRow \in Rows /\ reply.read = feedRow
      BY <1>1, <2>3 DEF ListInv, WalkShape, RowCovers, Paging!Appends
    <3>3. Paging!Without(reply.items, Paging!ToSet(feedRow.items)) \in Seq(Items)
      BY <1>2, Filtered
    <3>4. feedRow.items \o Paging!Without(reply.items, Paging!ToSet(feedRow.items)) \in Seq(Items)
      BY <3>2, <3>3, Joined DEF Rows
    <3> QED
      BY <1>2, <2>3, <3>1, <3>2, <3>4 DEF Rows, Paging!Extended
  <2> QED BY <2>1, <2>2, <2>3
<1>15. WalkShape'
  BY <1>1, <1>5, <1>9, <1>14 DEF ListInv, WalkShape, Paging!StandingAt
<1>16. RowCovers'
  <2>1. CASE endpoint # "feed"
    BY <1>1, <1>14, <2>1 DEF RowCovers
  <2>2. CASE endpoint = "feed" /\ reply.items = << >>
    <3>1. feedRow' = feedRow
      BY <1>1, <2>2 DEF Paging!CachedFeed
    <3>2. next = None /\ A = {}
      BY <1>3, <2>2 DEF Paging!ListsAll
    <3>3. walk.at = None => due' = {}
      BY <1>1, <1>12, <3>2
    <3>4. walk.at # None => due' = due
      BY <1>1
    <3> QED
      BY <1>1, <1>5, <3>1, <3>2, <3>3, <3>4 DEF ListInv, RowCovers
  <2>3. CASE endpoint = "feed" /\ reply.items # << >> /\ walk.at = None
    <3>1. feedRow' = [items |-> reply.items, cursor |-> next]
      BY <1>1, <1>4, <2>3 DEF Paging!CachedFeed
    <3>2. feedRow' \in Rows /\ feedRow' # None /\ feedRow'.items = reply.items
            /\ feedRow'.cursor = next
      BY <1>2, <3>1, ListConstants DEF Rows
    <3> QED
      BY <1>5, <1>12, <2>3, <3>2 DEF RowCovers
  <2>4. CASE endpoint = "feed" /\ reply.items # << >> /\ walk.at # None
    <3> DEFINE rest == Paging!Without(reply.items, Paging!ToSet(feedRow.items))
               new == feedRow.items \o rest
    <3>1. feedRow # None /\ feedRow \in Rows /\ feedRow.cursor = walk.at /\ due' = due
            /\ reply.read = feedRow
      BY <1>1, <2>4 DEF ListInv, WalkShape, RowCovers, Paging!Appends
    <3>2. feedRow' = [items |-> new, cursor |-> IF next = None THEN walk.at ELSE next]
      BY <1>1, <1>4, <2>4, <3>1 DEF Paging!CachedFeed, Paging!Extended
    <3>3. rest \in Seq(Items)
            /\ Paging!ToSet(rest) = Paging!ToSet(reply.items) \ Paging!ToSet(feedRow.items)
      BY <1>2, Filtered
    <3> HIDE DEF rest
    <3>4. new \in Seq(Items)
            /\ Paging!ToSet(new) = Paging!ToSet(feedRow.items) \cup Paging!ToSet(rest)
      BY <3>1, <3>3, Joined DEF Rows
    <3>5. Paging!ToSet(new) = Paging!ToSet(feedRow.items) \cup Paging!ToSet(reply.items)
      BY <3>3, <3>4
    <3> HIDE DEF new
    <3>6. feedRow' # None /\ feedRow'.items = new /\ feedRow'.cursor = IF next = None THEN walk.at
            ELSE next
      <4>1. feedRow' \in Rows
        BY <1>6, <3>2, <3>4 DEF Rows, Cursors
      <4> QED BY <3>2, <4>1, ListConstants
    <3>7. due \cap UpTo(walk.at) \subseteq Paging!ToSet(feedRow.items)
      BY <3>1 DEF ListInv, RowCovers
    <3>8. due \cap UpTo(next) \subseteq Paging!ToSet(feedRow.items) \cup Paging!ToSet(reply.items)
      BY <1>1, <2>4, <3>7, PageCovers DEF next
    <3>9. due' \cap UpTo(feedRow'.cursor) \subseteq Paging!ToSet(feedRow'.items)
      BY <3>1, <3>5, <3>6, <3>7, <3>8
    <3> QED
      BY <1>5, <3>6, <3>9 DEF RowCovers
  <2> QED BY <2>1, <2>2, <2>3, <2>4
<1>17. ReplyHolds' /\ RowHolds'
  BY <1>1, <1>5 DEF ReplyHolds, RowHolds, Paging!StandingAt
<1> QED
  BY <1>11, <1>13, <1>15, <1>16, <1>17 DEF ListInv

\* The next page of a list, after the m items already there.
LEMMA NextPage ==
    ASSUME NEW S, NEW s \in Seq(S), NEW m \in 0..Len(s), NEW p \in Nat \ {0}
    PROVE  LET page == Paging!Leading(SubSeq(s, m + 1, Len(s)), p)
               end == IF m + p < Len(s) THEN m + p ELSE Len(s)
           IN  /\ page \in Seq(S) /\ Len(page) = end - m
               /\ SubSeq(s, 1, m) \o page = SubSeq(s, 1, end)
<1> DEFINE n == Len(s)
           rest == SubSeq(s, m + 1, n)
           page == Paging!Leading(rest, p)
           end == IF m + p < n THEN m + p ELSE n
<1>1. n \in Nat /\ m \in Nat /\ m <= n /\ end \in m..n /\ (m < n => end \in m + 1..n)
  BY LenProperties
<1>2. \A i \in 1..n : s[i] \in S
  BY ElementOfSeq
<1>3. rest \in Seq(S) /\ Len(rest) = n - m
  <2>1. \A i \in m + 1..n : s[i] \in S
    BY <1>1, <1>2
  <2> HIDE DEF n
  <2> QED
    BY <1>1, <2>1, SubSeqProperties
<1>4. page = SubSeq(s, m + 1, end)
  <2>1. page = SubSeq(rest, 1, end - m)
    BY <1>1, <1>3 DEF Paging!Leading
  <2>2. CASE m = n
    <3>1. end = m
      BY <1>1, <2>2
    <3> HIDE DEF page, end, rest
    <3> QED
      BY <1>1, <2>1, <3>1, SubSeqEmpty
  <2>3. CASE m < n
    <3>1. /\ m + 1 \in 1..n /\ n \in 1..n /\ 1 \in 1..n - (m + 1) + 1
          /\ end - m \in 1..n - (m + 1) + 1
          /\ (m + 1) + 1 - 1 = m + 1 /\ (m + 1) + (end - m) - 1 = end
      <4> HIDE DEF n, end
      <4> QED BY <1>1, <2>3
    <3> HIDE DEF page, end
    <3> QED
      BY <2>1, <3>1, SubSeqOfSubSeq
  <2> QED BY <1>1, <2>2, <2>3
<1>5. page \in Seq(S) /\ Len(page) = end - m
  <2>1. \A i \in m + 1..end : s[i] \in S
    BY <1>1, <1>2
  <2> HIDE DEF page, end, n
  <2> QED
    BY <1>1, <1>4, <2>1, SubSeqProperties
<1>6. SubSeq(s, 1, m) \o page = SubSeq(s, 1, end)
  <2>1. 1 \in 1..n + 1 /\ m \in 1 - 1..n /\ end \in m..n
    BY <1>1
  <2> HIDE DEF page, end
  <2> QED
    BY <1>4, <2>1, ConcatAdjacentSubSeq
<1> QED
  BY <1>5, <1>6

\* The walk of a search has the pages it counted, and asks for the next one.
SearchInv ==
    LET list == Paging!NewestFirst(listing)
        m == walk.pages * PageSize
    IN  /\ endpoint = "search" /\ ~walk.cached /\ feedRow = None
        /\ walk.pc # "done" =>
             /\ m <= Len(list) /\ walk.got = SubSeq(list, 1, m)
             /\ walk.at = IF walk.pages = 0 THEN None ELSE walk.pages + 1
        /\ walk.pc = "done" => walk.got = list /\ m <= Len(list) + PageSize
        /\ reply # None =>
             /\ reply.next = walk.pages + 1 /\ reply.listed = listing
             /\ reply.items = Paging!Leading(SubSeq(list, m + 1, Len(list)), PageSize)

FoundInv == Setting /\ WalkShape /\ SearchInv

\* What a search finds, newest first.
LEMMA FoundList ==
    ASSUME Setting
    PROVE  LET list == Paging!NewestFirst(listing) IN
           /\ list \in Seq(Items) /\ Down(list) /\ Paging!ToSet(list) = listing
           /\ Len(list) = Paging!Cardinality(listing) /\ Len(list) \in 0..MaxItem
<1>1. listing \subseteq 1..MaxItem /\ MaxItem \in Nat
  BY ListConstants DEF Setting, Items
<1>2. LET list == Paging!NewestFirst(listing) IN
      /\ list \in Seq(listing) /\ Len(list) = Cardinality(listing)
            /\ Cardinality(listing) \in 0..MaxItem
      /\ Down(list) /\ Paging!ToSet(list) = listing
  BY <1>1, Newest
<1>3. Paging!NewestFirst(listing) \in Seq(Items)
  <2> DEFINE list == Paging!NewestFirst(listing)
  <2>1. list \in Seq(listing) /\ listing \subseteq Items
    BY <1>1, <1>2 DEF Items
  <2>2. list \in Seq(Items)
    <3> HIDE DEF list
    <3> QED BY <2>1
  <2> QED BY <2>2
<1> QED
  BY <1>2, <1>3, SameCount

\* The order of a list is the same as long as the list is.
LEMMA SameList ==
    ASSUME listing' = listing
    PROVE  Paging!NewestFirst(listing)' = Paging!NewestFirst(listing)
BY DEF Paging!NewestFirst

\* As many pages as the list has items are too many.
LEMMA PagesFit ==
    ASSUME NEW k \in Nat, k * PageSize <= MaxItem
    PROVE  k <= MaxItem
BY ListConstants

\* Asking leaves the pages of a search as they are.
LEMMA FoundAsk ==
    ASSUME FoundInv, Paging!Ask
    PROVE  FoundInv'
<1>1. walk \in Walks /\ walk' = [walk EXCEPT !.pc = "asked"] /\ walk.pc = "idle"
  BY DEF FoundInv, WalkShape, Paging!Ask
<1>2. /\ walk' \in Walks /\ walk'.pc = "asked" /\ walk'.at = walk.at /\ walk'.got = walk.got
      /\ walk'.pages = walk.pages /\ walk'.cached = walk.cached
  BY <1>1 DEF Walks
<1>3. UNCHANGED <<endpoint, place, counted, listing, hidden, reply, feedRow, due, again>>
  BY DEF Paging!Ask
<1>4. Setting'
  BY <1>3 DEF FoundInv, Setting
<1>5. WalkShape'
  BY <1>1, <1>2, <1>3 DEF FoundInv, WalkShape
<1>6. SearchInv'
  <2> DEFINE list == Paging!NewestFirst(listing)
  <2>1. list' = list
    BY <1>3, SameList
  <2> HIDE DEF list
  <2> QED
    BY <1>1, <1>2, <1>3, <2>1 DEF FoundInv, SearchInv, list
<1> QED
  BY <1>4, <1>5, <1>6 DEF FoundInv

\* So does a page that fails, which will be asked for again.
LEMMA FoundFail ==
    ASSUME FoundInv, Paging!Fail
    PROVE  FoundInv'
<1>1. /\ walk \in Walks /\ walk' = [walk EXCEPT !.pc = "idle"]
      /\ walk.pc \in {"asked", "appending"}
      /\ reply' = None
  BY DEF FoundInv, WalkShape, Paging!Fail
<1>2. /\ walk' \in Walks /\ walk'.pc = "idle" /\ walk'.at = walk.at /\ walk'.got = walk.got
      /\ walk'.pages = walk.pages /\ walk'.cached = walk.cached
  BY <1>1 DEF Walks
<1>3. UNCHANGED <<endpoint, place, counted, listing, hidden, feedRow, due>>
  BY DEF Paging!Fail
<1>4. Setting'
  BY <1>3, ListConstants DEF FoundInv, Setting, Paging!Fail, Paging!Again
<1>5. WalkShape'
  BY <1>1, <1>2, <1>3 DEF FoundInv, WalkShape
<1>6. SearchInv'
  <2> DEFINE list == Paging!NewestFirst(listing)
  <2>1. list' = list
    BY <1>3, SameList
  <2> HIDE DEF list
  <2> QED
    BY <1>1, <1>2, <1>3, <2>1 DEF FoundInv, SearchInv, list
<1> QED
  BY <1>4, <1>5, <1>6 DEF FoundInv

\* A refetch, and a reload, which finds nothing in the cache.
LEMMA FoundAgain ==
    ASSUME FoundInv, Paging!Refetch \/ Paging!Reload
    PROVE  FoundInv'
<1>1. /\ walk' = Paging!AtTop /\ reply' = None /\ again' \in 0..MaxAgain
      /\ UNCHANGED <<endpoint, place, counted, listing, hidden, feedRow, due>>
  BY ListConstants DEF FoundInv, Setting, WalkShape, SearchInv, Paging!Refetch, Paging!Reload,
        Paging!Again
<1>2. Setting'
  BY <1>1 DEF FoundInv, Setting
<1>3. WalkShape'
  BY <1>1, TopWalk DEF FoundInv, WalkShape
<1>4. SearchInv'
  <2> DEFINE list == Paging!NewestFirst(listing)
  <2>1. list' = list /\ Len(list) \in Nat
    <3>1. Len(list) \in 0..MaxItem
      BY FoundList DEF FoundInv
    <3> QED BY <1>1, <3>1, SameList
  <2> HIDE DEF list
  <2>2. 0 * PageSize = 0 /\ SubSeq(list, 1, 0) = << >> /\ 0 <= Len(list)
    BY <2>1, ListConstants, SubSeqEmpty
  <2> QED
    BY <1>1, <2>1, <2>2, TopWalk DEF FoundInv, SearchInv, list
<1> QED
  BY <1>2, <1>3, <1>4 DEF FoundInv

\* The page a search is served is the next one of the list.
LEMMA FoundServe ==
    ASSUME FoundInv, Paging!Serve
    PROVE  FoundInv'
<1>1. /\ UNCHANGED <<endpoint, place, counted, listing, hidden, walk, feedRow, due, again>>
      /\ walk.pc = "asked" /\ endpoint = "search" /\ reply' = Paging!ServePage(walk.at)
  BY DEF FoundInv, SearchInv, Paging!Serve
<1> DEFINE n == IF walk.at = None THEN 1 ELSE walk.at
           list == Paging!NewestFirst(listing)
<1>2. reply'.next = n /\ reply'.listed = listing
      /\ reply'.items = Paging!Leading(SubSeq(list, (n - 1) * PageSize + 1, Len(list)), PageSize)
  BY <1>1 DEF Paging!ServePage
<1>3. n - 1 = walk.pages /\ n = walk.pages + 1
  <2>1. walk.pages \in Nat /\ walk.at = IF walk.pages = 0 THEN None ELSE walk.pages + 1
    BY <1>1 DEF FoundInv, WalkShape, Walks, SearchInv
  <2>2. walk.pages # 0 => walk.pages + 1 # None
    <3>1. walk.pages <= MaxItem
      <4>1. walk.pages * PageSize <= MaxItem
        <5>1. walk.pages * PageSize <= Len(list) /\ Len(list) <= MaxItem /\ Len(list) \in Nat
                /\ MaxItem \in Nat /\ walk.pages * PageSize \in Nat
          BY <1>1, <2>1, FoundList, ListConstants DEF FoundInv, SearchInv
        <5> QED BY <5>1
      <4> QED BY <2>1, <4>1, PagesFit
    <3> QED
      BY <2>1, <3>1, ListAssumption
  <2> QED BY <2>1, <2>2
<1>4. list' = list
  BY <1>1, SameList
<1>5. SearchInv'
  <2> HIDE DEF list, n
  <2> QED BY <1>1, <1>2, <1>3, <1>4 DEF FoundInv, SearchInv, list
<1>6. Setting' /\ WalkShape'
  BY <1>1 DEF FoundInv, Setting, WalkShape
<1> QED
  BY <1>5, <1>6 DEF FoundInv

\* A page of a search that arrives makes the first pages one more, or was the last.
LEMMA FoundArrive ==
    ASSUME FoundInv, Paging!Arrive
    PROVE  FoundInv'
<1> DEFINE list == Paging!NewestFirst(listing)
           page == Paging!PageRead
           k == walk.pages
           m == k * PageSize
           end == IF m + PageSize < Len(list) THEN m + PageSize ELSE Len(list)
           more == IF counted THEN (k + 1) * PageSize < Paging!Cardinality(listing)
                   ELSE Len(reply.items) >= PageSize
<1>1. /\ walk \in Walks /\ reply # None /\ reply' = None /\ walk.pc # "done"
      /\ UNCHANGED <<endpoint, place, counted, listing, hidden, again>>
      /\ walk' = [walk EXCEPT !.pc = Paging!StandingAt(page.next), !.at = page.next,
                              !.got = @ \o page.items, !.pages = @ + 1]
      /\ feedRow' = Paging!CachedFeed(page) /\ endpoint = "search"
      /\ due' = IF walk.at = None THEN (reply.listed \cap listing) \ hidden ELSE due
  BY DEF FoundInv, WalkShape, SearchInv, Paging!Arrive
<1>2. /\ m <= Len(list) /\ walk.got = SubSeq(list, 1, m) /\ ~walk.cached /\ feedRow = None
      /\ reply.next = k + 1 /\ reply.listed = listing
      /\ reply.items = Paging!Leading(SubSeq(list, m + 1, Len(list)), PageSize)
  BY <1>1 DEF FoundInv, SearchInv
<1>3. page.items = reply.items /\ page.next = IF more THEN (k + 1) + 1 ELSE None
  BY <1>1, <1>2 DEF Paging!PageRead, Paging!SearchPage, Paging!Page
<1> HIDE DEF page
<1>4. /\ list \in Seq(Items) /\ Len(list) = Paging!Cardinality(listing) /\ Len(list) \in 0..MaxItem
      /\ k \in Nat /\ m \in Nat /\ (k + 1) * PageSize = m + PageSize
      /\ PageSize \in Nat /\ PageSize >= 1 /\ MaxItem \in Nat
  <2>1. k \in Nat
    BY <1>1 DEF Walks
  <2> QED
    BY <2>1, FoundList, Times, ListConstants DEF FoundInv
<1>5. /\ reply.items \in Seq(Items) /\ Len(reply.items) = end - m
      /\ walk.got \o page.items = SubSeq(list, 1, end)
  <2> HIDE DEF list, m
  <2>1. m \in 0..Len(list) /\ PageSize \in Nat \ {0}
    BY <1>2, <1>4
  <2>2. LET p == Paging!Leading(SubSeq(list, m + 1, Len(list)), PageSize)
            e == IF m + PageSize < Len(list) THEN m + PageSize ELSE Len(list)
        IN  /\ p \in Seq(Items) /\ Len(p) = e - m
            /\ SubSeq(list, 1, m) \o p = SubSeq(list, 1, e)
    BY <1>4, <2>1, NextPage
  <2> QED
    BY <1>2, <1>3, <2>2
<1>6. more <=> m + PageSize < Len(list) \/ (~counted /\ m + PageSize = Len(list))
  <2> HIDE DEF list, m
  <2>1. Len(list) \in Nat /\ end \in Nat /\ ((end = m + PageSize /\ m + PageSize <= Len(list))
          \/ (end = Len(list) /\ Len(list) <= m + PageSize))
        /\ (m + PageSize < Len(list) => end = m + PageSize)
    BY <1>4
  <2>2. Len(reply.items) >= PageSize <=> m + PageSize <= Len(list)
    <3> HIDE DEF end
    <3> QED BY <1>2, <1>4, <1>5, <2>1
  <2>3. (k + 1) * PageSize < Paging!Cardinality(listing) <=> m + PageSize < Len(list)
    BY <1>4
  <2> HIDE DEF end, k
  <2>4. counted \in BOOLEAN
    BY DEF FoundInv, Setting
  <2> QED BY <1>4, <2>1, <2>2, <2>3, <2>4
<1>7. more => end = m + PageSize /\ m + PageSize <= Len(list)
  <2> HIDE DEF list, m, more
  <2> QED BY <1>4, <1>6
<1>8. ~more => end = Len(list) /\ m + PageSize <= Len(list) + PageSize
  <2> HIDE DEF list, m, more
  <2> QED BY <1>2, <1>4, <1>6
<1> HIDE DEF more
<1>9. more => (k + 1) + 1 # None
  <2> SUFFICES ASSUME more PROVE (k + 1) + 1 \in 1..MaxItem + 1
    BY ListAssumption
  <2>1. (k + 1) * PageSize <= MaxItem
    <3> HIDE DEF list, m
    <3> QED BY <1>4, <1>7
  <2>2. k + 1 <= MaxItem
    BY <1>4, <2>1, PagesFit
  <2> QED BY <1>4, <2>2
<1>10. /\ walk'.pc = Paging!StandingAt(page.next) /\ walk'.at = page.next
       /\ walk'.got = walk.got \o page.items
       /\ walk'.pages = k + 1 /\ ~walk'.cached
  BY <1>1, <1>2 DEF Walks
<1>11. /\ walk'.pc = IF more THEN "idle" ELSE "done"
       /\ walk'.at = IF more THEN (k + 1) + 1 ELSE None
  BY <1>3, <1>9, <1>10 DEF Paging!StandingAt
<1>12. walk.got \o page.items \in Seq(Items)
  <2>1. walk.got \in Seq(Items) /\ page.items \in Seq(Items)
    BY <1>1, <1>3, <1>5 DEF Walks
  <2> QED BY <2>1, Joined
<1>13. walk' \in Walks
  <2>1. Paging!StandingAt(page.next) \in {"idle", "done"} /\ page.next \in Nat \cup {None}
    BY <1>3, <1>4 DEF Paging!StandingAt
  <2>2. k + 1 \in Nat
    BY <1>4
  <2> HIDE DEF list, m, k
  <2> QED
    BY <1>1, <1>12, <2>1, <2>2 DEF Walks, k
<1>14. feedRow' = None
  BY <1>1, <1>2 DEF Paging!CachedFeed
<1>15. Setting'
  <2>1. due' \subseteq listing \ hidden
    BY <1>1 DEF FoundInv, Setting
  <2> QED
    BY <1>1, <2>1 DEF FoundInv, Setting
<1>16. WalkShape'
  BY <1>1, <1>9, <1>10, <1>11, <1>13, <1>14 DEF WalkShape
<1>17. SearchInv'
  <2>1. list' = list /\ endpoint' = "search"
    BY <1>1, SameList
  <2>2. SubSeq(list, 1, Len(list)) = list
    BY <1>4, SubSeqFull
  <2> HIDE DEF list
  <2>3. more => /\ (k + 1) * PageSize <= Len(list)
                /\ walk'.got = SubSeq(list, 1, (k + 1) * PageSize)
    BY <1>4, <1>5, <1>7, <1>10
  <2>4. ~more => walk'.got = list /\ (k + 1) * PageSize <= Len(list) + PageSize
    BY <1>4, <1>5, <1>8, <1>10, <2>2
  <2>5. k + 1 # 0
    BY <1>4
  <2> HIDE DEF k
  <2>6. CASE more
    <3>1. /\ walk'.pc = "idle" /\ walk'.at = walk'.pages + 1 /\ walk'.pages # 0
          /\ walk'.pages * PageSize <= Len(list)
          /\ walk'.got = SubSeq(list, 1, walk'.pages * PageSize)
      BY <1>10, <1>11, <2>3, <2>5, <2>6
    <3> QED
      BY <1>1, <1>10, <1>14, <2>1, <3>1 DEF SearchInv, list
  <2>7. CASE ~more
    <3>1. /\ walk'.pc = "done" /\ walk'.got = list
          /\ walk'.pages * PageSize <= Len(list) + PageSize
      BY <1>10, <1>11, <2>4, <2>7
    <3> QED
      BY <1>1, <1>10, <1>14, <2>1, <3>1 DEF SearchInv, list
  <2> QED
    BY <2>6, <2>7
<1> QED
  BY <1>15, <1>16, <1>17 DEF FoundInv

\* Lists served by a cursor, or a search by page number.
WalkInv == IF endpoint = "search" THEN FoundInv ELSE ListInv

\* The invariant holds at first, and every step keeps it.
LEMMA WalkBegins ==
    ASSUME Paging!Init
    PROVE  WalkInv
<1>1. Setting
  <2>1. Listed \subseteq Items /\ 0 \in 0..MaxAgain
    BY ListAssumption DEF Items
  <2> QED
    BY <2>1 DEF Paging!Init, Setting
<1>2. WalkShape
  BY TopWalk DEF Paging!Init, WalkShape
<1>3. ASSUME endpoint # "search" PROVE ListInv
  BY <1>1, <1>2, TopWalk DEF Paging!Init, ListInv, Covers, RowCovers, ReplyHolds, RowHolds, Cursors
<1>4. ASSUME endpoint = "search" PROVE SearchInv
  <2> DEFINE list == Paging!NewestFirst(listing)
  <2>1. Len(list) \in 0..MaxItem
    BY <1>1, FoundList
  <2> HIDE DEF list
  <2>2. 0 * PageSize = 0 /\ SubSeq(list, 1, 0) = << >> /\ 0 <= Len(list)
    BY <2>1, ListConstants, SubSeqEmpty
  <2> QED
    BY <1>4, <2>2, TopWalk DEF Paging!Init, SearchInv, list
<1> QED
  BY <1>1, <1>2, <1>3, <1>4 DEF WalkInv, FoundInv

\* One case per kind of list: by cursor, or by page number.
LEMMA WalkGoesOn ==
    ASSUME WalkInv, [Paging!Next]_Paging!vars
    PROVE  WalkInv'
<1>1. CASE UNCHANGED Paging!vars
  <2>1. UNCHANGED <<endpoint, place, counted, listing, hidden, walk, reply, feedRow, due, again>>
    BY <1>1 DEF Paging!vars
  <2>2. Setting => Setting'
    BY <2>1 DEF Setting
  <2>3. WalkShape => WalkShape'
    BY <2>1 DEF WalkShape
  <2>4. Covers /\ RowCovers /\ ReplyHolds /\ RowHolds
          => Covers' /\ RowCovers' /\ ReplyHolds' /\ RowHolds'
    BY <2>1 DEF Covers, RowCovers, ReplyHolds, ReplyCovers, RowHolds
  <2>5. SearchInv => SearchInv'
    BY <2>1, SameList DEF SearchInv
  <2> QED
    BY <2>1, <2>2, <2>3, <2>4, <2>5 DEF WalkInv, ListInv, FoundInv
<1>2. CASE Paging!Next
  <2>1. endpoint' = endpoint
    BY <1>2 DEF Paging!Next, Paging!Serve, Paging!Ask, Paging!ReadRow, Paging!Arrive,
       Paging!Fail, Paging!Refetch, Paging!Reload, Paging!Post, Paging!Delete
  <2>2. CASE endpoint = "search"
    <3>1. FoundInv => FoundInv'
      BY <1>2, <2>2, FoundServe, FoundAsk, FoundArrive, FoundFail, FoundAgain
         DEF Paging!Next, Paging!ReadRow, Paging!Appends, Paging!Post, Paging!Delete
    <3> QED BY <2>1, <2>2, <3>1 DEF WalkInv
  <2>3. CASE endpoint # "search"
    <3>1. ListInv => ListInv'
      BY <1>2, <2>3, ListServe, ListAsk, ListReadRow, ListArrive, ListFail, ListRefetch,
            ListReload, ListPost, ListDelete
         DEF Paging!Next
    <3> QED BY <2>1, <2>3, <3>1 DEF WalkInv
  <2> QED BY <2>2, <2>3
<1> QED
  BY <1>1, <1>2

\* A step of the client is a step of its walk, or leaves it alone.
LEMMA PagingStep ==
    ASSUME [ClientNext]_allVars
    PROVE  part' = part /\ (part = "paging" => [Paging!Next]_Paging!vars)
BY DEF ClientNext, SessionMoves, PayloadMoves, PagingMoves, WritingMoves, IdentityMoves,
   allVars, paging, Paging!vars

\* So it holds of the client's walk at all times.
LEMMA WalkAlways ==
    ClientSpec => [](part = "paging" => WalkInv)
<1> DEFINE Inv == part = "paging" => WalkInv
<1>1. ClientInit => Inv
  BY WalkBegins DEF ClientInit
<1>2. Inv /\ [ClientNext]_allVars => Inv'
  BY WalkGoesOn, PagingStep
<1> QED
  BY <1>1, <1>2, PTL DEF ClientSpec

\* The items of a list are of the list's type.
LEMMA ItemsOf ==
    ASSUME NEW S, NEW seq \in Seq(S)
    PROVE  Paging!ToSet(seq) \subseteq S
BY LenProperties, ElementOfSeq DEF Paging!ToSet

\* A walk, its reply and the cached feed keep their types, for any lists, page size
\* and number of items: the readers of Pages never make up an item or a cursor.
THEOREM PagingTypeCorrect ==
    ClientSpec => [](part = "paging" => Paging!TypeOK)
<1>1. WalkInv => Paging!TypeOK
  <2> SUFFICES ASSUME WalkInv PROVE Paging!TypeOK
    OBVIOUS
  <2>1. Setting /\ WalkShape
    BY DEF WalkInv, ListInv, FoundInv
  <2>2. walk.pc \in {"idle", "asked", "appending", "done"} /\ Paging!ToSet(walk.got) \subseteq Items
    BY <2>1, ItemsOf DEF WalkShape, Walks
  <2>3. feedRow # None => Paging!ToSet(feedRow.items) \subseteq Items
    BY <2>1, ItemsOf DEF WalkShape, Rows
  <2> QED
    BY <2>1, <2>2, <2>3 DEF Setting, Paging!TypeOK, Paging!Items, Items
<1> QED
  BY <1>1, WalkAlways, PTL

\* A walk that ends has every item that was in the list all the time and may be shown,
\* and none that is hidden, newest first unless it began from the cached feed, whichever
\* endpoint served it and however pages failed, were repeated, or items were posted and
\* deleted meanwhile; and it ends within the pages the list can fill.  For any number of
\* items and any page size.
THEOREM WalkIsWholeAlways ==
    ClientSpec => []WalkIsWhole
<1>1. ListInv => Paging!WalkIsWhole
  <2> SUFFICES ASSUME ListInv PROVE Paging!WalkIsWhole
    OBVIOUS
  <2>1. walk \in Walks /\ Setting /\ WalkShape /\ Covers
    BY DEF ListInv, WalkShape
  <2>2. walk.pages * PageSize <= MaxItem + PageSize
    <3> DEFINE k == walk.pages * PageSize
    <3>1. k \in Nat /\ (walk.pages = 0 => k = 0)
      BY <2>1, Times DEF Walks
    <3>2. /\ walk.pc = "done" => k <= MaxItem + PageSize
          /\ walk.at # None => walk.at + k <= MaxItem + 1
          /\ walk.pc # "done" /\ walk.at = None => walk.pages = 0
      BY <2>1 DEF Covers, WalkShape
    <3>3. walk.at \in Items \cup {None}
      BY <2>1 DEF Covers, Cursors
    <3> HIDE DEF k
    <3>4. k <= MaxItem + PageSize
      BY <3>1, <3>2, <3>3, ListConstants DEF Items
    <3> QED BY <3>4 DEF k
  <2>3. ASSUME walk.pc = "done"
        PROVE  /\ due \subseteq Paging!ToSet(walk.got)
               /\ Paging!ToSet(walk.got) \cap hidden = {}
               /\ ~walk.cached => Down(walk.got)
    <3>1. walk.at = None /\ due \subseteq Items
      BY <2>1, <2>3 DEF WalkShape, Setting
    <3>2. due \cap UpTo(None) = due
      BY <3>1 DEF UpTo
    <3> QED
      BY <2>1, <2>3, <3>1, <3>2 DEF Covers
  <2> QED
    BY <2>2, <2>3 DEF Paging!WalkIsWhole, Down
<1>2. FoundInv => Paging!WalkIsWhole
  <2> SUFFICES ASSUME FoundInv PROVE Paging!WalkIsWhole
    OBVIOUS
  <2> DEFINE list == Paging!NewestFirst(listing)
  <2>1. /\ Len(list) \in 0..MaxItem /\ Down(list) /\ Paging!ToSet(list) = listing
    BY FoundList DEF FoundInv
  <2>2. due \subseteq listing /\ hidden = {}
    BY DEF FoundInv, Setting, SearchInv
  <2> DEFINE k == walk.pages * PageSize
  <2>3. k \in Nat
    BY Times DEF FoundInv, WalkShape, Walks
  <2>4. /\ walk.pc # "done" => k <= Len(list)
        /\ walk.pc = "done" => walk.got = list /\ k <= Len(list) + PageSize
    BY DEF FoundInv, SearchInv
  <2> HIDE DEF list, k
  <2>5. k <= MaxItem + PageSize
    BY <2>1, <2>3, <2>4, ListConstants
  <2> QED
    BY <2>1, <2>2, <2>4, <2>5 DEF Paging!WalkIsWhole, Down, k
<1>3. (part = "paging" => WalkInv) => WalkIsWhole
  BY <1>1, <1>2 DEF WalkInv, WalkIsWhole
<1> QED
  BY <1>3, WalkAlways, PTL

-----------------------------------------------------------------------------
\* Documents: what is read has no function and nothing undefined at its top,
\* whatever the API sent.

Documents == {"post", "user", "chat", "tokens", "current"} \cup Payload!Small
Fields == {"top", "user", "stats", "nested", "data", "hash"}

\* Objects without functions, and without a field that is undefined.
NoFn(o) == \A k \in DOMAIN o : o[k] # Payload!Fn
Clean(o) == \A k \in DOMAIN o : o[k] \notin {Payload!Undef, Payload!Fn}

\* What a lookup, a field set and a field filled in return.
LEMMA Lookup ==
    ASSUME NEW o, NoFn(o), NEW k
    PROVE  Payload!Get(o, k) # Payload!Fn
BY DEF NoFn, Payload!Get, Payload!Undef, Payload!Fn

\* a || b and a ?? b are one of the values they choose from,
LEMMA FirstIsOne ==
    ASSUME NEW o, NEW keys
    PROVE  /\ \E k : Payload!Or(o, keys) = Payload!Get(o, k)
           /\ \E k : Payload!Coalesce(o, keys) = Payload!Get(o, k)
BY DEF Payload!Or, Payload!Coalesce, Payload!FirstOf

\* and so never a function when no field is one.
LEMMA FirstNoFn ==
    ASSUME NEW o, NoFn(o), NEW keys
    PROVE  Payload!Or(o, keys) # Payload!Fn /\ Payload!Coalesce(o, keys) # Payload!Fn
BY FirstIsOne, Lookup

\* Setting a field to something sendable keeps an object free of functions.
LEMMA AssignKeeps ==
    ASSUME NEW o, NEW k, NEW v, v # Payload!Fn
    PROVE  /\ NoFn(o) => NoFn(Payload!Assign(o, k, v)) /\ NoFn(Payload!Put(o, k, v))
           /\ Clean(o) /\ v # Payload!Undef => Clean(Payload!Assign(o, k, v))
           /\ Clean(o) => Clean(Payload!Put(o, k, v))
BY DEF NoFn, Clean, Payload!Assign, Payload!Put

\* So does filling in a missing one from another,
LEMMA FillKeeps ==
    ASSUME NEW o, NEW k, NEW keys
    PROVE  /\ NoFn(o) => NoFn(Payload!Fill(o, k, keys))
           /\ Clean(o) => Clean(Payload!Fill(o, k, keys))
<1>1. ASSUME NoFn(o) PROVE NoFn(Payload!Fill(o, k, keys)) /\ (Clean(o) => Clean(Payload!Fill(o, k,
        keys)))
  <2>1. Payload!Or(o, keys) # Payload!Fn
    BY <1>1, FirstNoFn
  <2> QED
    BY <1>1, <2>1, AssignKeeps DEF Payload!Fill
<1>2. Clean(o) => NoFn(o)
  BY DEF Clean, NoFn
<1> QED
  BY <1>1, <1>2

\* and renaming the keys of a nested object.
LEMMA SnakeKeeps ==
    ASSUME NEW o, Clean(o)
    PROVE  Clean(Payload!SnakeToCamelObject(o))
<1> SUFFICES ASSUME NEW k \in DOMAIN o
             PROVE  o[CHOOSE j \in DOMAIN o : Payload!CamelOf(j) = Payload!CamelOf(k)]
                      \notin {Payload!Undef, Payload!Fn}
  BY DEF Clean, Payload!SnakeToCamelObject
<1>1. (CHOOSE j \in DOMAIN o : Payload!CamelOf(j) = Payload!CamelOf(k)) \in DOMAIN o
  OBVIOUS
<1> QED
  BY <1>1 DEF Clean

-----------------------------------------------------------------------------
\* What the API sends.

\* A part of a raw document: functions only where a User object has its methods.
SentClean(o, inTop) ==
    \A k \in DOMAIN o : /\ o[k] # Payload!Undef
                        /\ o[k] = Payload!Fn => inTop /\ kind = "user" /\ k \in {"isAdmin",
                              "onClick"}

\* Where a field is sent.
Letters(x) == x = <<x[1], x[2]>>
Pairs(s) == \A f \in DOMAIN s : Letters(s[f])

\* A place is a part of the document and a key in it.
LEMMA AtPairs ==
    ASSUME NEW where, NEW keys, NEW x \in Payload!At(where, keys)
    PROVE  Letters(x)
BY DEF Payload!At, Payload!Absent, Letters

\* Each field of a style is one of the document's, sent at one of its places.
LEMMA StyleFields ==
    ASSUME Payload!Init
    PROVE  /\ kind \in Documents /\ Payload!Undef \notin DOMAIN style /\ Pairs(style)
           /\ Payload!Fn \in DOMAIN style =>
                kind = "user" /\ style[Payload!Fn] \in Payload!At("top", {"isAdmin", "onClick"})
<1>1. CASE kind = "post" /\ style \in Payload!PostStyles
  <2>1. DOMAIN style = {"title", "artist", "owner", "name", "avatar", "rating", "expiry",
          "reaction"}
    BY <1>1 DEF Payload!PostStyles
  <2>2. \A f \in DOMAIN style : Letters(style[f])
    BY <1>1, <2>1, AtPairs DEF Payload!PostStyles
  <2> QED
    BY <1>1, <2>1, <2>2 DEF Documents, Pairs, Payload!Undef, Payload!Fn
<1>2. CASE kind = "user" /\ style \in Payload!UserStyles
  <2>1. DOMAIN style = {"name", "followers", "thumb", "function"}
    BY <1>2 DEF Payload!UserStyles
  <2>2. \A f \in DOMAIN style : Letters(style[f])
    BY <1>2, <2>1, AtPairs DEF Payload!UserStyles
  <2>3. style["function"] \in Payload!At("top", {"isAdmin", "onClick"})
    BY <1>2 DEF Payload!UserStyles
  <2> QED
    BY <1>2, <2>1, <2>2, <2>3 DEF Documents, Pairs, Payload!Undef, Payload!Fn
<1>3. CASE kind = "chat" /\ style \in Payload!ChatStyles
  <2>1. DOMAIN style = {"id", "owner", "name", "group", "body"}
    BY <1>3 DEF Payload!ChatStyles
  <2>2. \A f \in DOMAIN style : Letters(style[f])
    BY <1>3, <2>1, AtPairs DEF Payload!ChatStyles
  <2> QED
    BY <1>3, <2>1, <2>2 DEF Documents, Pairs, Payload!Undef, Payload!Fn
<1>4. CASE kind = "tokens" /\ style \in Payload!Reply("top") \cup Payload!Reply("data")
  <2>1. DOMAIN style = {"access", "refresh", "expiry", "seconds"}
    BY <1>4 DEF Payload!Reply
  <2>2. \A f \in DOMAIN style : Letters(style[f])
    BY <1>4, <2>1, AtPairs DEF Payload!Reply
  <2> QED
    BY <1>4, <2>1, <2>2 DEF Documents, Pairs, Payload!Undef, Payload!Fn
<1>5. CASE kind = "current" /\ style \in Payload!CurrentStyles
  <2>1. DOMAIN style = {"name", "badge"}
    BY <1>5 DEF Payload!CurrentStyles
  <2>2. \A f \in DOMAIN style : Letters(style[f])
    BY <1>5, <2>1, AtPairs DEF Payload!CurrentStyles
  <2> QED
    BY <1>5, <2>1, <2>2 DEF Documents, Pairs, Payload!Undef, Payload!Fn
<1>6. CASE kind \in Payload!Small
           /\ style \in Payload!SmallStyles(kind, "top") \cup Payload!SmallStyles(kind, "data")
  <2>1. DOMAIN style \subseteq {"items", "count", "limit", "unlimited", "latitude", "longitude"}
    BY <1>6 DEF Payload!Small, Payload!SmallStyles
  <2>2. \A f \in DOMAIN style : \E where, keys : style[f] \in Payload!At(where, keys)
    BY <1>6, <2>1 DEF Payload!Small, Payload!SmallStyles
  <2>3. \A f \in DOMAIN style : Letters(style[f])
    BY <2>2, AtPairs
  <2> QED
    BY <1>6, <2>1, <2>3 DEF Documents, Pairs, Payload!Undef, Payload!Fn
<1> QED
  BY <1>1, <1>2, <1>3, <1>4, <1>5, <1>6 DEF Payload!Init

\* A part carries, under each of its keys, the name of a field sent there.
LEMMA PartSent ==
    ASSUME NEW s, Pairs(s), NEW where
    PROVE  LET o == Payload!PartOf(s, where) IN
           \A k \in DOMAIN o : \E f \in DOMAIN s :
               s[f] = <<where, k>> /\ s[f] # Payload!Absent
               /\ o[k] = IF f = "unlimited" THEN Payload!Null ELSE f
<1> DEFINE o == Payload!PartOf(s, where)
<1> SUFFICES ASSUME NEW k \in DOMAIN o
             PROVE  \E f \in DOMAIN s :
                       s[f] = <<where, k>> /\ s[f] # Payload!Absent
               /\ o[k] = IF f = "unlimited" THEN Payload!Null ELSE f
  OBVIOUS
<1>1. PICK g \in DOMAIN s : s[g][1] = where /\ s[g][2] = k /\ s[g] # Payload!Absent
  BY DEF Payload!PartOf
<1>2. s[g] = <<where, k>> /\ <<where, k>> # Payload!Absent
  BY <1>1 DEF Pairs, Letters
<1>3. \E f \in DOMAIN s : s[f] = <<where, k>>
  BY <1>2
<1> DEFINE f == CHOOSE h \in DOMAIN s : s[h] = <<where, k>>
<1>4. f \in DOMAIN s /\ s[f] = <<where, k>>
  BY <1>3
<1>5. o[k] = IF f = "unlimited" THEN Payload!Null ELSE f
  BY DEF Payload!PartOf
<1> HIDE DEF f, o
<1> QED
  BY <1>2, <1>4, <1>5

\* A raw document has its parts, and functions only where a user's methods are.
LEMMA SentWhole ==
    ASSUME Payload!Init
    PROVE  /\ DOMAIN doc = Fields
           /\ SentClean(doc.top, TRUE) /\ SentClean(doc.user, FALSE) /\ SentClean(doc.stats, FALSE)
           /\ SentClean(doc.nested, FALSE) /\ SentClean(doc.data, FALSE)
<1>1. /\ kind \in Documents /\ Payload!Undef \notin DOMAIN style /\ Pairs(style)
      /\ Payload!Fn \in DOMAIN style =>
           kind = "user" /\ style[Payload!Fn] \in Payload!At("top", {"isAdmin", "onClick"})
  BY StyleFields
<1>2. doc = Payload!Sent(style)
  BY DEF Payload!Init
<1>3. /\ DOMAIN doc = Fields
      /\ doc.top = Payload!PartOf(style, "top") /\ doc.user = Payload!PartOf(style, "user")
      /\ doc.stats = Payload!PartOf(style, "stats") /\ doc.nested = Payload!PartOf(style, "nested")
      /\ doc.data = Payload!PartOf(style, "data")
  BY <1>2 DEF Payload!Sent, Fields
<1>4. ASSUME NEW where \in {"top", "user", "stats", "nested", "data"}
      PROVE  SentClean(Payload!PartOf(style, where), where = "top")
  <2> DEFINE o == Payload!PartOf(style, where)
  <2> SUFFICES ASSUME NEW k \in DOMAIN o
               PROVE  /\ o[k] # Payload!Undef
                      /\ o[k] = Payload!Fn =>
                           where = "top" /\ kind = "user" /\ k \in {"isAdmin", "onClick"}
    BY DEF SentClean
  <2>1. PICK f \in DOMAIN style :
          style[f] = <<where, k>> /\ style[f] # Payload!Absent
          /\ o[k] = IF f = "unlimited" THEN Payload!Null ELSE f
    BY <1>1, PartSent
  <2> HIDE DEF o
  <2>2. o[k] # Payload!Undef
    BY <1>1, <2>1 DEF Payload!Undef, Payload!Null
  <2>3. ASSUME o[k] = Payload!Fn
        PROVE  where = "top" /\ kind = "user" /\ k \in {"isAdmin", "onClick"}
    <3>1. f = Payload!Fn
      BY <2>1, <2>3 DEF Payload!Fn, Payload!Null
    <3>2. kind = "user" /\ <<where, k>> \in Payload!At("top", {"isAdmin", "onClick"})
      BY <1>1, <2>1, <3>1
    <3>3. <<where, k>> # Payload!Absent
      BY <2>1
    <3> QED
      BY <3>2, <3>3 DEF Payload!At
  <2> QED BY <2>2, <2>3
<1> QED
  BY <1>3, <1>4

Decoded == {"normal", "again", "merged"}

\* A document that was read has no function and nothing undefined at its top;
\* a post has no function in its author and its rating either.
ReadWell(d) ==
    /\ DOMAIN d = Fields /\ Clean(d.top)
    /\ kind = "post" => NoFn(d.user) /\ NoFn(d.stats)

\* The invariant of a document: raw parts as sent, read ones as ReadWell says.
PayloadInv ==
    /\ kind \in Documents /\ stage \in {"raw", "failed"} \cup Decoded
    /\ stage = "raw" =>
         /\ DOMAIN doc = Fields
         /\ SentClean(doc.top, TRUE) /\ SentClean(doc.user, FALSE) /\ SentClean(doc.stats, FALSE)
         /\ SentClean(doc.nested, FALSE) /\ SentClean(doc.data, FALSE)
    /\ stage \in Decoded => ReadWell(doc)

\* A clean object has no function.
LEMMA CleanNoFn ==
    ASSUME NEW o, Clean(o)
    PROVE  NoFn(o)
BY DEF Clean, NoFn

\* The first key of a few whose value is kept.
LEMMA LeastOf ==
    ASSUME NEW K, K \subseteq 1..4
    PROVE  /\ 1 \in K => Payload!Min(K) = 1
           /\ 1 \notin K /\ 2 \in K => Payload!Min(K) = 2
           /\ 1 \notin K /\ 2 \notin K /\ 3 \in K => Payload!Min(K) = 3
           /\ K = {4} => Payload!Min(K) = 4
<1>1. ASSUME NEW n \in K, \A m \in K : n <= m PROVE Payload!Min(K) = n
  <2> DEFINE l == CHOOSE x \in K : \A y \in K : x <= y
  <2>1. l \in K /\ \A y \in K : l <= y
    BY <1>1
  <2>2. l \in 1..4 /\ n \in 1..4 /\ l <= n /\ n <= l
    BY <1>1, <2>1
  <2>3. Payload!Min(K) = l
    BY DEF Payload!Min
  <2> HIDE DEF l
  <2> QED BY <2>2, <2>3
<1>2. \A m \in K : m \in 1..4
  OBVIOUS
<1> QED
  BY <1>1, <1>2

Truthy(o, k) == Payload!Get(o, k) \notin Payload!Falsy
Given(o, k) == Payload!Get(o, k) \notin {Payload!Undef, Payload!Null}

\* a || b || c and a ?? b ?? c, case by case.
LEMMA OrOfOne ==
    ASSUME NEW o, NEW a
    PROVE  Payload!Or(o, <<a>>) = Payload!Get(o, a)
<1> DEFINE keys == <<a>>
           K == {n \in DOMAIN keys : Truthy(o, keys[n])}
           i == IF K = {} THEN 1 ELSE Payload!Min(K)
<1>1. K \subseteq 1..1
  OBVIOUS
<1>2. Payload!Or(o, keys) = Payload!Get(o, keys[i])
  BY DEF Payload!Or, Payload!FirstOf, Truthy
<1>3. K # {} => 1 \in K /\ K \subseteq 1..4
  BY <1>1
<1>4. i = 1
  <2> HIDE DEF K
  <2> QED BY <1>1, <1>3, LeastOf
<1>5. keys[1] = a
  OBVIOUS
<1> HIDE DEF K, i, keys
<1> QED
  BY <1>2, <1>4, <1>5 DEF keys

LEMMA OrOfTwo ==
    ASSUME NEW o, NEW a, NEW b
    PROVE  Payload!Or(o, <<a, b>>) = IF Truthy(o, a) THEN Payload!Get(o, a) ELSE Payload!Get(o, b)
<1> DEFINE keys == <<a, b>>
           K == {n \in DOMAIN keys : Truthy(o, keys[n])}
           i == IF K = {} THEN 2 ELSE Payload!Min(K)
<1>1. /\ K \subseteq 1..4 /\ (1 \in K <=> Truthy(o, a)) /\ (2 \in K <=> Truthy(o, b))
      /\ (K = {} \/ 1 \in K \/ 2 \in K)
  OBVIOUS
<1>2. Payload!Or(o, keys) = Payload!Get(o, keys[i])
  BY DEF Payload!Or, Payload!FirstOf, Truthy
<1>3. /\ Truthy(o, a) => i = 1
      /\ ~Truthy(o, a) => i = 2
  <2> HIDE DEF K
  <2> QED BY <1>1, LeastOf
<1>5. keys[1] = a /\ keys[2] = b
  OBVIOUS
<1> HIDE DEF K, i, keys
<1> QED
  BY <1>2, <1>3, <1>5 DEF keys

LEMMA OrOfThree ==
    ASSUME NEW o, NEW a, NEW b, NEW c
    PROVE  Payload!Or(o, <<a, b, c>>) =
             IF Truthy(o, a) THEN Payload!Get(o, a)
             ELSE IF Truthy(o, b) THEN Payload!Get(o, b) ELSE Payload!Get(o, c)
<1> DEFINE keys == <<a, b, c>>
           K == {n \in DOMAIN keys : Truthy(o, keys[n])}
           i == IF K = {} THEN 3 ELSE Payload!Min(K)
<1>1. /\ K \subseteq 1..4 /\ (1 \in K <=> Truthy(o, a)) /\ (2 \in K <=> Truthy(o, b))
      /\ (3 \in K <=> Truthy(o, c)) /\ (K = {} \/ 1 \in K \/ 2 \in K \/ 3 \in K)
  OBVIOUS
<1>2. Payload!Or(o, keys) = Payload!Get(o, keys[i])
  BY DEF Payload!Or, Payload!FirstOf, Truthy
<1>3. /\ Truthy(o, a) => i = 1
      /\ ~Truthy(o, a) /\ Truthy(o, b) => i = 2
      /\ ~Truthy(o, a) /\ ~Truthy(o, b) => i = 3
  <2> HIDE DEF K
  <2> QED BY <1>1, LeastOf
<1>5. keys[1] = a /\ keys[2] = b /\ keys[3] = c
  OBVIOUS
<1> HIDE DEF K, i, keys
<1> QED
  BY <1>2, <1>3, <1>5 DEF keys

LEMMA CoalesceOfTwo ==
    ASSUME NEW o, NEW a, NEW b
    PROVE  Payload!Coalesce(o, <<a, b>>) =
             IF Given(o, a) THEN Payload!Get(o, a) ELSE Payload!Get(o, b)
<1> DEFINE keys == <<a, b>>
           K == {n \in DOMAIN keys : Given(o, keys[n])}
           i == IF K = {} THEN 2 ELSE Payload!Min(K)
<1>1. /\ K \subseteq 1..4 /\ (1 \in K <=> Given(o, a)) /\ (2 \in K <=> Given(o, b))
      /\ (K = {} \/ 1 \in K \/ 2 \in K)
  OBVIOUS
<1>2. Payload!Coalesce(o, keys) = Payload!Get(o, keys[i])
  BY DEF Payload!Coalesce, Payload!FirstOf, Given
<1>3. /\ Given(o, a) => i = 1
      /\ ~Given(o, a) => i = 2
  <2> HIDE DEF K
  <2> QED BY <1>1, LeastOf
<1>5. keys[1] = a /\ keys[2] = b
  OBVIOUS
<1> HIDE DEF K, i, keys
<1> QED
  BY <1>2, <1>3, <1>5 DEF keys

LEMMA CoalesceOfFour ==
    ASSUME NEW o, NEW a, NEW b, NEW c, NEW d
    PROVE  Payload!Coalesce(o, <<a, b, c, d>>) =
             IF Given(o, a) THEN Payload!Get(o, a)
             ELSE IF Given(o, b) THEN Payload!Get(o, b)
             ELSE IF Given(o, c) THEN Payload!Get(o, c) ELSE Payload!Get(o, d)
<1> DEFINE keys == <<a, b, c, d>>
           K == {n \in DOMAIN keys : Given(o, keys[n])}
           i == IF K = {} THEN 4 ELSE Payload!Min(K)
<1>1. /\ K \subseteq 1..4 /\ (1 \in K <=> Given(o, a)) /\ (2 \in K <=> Given(o, b))
      /\ (3 \in K <=> Given(o, c)) /\ (4 \in K <=> Given(o, d))
      /\ (K = {} \/ 1 \in K \/ 2 \in K \/ 3 \in K \/ 4 \in K)
      /\ (1 \notin K /\ 2 \notin K /\ 3 \notin K /\ 4 \in K => K = {4})
  OBVIOUS
<1>2. Payload!Coalesce(o, keys) = Payload!Get(o, keys[i])
  BY DEF Payload!Coalesce, Payload!FirstOf, Given
<1>3. /\ Given(o, a) => i = 1
      /\ ~Given(o, a) /\ Given(o, b) => i = 2
      /\ ~Given(o, a) /\ ~Given(o, b) /\ Given(o, c) => i = 3
      /\ ~Given(o, a) /\ ~Given(o, b) /\ ~Given(o, c) => i = 4
  <2> HIDE DEF K
  <2> QED BY <1>1, LeastOf
<1>5. keys[1] = a /\ keys[2] = b /\ keys[3] = c /\ keys[4] = d
  OBVIOUS
<1> HIDE DEF K, i, keys
<1> QED
  BY <1>2, <1>3, <1>5 DEF keys

\* The author of a post.
LEMMA UserNoFn ==
    ASSUME NEW p, NoFn(p.user), NoFn(p.top)
    PROVE  NoFn(Payload!PostUser(p))
<1> DEFINE keys == {k \in Payload!RootKeys : ~Payload!Has(p.user, k) /\ Payload!Has(p.top, k)}
           pulled == Payload!Pull(p.user, p.top, keys)
<1>1. keys \subseteq DOMAIN p.top
  BY DEF Payload!Has, Payload!Get, Payload!Falsy, Payload!Undef
<1>2. NoFn(pulled)
  BY <1>1 DEF NoFn, Payload!Pull
<1> HIDE DEF keys, pulled
<1>3. \A u, a, b : NoFn(u) => NoFn(Payload!Mirror(u, a, b))
  BY FillKeeps DEF Payload!Mirror
<1>4. NoFn(Payload!Mirror(Payload!Mirror(pulled, "name", "displayName"), "avatar", "avatarUrl"))
  BY <1>2, <1>3
<1> QED
  BY <1>4 DEF Payload!PostUser, pulled, keys

\* The rating of a post has no function,
LEMMA StatsNoFn ==
    ASSUME NEW s, NoFn(s)
    PROVE  NoFn(Payload!RatingStats(s))
<1>1. Payload!Coalesce(s, <<"average_rating", "average">>) # Payload!Fn
  BY FirstNoFn
<1>2. NoFn([average |-> Payload!Coalesce(s, <<"average_rating", "average">>)])
  BY <1>1 DEF NoFn
<1>3. NoFn(Payload!Empty)
  BY DEF NoFn, Payload!Empty
<1> QED
  BY <1>2, <1>3 DEF Payload!RatingStats

\* nor has the top of a post that was read,
LEMMA TopClean ==
    ASSUME NEW top, Clean(top), NEW user, NoFn(user), NEW stats, NoFn(stats)
    PROVE  Clean(Payload!PostTop(top, user, stats))
<1> DEFINE typed  == Payload!Fill(top, "type", <<"postType">>)
           titled == IF Payload!Get(typed, "title") \in {Payload!Undef, Payload!Null}
                     THEN Payload!Put(typed, "title",
                                      Payload!Or(typed, <<"song_title", "songTitle", "name">>))
                     ELSE typed
           arted == Payload!Fill(titled, "artist", <<"artist_name", "artistName">>)
           sung == Payload!Fill(arted, "album", <<"album_name", "albumName">>)
           owned == Payload!Fill(sung, "userId", <<"user_ulid", "userULID">>)
           by == IF Payload!Has(owned, "userId") THEN owned
                 ELSE Payload!Put(owned, "userId", Payload!Or(user, <<"ulid", "userId">>))
<1>1. Clean(typed)
  BY FillKeeps
<1>2. Clean(titled)
  <2> HIDE DEF typed
  <2>1. Payload!Or(typed, <<"song_title", "songTitle", "name">>) # Payload!Fn
    BY <1>1, CleanNoFn, FirstNoFn
  <2> QED
    BY <1>1, <2>1, AssignKeeps
<1> HIDE DEF typed, titled
<1>3. Clean(owned)
  BY <1>2, FillKeeps
<1> HIDE DEF owned
<1>4. Clean(by)
  <2>1. Payload!Or(user, <<"ulid", "userId">>) # Payload!Fn
    BY FirstNoFn
  <2> QED
    BY <1>3, <2>1, AssignKeeps
<1> HIDE DEF by
<1>5. Clean(Payload!Put(by, "averageRating", Payload!Get(stats, "average")))
  BY <1>4, Lookup, AssignKeeps
<1> QED
  BY <1>4, <1>5 DEF Payload!PostTop, by, owned, titled, typed

\* so a post is read well,
LEMMA PostReadWell ==
    ASSUME NEW p, DOMAIN p = Fields, Clean(p.top), NoFn(p.user), NoFn(p.stats), kind = "post"
    PROVE  ReadWell(Payload!NormalizePost(p))
<1> DEFINE user  == Payload!PostUser(p)
           stats == Payload!RatingStats(p.stats)
           top   == Payload!PostTop(p.top, user, stats)
           q     == Payload!NormalizePost(p)
<1>1. NoFn(user) /\ NoFn(stats)
  BY CleanNoFn, UserNoFn, StatsNoFn
<1>2. Clean(top)
  <2> HIDE DEF user, stats
  <2> QED BY <1>1, TopClean
<1>3. DOMAIN q = Fields /\ q.top = top /\ q.user = user /\ q.stats = stats
  BY DEF Payload!NormalizePost, Fields
<1> QED
  BY <1>1, <1>2, <1>3 DEF ReadWell

\* and stays so when an engagement answer is merged in.
LEMMA MergeReadWell ==
    ASSUME NEW row, ReadWell(row), kind = "post", NEW ans, NoFn(ans.top), NoFn(ans.stats)
    PROVE  ReadWell(Payload!Polled(row, ans))
<1> DEFINE stats  == IF ans.stats = Payload!Empty THEN row.stats ELSE Payload!RatingStats(ans.stats)
           top    == Payload!Put(row.top, "userReaction", Payload!Get(ans.top, "userReaction"))
           rated  == Payload!Put(top, "averageRating", Payload!Get(stats, "average"))
           m      == Payload!MergeEngagement(row, ans)
<1>1. NoFn(stats)
  BY StatsNoFn DEF ReadWell
<1>2. Clean(top)
  BY Lookup, AssignKeeps DEF ReadWell
<1>3. Clean(rated)
  <2> HIDE DEF top, stats
  <2> QED BY <1>1, <1>2, Lookup, AssignKeeps
<1>4. /\ DOMAIN m = Fields /\ m.stats = stats /\ m.user = row.user
      /\ m.top = IF ans.stats = Payload!Empty THEN top ELSE rated
  BY DEF Payload!MergeEngagement, ReadWell, Fields
<1>5. ReadWell(m)
  <2> HIDE DEF stats, top, rated, m
  <2> QED BY <1>1, <1>2, <1>3, <1>4 DEF ReadWell
<1> QED
  BY <1>5 DEF Payload!Polled

\* A profile loses its methods, and takes a name and a count that are none.
LEMMA ProfileReadWell ==
    ASSUME NEW p, DOMAIN p = Fields, SentClean(p.top, TRUE), kind \in {"user", "current"}
    PROVE  ReadWell(Payload!NormalizeUserProfile(p))
<1> DEFINE named == Payload!Put(Payload!Plain(p.top), "displayName",
                                Payload!Or(p.top, <<"displayName", "name">>))
           count == Payload!Count(p.top, <<"followersCount", "followers">>)
           q == Payload!NormalizeUserProfile(p)
<1>1. Clean(Payload!Plain(p.top))
  BY DEF Clean, SentClean, Payload!Plain
<1>2. ASSUME NEW k, k \notin {"isAdmin", "onClick"}
      PROVE  Payload!Get(p.top, k) # Payload!Fn
  BY <1>2 DEF SentClean, Payload!Get, Payload!Undef, Payload!Fn
<1>3. /\ Payload!Or(p.top, <<"displayName", "name">>) # Payload!Fn
      /\ Payload!Or(p.top, <<"followersCount", "followers">>) # Payload!Fn
  BY <1>2, OrOfTwo
<1>4. Clean(named)
  BY <1>1, <1>3, AssignKeeps
<1>5. count \notin {Payload!Undef, Payload!Fn}
  BY <1>3 DEF Payload!Count, Payload!Falsy, Payload!Undef, Payload!Fn
<1>6. Clean(Payload!Assign(named, "followersCount", count))
  <2> HIDE DEF named, count
  <2> QED BY <1>4, <1>5, AssignKeeps
<1>7. DOMAIN q = Fields /\ q.top = Payload!Assign(named, "followersCount", count)
  BY DEF Payload!NormalizeUserProfile, Fields
<1> QED
  BY <1>6, <1>7 DEF ReadWell

\* The parts of a raw document of another kind than a user's have no function.
LEMMA SentIsClean ==
    ASSUME NEW o, NEW t \in BOOLEAN, SentClean(o, t), ~t \/ kind # "user"
    PROVE  Clean(o)
BY DEF SentClean, Clean

\* A chat message, whoever sent it and however it names its group.
LEMMA MessageReadWell ==
    ASSUME NEW p, DOMAIN p = Fields, Clean(p.top), Clean(p.user), kind = "chat"
    PROVE  ReadWell(Payload!NormalizeChatMessage(p, "group"))
<1> DEFINE sender == IF Payload!Get(p.user, "userId") \notin {Payload!Undef, Payload!Null}
                     THEN p.user["userId"] ELSE Payload!Get(p.top, "userId")
           name == IF Payload!Get(p.user, "name") \notin {Payload!Undef, Payload!Null}
                   THEN p.user["name"] ELSE Payload!Get(p.top, "username")
           body == Payload!Default(Payload!Get(p.top, "body"), "")
           group == Payload!Default(Payload!Coalesce(p.top, <<"groupUlid", "groupId">>), "group")
           id == Payload!Default(Payload!Coalesce(p.top, <<"id", "ulid">>), "")
           bodied == Payload!Assign(p.top, "body", body)
           grouped == Payload!Assign(bodied, "groupUlid", group)
           known == Payload!Assign(grouped, "id", id)
           sent == Payload!Put(known, "userId", sender)
           named == Payload!Put(sent, "senderName",
                                IF sender = Payload!Undef THEN Payload!Undef ELSE name)
           q == Payload!NormalizeChatMessage(p, "group")
<1>1. NoFn(p.top) /\ NoFn(p.user)
  BY CleanNoFn
<1>2. body \notin {Payload!Undef, Payload!Fn}
  BY <1>1, Lookup DEF Payload!Default, Payload!Undef, Payload!Fn
<1>3. group \notin {Payload!Undef, Payload!Fn} /\ id \notin {Payload!Undef, Payload!Fn}
  BY <1>1, FirstNoFn DEF Payload!Default, Payload!Undef, Payload!Fn
<1>4. sender # Payload!Fn /\ name # Payload!Fn
  <2>1. \A k : Payload!Get(p.user, k) # Payload!Fn /\ Payload!Get(p.top, k) # Payload!Fn
    BY <1>1, Lookup
  <2>2. \A k : Payload!Get(p.user, k) \notin {Payload!Undef, Payload!Null}
               => p.user[k] = Payload!Get(p.user, k)
    BY DEF Payload!Get
  <2> QED BY <2>1, <2>2
<1> HIDE DEF sender, name, body, group, id
<1>5. Clean(bodied)
  BY <1>2, AssignKeeps
<1> HIDE DEF bodied
<1>6. Clean(grouped)
  BY <1>3, <1>5, AssignKeeps
<1> HIDE DEF grouped
<1>7. Clean(known)
  BY <1>3, <1>6, AssignKeeps
<1> HIDE DEF known
<1>8. Clean(sent)
  BY <1>4, <1>7, AssignKeeps
<1> HIDE DEF sent
<1>9. Clean(named)
  <2>1. (IF sender = Payload!Undef THEN Payload!Undef ELSE name) # Payload!Fn
    BY <1>4 DEF Payload!Undef, Payload!Fn
  <2> QED BY <1>8, <2>1, AssignKeeps
<1>10. DOMAIN q = Fields /\ q.top = named
  BY DEF Payload!NormalizeChatMessage, Fields, named, sent, known, grouped, bodied, sender, name,
     body, group, id
<1> QED
  BY <1>9, <1>10 DEF ReadWell

\* What stands for a whole reply: its top alone.
LEMMA OnlyReadsWell ==
    ASSUME NEW p, DOMAIN p = Fields, NEW o, Clean(o), kind # "post"
    PROVE  ReadWell(Payload!Only(p, o))
BY DEF ReadWell, Payload!Only, Fields

\* A token reply that is not refused has an access token.
LEMMA TokensReadWell ==
    ASSUME NEW p, DOMAIN p = Fields, Clean(p.top), Clean(p.data), kind = "tokens",
          ~Payload!Rejects(p)
    PROVE  ReadWell(Payload!ExtractAuthTokens(p))
<1> DEFINE r == Payload!Unwrap(p)
           at == Payload!Coalesce(r, <<"access_token", "accessToken">>)
           rt == Payload!Coalesce(r, <<"refresh_token", "refreshToken">>)
           ex == Payload!Coalesce(r, <<"expires_at", "expiresAt", "expires_in", "expiresIn">>)
           bearer == [accessToken |-> at]
           pair == Payload!Put(bearer, "refreshToken", rt)
           dated == Payload!Put(pair, "expiresAt", Payload!FromNow(ex))
           q == Payload!ExtractAuthTokens(p)
<1>1. NoFn(r)
  BY CleanNoFn DEF Payload!Unwrap
<1>2. at # Payload!Undef
  BY DEF Payload!Rejects
<1> HIDE DEF r
<1>3. at # Payload!Fn /\ rt # Payload!Fn /\ ex # Payload!Fn
  BY <1>1, FirstNoFn
<1> HIDE DEF at, rt, ex
<1>4. Clean(bearer)
  BY <1>2, <1>3 DEF Clean
<1> HIDE DEF bearer
<1>5. Clean(pair)
  BY <1>3, <1>4, AssignKeeps
<1> HIDE DEF pair
<1>6. Payload!FromNow(ex) # Payload!Fn
  BY <1>3 DEF Payload!FromNow, Payload!Fn
<1>7. Clean(dated)
  BY <1>5, <1>6, AssignKeeps
<1>8. DOMAIN q = Fields /\ q.top = dated
  BY DEF Payload!ExtractAuthTokens, Fields, dated, pair, bearer, at, rt, ex, r
<1> QED
  BY <1>7, <1>8 DEF ReadWell

\* The current user, with a badge that is a string or has a name.
LEMMA CurrentReadWell ==
    ASSUME NEW p, DOMAIN p = Fields, SentClean(p.top, TRUE), Clean(p.data), kind = "current"
    PROVE  ReadWell(Payload!CurrentUser(p))
<1> DEFINE n == Payload!NormalizeUserProfile(p)
           badges == IF Payload!Has(n.top, "badges") THEN n.top["badges"]
                     ELSE Payload!Get(p.data, "name")
           q == Payload!CurrentUser(p)
<1>1. ReadWell(n)
  BY ProfileReadWell
<1> HIDE DEF n
<1>2. badges # Payload!Fn
  <2>1. Payload!Has(n.top, "badges") => n.top["badges"] = Payload!Get(n.top, "badges")
    BY DEF Payload!Has, Payload!Get, Payload!Falsy
  <2>2. Payload!Get(n.top, "badges") # Payload!Fn /\ Payload!Get(p.data, "name") # Payload!Fn
    BY <1>1, CleanNoFn, Lookup DEF ReadWell
  <2> QED BY <2>1, <2>2
<1>3. Clean(Payload!Put(n.top, "badges", badges))
  <2> HIDE DEF badges
  <2> QED BY <1>1, <1>2, AssignKeeps DEF ReadWell
<1>4. DOMAIN q = Fields /\ q.top = Payload!Put(n.top, "badges", badges)
  BY <1>1 DEF Payload!CurrentUser, ReadWell, Fields, n
<1> QED
  BY <1>3, <1>4 DEF ReadWell

\* The small replies, bare or in their envelope.
LEMMA SmallReadWell ==
    ASSUME NEW p, DOMAIN p = Fields, Clean(p.top), Clean(p.data)
    PROVE  /\ kind = "hashtags" => ReadWell(Payload!Hashtags(p))
           /\ kind = "unread" => ReadWell(Payload!UnreadCount(p))
           /\ kind = "entitlements" => ReadWell(Payload!ArtistEntitlements(p))
           /\ kind = "location" => ReadWell(Payload!Location(p))
<1> DEFINE r == Payload!Unwrap(p)
<1>1. Clean(r) /\ NoFn(r) /\ NoFn(p.top) /\ NoFn(p.data)
  BY CleanNoFn DEF Payload!Unwrap
<1> HIDE DEF r
<1>2. \A v : v # Payload!Fn => Payload!Default(v, "none") \notin {Payload!Undef, Payload!Fn}
                            /\ Payload!Default(v, "0") \notin {Payload!Undef, Payload!Fn}
  BY DEF Payload!Default, Payload!Undef, Payload!Fn
<1>3. \A v, w : v # Payload!Fn /\ w \notin {Payload!Undef, Payload!Fn}
                => Payload!Default(v, w) \notin {Payload!Undef, Payload!Fn}
  BY DEF Payload!Default
<1>4. ASSUME kind = "hashtags" PROVE ReadWell(Payload!Hashtags(p))
  <2> DEFINE v == Payload!Coalesce(p.top, <<"hashtags", "items">>)
             w == Payload!Coalesce(p.data, <<"hashtags", "items">>)
             items == Payload!Default(v, Payload!Default(w, "none"))
  <2>1. v # Payload!Fn /\ w # Payload!Fn
    BY <1>1, FirstNoFn
  <2> HIDE DEF v, w
  <2>2. items \notin {Payload!Undef, Payload!Fn}
    BY <1>2, <1>3, <2>1
  <2> HIDE DEF items
  <2>3. Clean([items |-> items])
    BY <2>2 DEF Clean
  <2> QED
    BY <1>4, <2>3, OnlyReadsWell DEF Payload!Hashtags, items, v, w
<1>5. ASSUME kind = "unread" PROVE ReadWell(Payload!UnreadCount(p))
  <2> DEFINE v == Payload!Coalesce(r, <<"unread_count", "unreadCount">>)
             n == Payload!Default(v, "0")
  <2>1. v # Payload!Fn
    BY <1>1, FirstNoFn
  <2> HIDE DEF v
  <2>2. n \notin {Payload!Undef, Payload!Fn}
    BY <1>2, <2>1
  <2> HIDE DEF n
  <2>3. Clean([unreadCount |-> n])
    BY <2>2 DEF Clean
  <2> QED
    BY <1>5, <2>3, OnlyReadsWell DEF Payload!UnreadCount, n, v, r
<1>6. ASSUME kind = "entitlements" PROVE ReadWell(Payload!ArtistEntitlements(p))
  <2> DEFINE v == Payload!Get(Payload!SnakeToCamelObject(r), "songsLimit")
             n == IF v = Payload!Undef THEN "10" ELSE v
  <2>1. v # Payload!Fn
    BY <1>1, SnakeKeeps, CleanNoFn, Lookup
  <2> HIDE DEF v
  <2>2. n \notin {Payload!Undef, Payload!Fn}
    BY <2>1 DEF Payload!Undef, Payload!Fn
  <2> HIDE DEF n
  <2>3. Clean([songsLimit |-> n])
    BY <2>2 DEF Clean
  <2> QED
    BY <1>6, <2>3, OnlyReadsWell DEF Payload!ArtistEntitlements, n, v, r
<1>7. ASSUME kind = "location" PROVE ReadWell(Payload!Location(p))
  <2>1. Clean(Payload!Empty)
    BY DEF Clean, Payload!Empty
  <2>2. Clean(IF Payload!Located(r) THEN r ELSE Payload!Empty)
    BY <1>1, <2>1
  <2> QED
    BY <1>7, <2>2, OnlyReadsWell DEF Payload!Location, r
<1> QED
  BY <1>4, <1>5, <1>6, <1>7

\* Reading a reply, reading what was cached, and merging an answer keep the invariant.
LEMMA DecodesWell ==
    ASSUME PayloadInv, Payload!Decode
    PROVE  PayloadInv'
<1>1. /\ kind \in Documents /\ DOMAIN doc = Fields
      /\ SentClean(doc.top, TRUE) /\ SentClean(doc.user, FALSE) /\ SentClean(doc.stats, FALSE)
      /\ SentClean(doc.data, FALSE)
  BY DEF PayloadInv, Payload!Decode
<1>2. Clean(doc.user) /\ Clean(doc.stats) /\ Clean(doc.data) /\ (kind # "user" => Clean(doc.top))
  BY <1>1, SentIsClean
<1>3. NoFn(doc.user) /\ NoFn(doc.stats)
  BY <1>2, CleanNoFn
<1>4. ASSUME ~Payload!Refused(doc) PROVE ReadWell(Payload!Normal(doc))
  <2>1. CASE kind = "post"
    BY <1>1, <1>2, <1>3, <2>1, PostReadWell DEF Payload!Normal
  <2>2. CASE kind = "user"
    BY <1>1, <2>2, ProfileReadWell DEF Payload!Normal
  <2>3. CASE kind = "chat"
    BY <1>1, <1>2, <2>3, MessageReadWell DEF Payload!Normal
  <2>4. CASE kind = "tokens"
    BY <1>1, <1>2, <1>4, <2>4, TokensReadWell DEF Payload!Normal, Payload!Refused
  <2>5. CASE kind = "current"
    BY <1>1, <1>2, <2>5, CurrentReadWell DEF Payload!Normal
  <2>6. CASE kind \in Payload!Small
    BY <1>1, <1>2, <2>6, SmallReadWell DEF Payload!Normal, Payload!Small
  <2> QED
    BY <1>1, <2>1, <2>2, <2>3, <2>4, <2>5, <2>6 DEF Documents
<1>5. CASE Payload!Refused(doc)
  BY <1>1, <1>5 DEF PayloadInv, Payload!Decode, Decoded
<1>6. CASE ~Payload!Refused(doc)
  <2>1. ReadWell(doc')
    BY <1>4, <1>6 DEF Payload!Decode
  <2>2. kind' = kind /\ stage' = "normal"
    BY <1>6 DEF Payload!Decode
  <2> QED
    BY <1>1, <2>1, <2>2 DEF PayloadInv, Decoded, ReadWell
<1> QED
  BY <1>5, <1>6

LEMMA DecodesAgainWell ==
    ASSUME PayloadInv, Payload!DecodeAgain
    PROVE  PayloadInv'
<1> DEFINE p == [doc EXCEPT !.top = Payload!Sanitized(doc.top)]
<1>1. ReadWell(doc) /\ kind \in {"post", "user"} /\ kind \in Documents
  BY DEF PayloadInv, Decoded, Payload!DecodeAgain
<1>2. /\ DOMAIN p = Fields /\ p.top = Payload!Sanitized(doc.top)
      /\ p.user = doc.user /\ p.stats = doc.stats
  BY <1>1 DEF ReadWell, Fields
<1>3. Clean(p.top)
  BY <1>1, <1>2 DEF Clean, ReadWell, Payload!Sanitized
<1>4. kind' = kind /\ stage' = "again" /\ doc' = Payload!Normal(p)
  BY DEF Payload!DecodeAgain
<1> HIDE DEF p
<1>5. ReadWell(Payload!Normal(p))
  <2>1. CASE kind = "post"
    BY <1>1, <1>2, <1>3, <2>1, PostReadWell DEF Payload!Normal, ReadWell
  <2>2. CASE kind = "user"
    <3>1. SentClean(p.top, TRUE)
      BY <1>3 DEF Clean, SentClean
    <3> QED
      BY <1>2, <2>2, <3>1, ProfileReadWell DEF Payload!Normal
  <2> QED BY <1>1, <2>1, <2>2
<1> QED
  BY <1>1, <1>4, <1>5 DEF PayloadInv, Decoded, ReadWell

LEMMA PollsWell ==
    ASSUME PayloadInv, Payload!Poll
    PROVE  PayloadInv'
<1>1. ReadWell(doc) /\ kind = "post" /\ kind' = kind /\ stage' = "merged"
  BY DEF PayloadInv, Decoded, Payload!Poll
<1>2. PICK ans \in Payload!Answers : doc' = Payload!Polled(doc, ans)
  BY DEF Payload!Poll
<1>3. NoFn(ans.top) /\ NoFn(ans.stats)
  <2>1. Payload!Get(doc.top, "userReaction") # Payload!Fn
    BY <1>1, CleanNoFn, Lookup DEF ReadWell
  <2>2. \A r : r # Payload!Fn => NoFn([userReaction |-> r])
    BY DEF NoFn
  <2>3. NoFn(Payload!Empty) /\ NoFn([average |-> "rating"]) /\ NoFn([average_rating |-> "rating"])
    BY DEF NoFn, Payload!Empty, Payload!Fn
  <2>4. PICK r \in {Payload!Get(doc.top, "userReaction"), "newer", Payload!Null},
             s \in {Payload!Empty, [average |-> "rating"], [average_rating |-> "rating"]} :
               ans = [top |-> [userReaction |-> r], stats |-> s, hash |-> Payload!Empty]
    BY <1>2 DEF Payload!Answers
  <2>5. r # Payload!Fn
    BY <2>1, <2>4 DEF Payload!Null, Payload!Fn
  <2> QED
    BY <2>2, <2>3, <2>4, <2>5
<1>4. ReadWell(doc')
  BY <1>1, <1>2, <1>3, MergeReadWell
<1> QED
  BY <1>1, <1>4 DEF PayloadInv, Documents, Decoded, ReadWell

\* The invariant of the documents holds at first and is kept.
LEMMA PayloadHolds ==
    /\ Payload!Init => PayloadInv
    /\ PayloadInv /\ [Payload!Next]_Payload!vars => PayloadInv'
<1>1. Payload!Init => PayloadInv
  <2> SUFFICES ASSUME Payload!Init PROVE PayloadInv
    OBVIOUS
  <2>1. stage = "raw" /\ kind \in Documents
    BY StyleFields DEF Payload!Init
  <2> QED
    BY <2>1, SentWhole DEF PayloadInv, Decoded
<1>2. PayloadInv /\ UNCHANGED Payload!vars => PayloadInv'
  BY DEF PayloadInv, ReadWell, SentClean, Payload!vars
<1> QED
  BY <1>1, <1>2, DecodesWell, DecodesAgainWell, PollsWell DEF Payload!Next

\* A step of the client is a step of its payload, or leaves it alone.
LEMMA PayloadStep ==
    ASSUME [ClientNext]_allVars
    PROVE  part' = part /\ (part = "payload" => [Payload!Next]_Payload!vars)
BY DEF ClientNext, SessionMoves, PayloadMoves, PagingMoves, WritingMoves, IdentityMoves,
   allVars, payload, Payload!vars

\* However the API spelled a reply, no field the SDK shows or caches is undefined or a
\* function, which IndexedDB could not clone: after it was read, after it came back
\* from the cache, and after an engagement answer was merged in.
THEOREM PayloadTypeCorrect ==
    ClientSpec => [](part = "payload" => Payload!TypeOK)
<1> DEFINE Inv == part = "payload" => PayloadInv
<1>1. ClientInit => Inv
  BY PayloadHolds DEF ClientInit
<1>2. Inv /\ [ClientNext]_allVars => Inv'
  BY PayloadHolds, PayloadStep
<1>3. Inv => (part = "payload" => Payload!TypeOK)
  BY DEF PayloadInv, ReadWell, Clean, Decoded, Payload!TypeOK
<1> QED
  BY <1>1, <1>2, <1>3, PTL DEF ClientSpec

-----------------------------------------------------------------------------
\* What a page reads of a document is what was sent for it.

\* What a lookup returns after a field was set or filled in.
LEMMA GetAssign ==
    ASSUME NEW o, NEW k, NEW v, NEW j
    PROVE  Payload!Get(Payload!Assign(o, k, v), j) = IF j = k THEN v ELSE Payload!Get(o, j)
BY DEF Payload!Get, Payload!Assign

\* The same, but nothing is set to undefined,
LEMMA GetPut ==
    ASSUME NEW o, NEW k, NEW v, NEW j
    PROVE  Payload!Get(Payload!Put(o, k, v), j) =
             IF j = k /\ v # Payload!Undef THEN v ELSE Payload!Get(o, j)
BY GetAssign DEF Payload!Put

\* and what is there is not filled in.
LEMMA GetFill ==
    ASSUME NEW o, NEW k, NEW keys, NEW j
    PROVE  Payload!Get(Payload!Fill(o, k, keys), j) =
             IF j = k /\ ~Payload!Has(o, k) /\ Payload!Or(o, keys) # Payload!Undef
               THEN Payload!Or(o, keys) ELSE Payload!Get(o, j)
BY GetPut DEF Payload!Fill

\* An object without functions is sanitized as it is.
LEMMA GetSanitized ==
    ASSUME NEW o, NoFn(o), NEW j
    PROVE  Payload!Get(Payload!Sanitized(o), j) = Payload!Get(o, j)
BY DEF Payload!Get, Payload!Sanitized, NoFn

\* Nothing is found in an empty object,
LEMMA GetEmpty ==
    ASSUME NEW j
    PROVE  Payload!Get(Payload!Empty, j) = Payload!Undef
BY DEF Payload!Get, Payload!Empty

\* and in a rating object only the rating.
LEMMA GetOnly ==
    ASSUME NEW v
    PROVE  /\ Payload!Get([average |-> v], "average") = v
           /\ Payload!Get([average |-> v], "average_rating") = Payload!Undef
           /\ [average |-> v] # Payload!Empty
<1>1. /\ Payload!Get([average |-> v], "average") = v
      /\ Payload!Get([average |-> v], "average_rating") = Payload!Undef
  BY DEF Payload!Get
<1>2. "average" \in DOMAIN [average |-> v] /\ "average" \notin DOMAIN Payload!Empty
  BY DEF Payload!Empty
<1> QED
  BY <1>1, <1>2

\* Keys once converted stay as they are.
LEMMA CamelTwice ==
    ASSUME NEW k
    PROVE  Payload!CamelOf(Payload!CamelOf(k)) = Payload!CamelOf(k)
BY DEF Payload!CamelOf

\* So an object whose keys were converted is converted to itself.
LEMMA SnakeTwice ==
    ASSUME NEW o
    PROVE  LET q == Payload!SnakeToCamelObject(o) IN Payload!SnakeToCamelObject(q) = q
<1> DEFINE q == Payload!SnakeToCamelObject(o)
           D == {Payload!CamelOf(k) : k \in DOMAIN o}
           r == Payload!SnakeToCamelObject(q)
<1>1. DOMAIN q = D
  BY DEF Payload!SnakeToCamelObject
<1>2. \A c \in D : Payload!CamelOf(c) = c
  BY CamelTwice
<1> HIDE DEF q, D
<1>3. {Payload!CamelOf(k) : k \in D} = D
  BY <1>2
<1>4. r = [c \in D |-> q[CHOOSE k \in D : Payload!CamelOf(k) = c]]
  BY <1>1, <1>3 DEF Payload!SnakeToCamelObject
<1>5. \A c \in D : (CHOOSE k \in D : Payload!CamelOf(k) = c) = c
  BY <1>2
<1>6. r = [c \in D |-> q[c]]
  BY <1>4, <1>5
<1>7. q = [c \in DOMAIN q |-> q[c]]
  BY DEF q, Payload!SnakeToCamelObject
<1> QED
  BY <1>1, <1>6, <1>7 DEF q

\* The value of a field that is filled in when it is falsy, or when it is missing.
Filled(v, w) == IF v \in Payload!Falsy /\ w # Payload!Undef THEN w ELSE v
Missing(v, w) == IF v \in {Payload!Undef, Payload!Null} /\ w # Payload!Undef THEN w ELSE v

\* A lookup after a field was filled in, by the value the field had.
LEMMA GetFilled ==
    ASSUME NEW o, NEW k, NEW keys, NEW j
    PROVE  Payload!Get(Payload!Fill(o, k, keys), j) =
             IF j = k THEN Filled(Payload!Get(o, k), Payload!Or(o, keys)) ELSE Payload!Get(o, j)
BY GetFill DEF Filled, Payload!Has

\* What the normaliser reads of a post, from the keys as they are spelled.
TitleIn(top) ==
    Missing(Payload!Get(top, "title"), Payload!Or(top, <<"song_title", "songTitle", "name">>))
ArtistIn(top) ==
    Filled(Payload!Get(top, "artist"), Payload!Or(top, <<"artist_name", "artistName">>))
OwnerIn(top, user) ==
    Filled(Filled(Payload!Get(top, "userId"), Payload!Or(top, <<"user_ulid", "userULID">>)),
           Payload!Or(user, <<"ulid", "userId">>))
PulledIn(p, k) ==
    IF Payload!Get(p.user, k) \in Payload!Falsy /\ Payload!Get(p.top, k) \notin Payload!Falsy
      THEN Payload!Get(p.top, k) ELSE Payload!Get(p.user, k)
NameIn(p) == Filled(PulledIn(p, "name"), PulledIn(p, "displayName"))
AvatarIn(p) == Filled(PulledIn(p, "avatar"), PulledIn(p, "avatarUrl"))

\* What a lookup in the top of a normalised post returns.
LEMMA GetTop ==
    ASSUME NEW top, NEW user, NEW stats
    PROVE  LET q == Payload!PostTop(top, user, stats) IN
           /\ Payload!Get(q, "title") = TitleIn(top)
           /\ Payload!Get(q, "artist") = ArtistIn(top)
           /\ Payload!Get(q, "userId") = OwnerIn(top, user)
           /\ \A k : k \notin {"type", "title", "artist", "album", "userId", "averageRating"}
                     => Payload!Get(q, k) = Payload!Get(top, k)
<1> DEFINE keys   == <<"song_title", "songTitle", "name">>
           typed  == Payload!Fill(top, "type", <<"postType">>)
           titled == IF Payload!Get(typed, "title") \in {Payload!Undef, Payload!Null}
                     THEN Payload!Put(typed, "title", Payload!Or(typed, keys)) ELSE typed
           arted == Payload!Fill(titled, "artist", <<"artist_name", "artistName">>)
           sung == Payload!Fill(arted, "album", <<"album_name", "albumName">>)
           owned == Payload!Fill(sung, "userId", <<"user_ulid", "userULID">>)
           by == IF Payload!Has(owned, "userId") THEN owned
                 ELSE Payload!Put(owned, "userId", Payload!Or(user, <<"ulid", "userId">>))
           rated == Payload!Put(by, "averageRating", Payload!Get(stats, "average"))
           q == Payload!PostTop(top, user, stats)
<1>1. q = by \/ q = rated
  BY DEF Payload!PostTop
<1>2. \A k : k # "averageRating" => Payload!Get(q, k) = Payload!Get(by, k)
  <2> HIDE DEF by, q
  <2> QED BY <1>1, GetPut
<1> HIDE DEF q
<1>3. \A k : k # "userId" => Payload!Get(by, k) = Payload!Get(owned, k)
  <2> HIDE DEF owned
  <2> QED BY GetPut
<1>4. Payload!Get(by, "userId") =
        Filled(Payload!Get(owned, "userId"), Payload!Or(user, <<"ulid", "userId">>))
  <2> HIDE DEF owned
  <2> QED BY GetPut DEF Payload!Has, Filled
<1> HIDE DEF by
<1>5. \A k : Payload!Get(owned, k) =
        IF k = "userId" THEN Filled(Payload!Get(sung, "userId"),
                                    Payload!Or(sung, <<"user_ulid", "userULID">>))
        ELSE Payload!Get(sung, k)
  <2> HIDE DEF sung
  <2> QED BY GetFilled
<1> HIDE DEF owned
<1>6. \A k : k # "album" => Payload!Get(sung, k) = Payload!Get(arted, k)
  <2> HIDE DEF arted
  <2> QED BY GetFilled
<1> HIDE DEF sung
<1>7. \A k : Payload!Get(arted, k) =
        IF k = "artist" THEN Filled(Payload!Get(titled, "artist"),
                                    Payload!Or(titled, <<"artist_name", "artistName">>))
        ELSE Payload!Get(titled, k)
  <2> HIDE DEF titled
  <2> QED BY GetFilled
<1> HIDE DEF arted
<1>8. \A k : Payload!Get(titled, k) =
        IF k = "title" THEN Missing(Payload!Get(typed, "title"), Payload!Or(typed, keys))
        ELSE Payload!Get(typed, k)
  <2> HIDE DEF typed, keys
  <2> QED BY GetPut DEF Missing
<1> HIDE DEF titled
<1>9. \A k : k # "type" => Payload!Get(typed, k) = Payload!Get(top, k)
  BY GetFilled
<1> HIDE DEF typed
<1>10. Payload!Or(typed, keys) = Payload!Or(top, keys)
  BY <1>9, OrOfThree DEF Truthy
<1>11. Payload!Or(titled, <<"artist_name", "artistName">>) =
         Payload!Or(top, <<"artist_name", "artistName">>)
  BY <1>8, <1>9, OrOfTwo DEF Truthy
<1>12. Payload!Or(sung, <<"user_ulid", "userULID">>) = Payload!Or(top, <<"user_ulid", "userULID">>)
  BY <1>6, <1>7, <1>8, <1>9, OrOfTwo DEF Truthy
<1>13. Payload!Get(q, "title") = TitleIn(top)
  BY <1>2, <1>3, <1>5, <1>6, <1>7, <1>8, <1>9, <1>10 DEF TitleIn, keys
<1>14. Payload!Get(q, "artist") = ArtistIn(top)
  BY <1>2, <1>3, <1>5, <1>6, <1>7, <1>8, <1>9, <1>11 DEF ArtistIn
<1>15. Payload!Get(q, "userId") = OwnerIn(top, user)
  BY <1>2, <1>4, <1>5, <1>6, <1>7, <1>8, <1>9, <1>12 DEF OwnerIn
<1>16. \A k : k \notin {"type", "title", "artist", "album", "userId", "averageRating"}
              => Payload!Get(q, k) = Payload!Get(top, k)
  BY <1>2, <1>3, <1>5, <1>6, <1>7, <1>8, <1>9
<1> QED
  BY <1>13, <1>14, <1>15, <1>16 DEF q

\* What a lookup in the author of a normalised post returns.
LEMMA GetUser ==
    ASSUME NEW p
    PROVE  LET u == Payload!PostUser(p) IN
           /\ Payload!Get(u, "name") = NameIn(p)
           /\ Payload!Get(u, "displayName") = Filled(PulledIn(p, "displayName"), NameIn(p))
           /\ Payload!Get(u, "avatar") = AvatarIn(p)
           /\ Payload!Get(u, "avatarUrl") = Filled(PulledIn(p, "avatarUrl"), AvatarIn(p))
           /\ \A k : k \notin Payload!RootKeys => Payload!Get(u, k) = Payload!Get(p.user, k)
<1> DEFINE keys == {k \in Payload!RootKeys : ~Payload!Has(p.user, k) /\ Payload!Has(p.top, k)}
           pulled == Payload!Pull(p.user, p.top, keys)
           named == Payload!Fill(pulled, "name", <<"displayName">>)
           both == Payload!Fill(named, "displayName", <<"name">>)
           shown == Payload!Fill(both, "avatar", <<"avatarUrl">>)
           u == Payload!Fill(shown, "avatarUrl", <<"avatar">>)
<1>1. Payload!PostUser(p) = u
  BY DEF Payload!PostUser, Payload!Mirror
<1>2. \A k : Payload!Get(pulled, k) =
               IF k \in keys THEN Payload!Get(p.top, k) ELSE Payload!Get(p.user, k)
  <2>1. \A k \in keys : k \in DOMAIN p.top
    BY DEF Payload!Has, Payload!Get, Payload!Falsy
  <2> HIDE DEF keys
  <2> QED BY <2>1 DEF Payload!Get, Payload!Pull
<1>3. \A k : Payload!Get(pulled, k) =
               IF k \in Payload!RootKeys THEN PulledIn(p, k) ELSE Payload!Get(p.user, k)
  <2> HIDE DEF pulled
  <2> QED BY <1>2 DEF PulledIn, Payload!Has
<1> HIDE DEF pulled
<1>4. \A k : Payload!Get(named, k) =
        IF k = "name" THEN Filled(Payload!Get(pulled, "name"), Payload!Get(pulled, "displayName"))
        ELSE Payload!Get(pulled, k)
  BY GetFilled, OrOfOne
<1> HIDE DEF named
<1>5. \A k : Payload!Get(both, k) =
        IF k = "displayName"
          THEN Filled(Payload!Get(named, "displayName"), Payload!Get(named, "name"))
        ELSE Payload!Get(named, k)
  BY GetFilled, OrOfOne
<1> HIDE DEF both
<1>6. \A k : Payload!Get(shown, k) =
        IF k = "avatar" THEN Filled(Payload!Get(both, "avatar"), Payload!Get(both, "avatarUrl"))
        ELSE Payload!Get(both, k)
  BY GetFilled, OrOfOne
<1> HIDE DEF shown
<1>7. \A k : Payload!Get(u, k) =
        IF k = "avatarUrl"
          THEN Filled(Payload!Get(shown, "avatarUrl"), Payload!Get(shown, "avatar"))
        ELSE Payload!Get(shown, k)
  BY GetFilled, OrOfOne
<1> HIDE DEF u
<1>8. Payload!RootKeys = {"username", "displayName", "name", "avatar", "avatarUrl"}
  BY DEF Payload!RootKeys
<1>9. Payload!Get(u, "name") = NameIn(p)
  BY <1>3, <1>4, <1>5, <1>6, <1>7, <1>8 DEF NameIn
<1>10. Payload!Get(u, "displayName") = Filled(PulledIn(p, "displayName"), NameIn(p))
  BY <1>3, <1>4, <1>5, <1>6, <1>7, <1>8 DEF NameIn
<1>11. Payload!Get(u, "avatar") = AvatarIn(p)
  BY <1>3, <1>4, <1>5, <1>6, <1>7, <1>8 DEF AvatarIn
<1>12. Payload!Get(u, "avatarUrl") = Filled(PulledIn(p, "avatarUrl"), AvatarIn(p))
  BY <1>3, <1>4, <1>5, <1>6, <1>7, <1>8 DEF AvatarIn
<1>13. \A k : k \notin Payload!RootKeys => Payload!Get(u, k) = Payload!Get(p.user, k)
  BY <1>3, <1>4, <1>5, <1>6, <1>7, <1>8
<1> QED
  BY <1>1, <1>9, <1>10, <1>11, <1>12, <1>13

\* What is read of a rating.
RatingIn(stats) == Payload!Coalesce(stats, <<"average_rating", "average">>)

\* What a lookup in the rating of a post returns, once read and read again.
LEMMA GetStats ==
    ASSUME NEW s
    PROVE  LET r == Payload!RatingStats(s) IN
           /\ Payload!Get(r, "average") = RatingIn(s)
           /\ RatingIn(r) = RatingIn(s)
           /\ r # Payload!Empty => s # Payload!Empty
<1> DEFINE r == Payload!RatingStats(s)
<1>1. CASE s = Payload!Empty
  <2>1. r = Payload!Empty
    BY <1>1 DEF Payload!RatingStats
  <2> QED
    BY <1>1, <2>1, GetEmpty, CoalesceOfTwo DEF RatingIn, Given
<1>2. CASE s # Payload!Empty
  <2>1. r = [average |-> RatingIn(s)]
    BY <1>2 DEF Payload!RatingStats, RatingIn
  <2>2. Payload!Get(r, "average") = RatingIn(s) /\ Payload!Get(r, "average_rating") = Payload!Undef
    <3> HIDE DEF r
    <3> QED BY <2>1, GetOnly
  <2>3. RatingIn(r) = RatingIn(s)
    <3> HIDE DEF r
    <3> QED BY <2>2, CoalesceOfTwo DEF RatingIn, Given
  <2> QED
    BY <1>2, <2>2, <2>3
<1> QED
  BY <1>1, <1>2

\* Filling in twice is filling in once.
LEMMA FilledTwice ==
    ASSUME NEW v, NEW w, NEW u
    PROVE  /\ Missing(Missing(v, w), w) = Missing(v, w)
           /\ Filled(Filled(v, w), w) = Filled(v, w)
           /\ Filled(Filled(Filled(Filled(v, w), u), w), u) = Filled(Filled(v, w), u)
BY DEF Missing, Filled, Payload!Falsy, Payload!Undef, Payload!Null

\* Where one name is missing the root's other one was: a is a name as the root has
\* it, v and w what the author and the root make of it and of the other name.
Rooted(v, a) == IF v \in Payload!Falsy /\ a \notin Payload!Falsy THEN a ELSE v

\* A name and its mirror, filled in from one another and from the root, stay as they
\* are when the root has them both: no reading changes the author of a post twice.
LEMMA MirrorTwice ==
    ASSUME NEW x, NEW a, NEW y, NEW b
    PROVE  LET v == Rooted(x, a)
               w == Rooted(y, b)
               n == Filled(v, w)
               d == Filled(w, n)
           IN  Filled(Rooted(n, a), Rooted(d, b)) = n
BY DEF Rooted, Filled, Payload!Falsy, Payload!Undef, Payload!Null

\* What a post reads, however often it is read again.
LEMMA PostOnce ==
    ASSUME NEW p, DOMAIN p = Fields
    PROVE  LET q == Payload!NormalizePost(p) IN
           /\ DOMAIN q = Fields
           /\ q.user = Payload!PostUser(p) /\ q.stats = Payload!RatingStats(p.stats)
           /\ q.top = Payload!PostTop(p.top, q.user, q.stats)
           /\ q.nested = Payload!SnakeToCamelObject(p.nested)
BY DEF Payload!NormalizePost, Fields

\* What is read of a post, field by field.
PostReads(p) == [
    title |-> TitleIn(p.top), artist |-> ArtistIn(p.top),
    owner |-> OwnerIn(p.top, Payload!PostUser(p)), name |-> NameIn(p), avatar |-> AvatarIn(p),
    rating |-> RatingIn(p.stats),
    expiry |-> Payload!Get(Payload!SnakeToCamelObject(p.nested), "expiresAt"),
    reaction |-> Payload!Get(p.top, "userReaction")]

\* The fields of a post as a page reads them.
PostShows(q) == [
    title |-> Payload!Get(q.top, "title"), artist |-> Payload!Get(q.top, "artist"),
    owner |-> Payload!Get(q.top, "userId"), name |-> Payload!Get(q.user, "name"),
    avatar |-> Payload!Get(q.user, "avatar"), rating |-> Payload!Get(q.stats, "average"),
    expiry |-> Payload!Get(q.nested, "expiresAt"),
    reaction |-> Payload!Get(q.top, "userReaction")]

\* A normalised post shows what the normaliser read.
LEMMA PostShown ==
    ASSUME NEW p, DOMAIN p = Fields
    PROVE  PostShows(Payload!NormalizePost(p)) = PostReads(p)
<1> DEFINE q == Payload!NormalizePost(p)
<1>1. /\ q.user = Payload!PostUser(p) /\ q.stats = Payload!RatingStats(p.stats)
      /\ q.top = Payload!PostTop(p.top, q.user, q.stats)
      /\ q.nested = Payload!SnakeToCamelObject(p.nested)
  BY PostOnce
<1> HIDE DEF q
<1>2. /\ Payload!Get(q.top, "title") = TitleIn(p.top)
      /\ Payload!Get(q.top, "artist") = ArtistIn(p.top)
      /\ Payload!Get(q.top, "userId") = OwnerIn(p.top, Payload!PostUser(p))
      /\ Payload!Get(q.top, "userReaction") = Payload!Get(p.top, "userReaction")
  BY <1>1, GetTop
<1>3. Payload!Get(q.user, "name") = NameIn(p) /\ Payload!Get(q.user, "avatar") = AvatarIn(p)
  BY <1>1, GetUser
<1>4. Payload!Get(q.stats, "average") = RatingIn(p.stats)
  BY <1>1, GetStats
<1>5. PostShows(q) = PostReads(p)
  BY <1>1, <1>2, <1>3, <1>4 DEF PostShows, PostReads
<1> QED
  BY <1>5 DEF q

\* Reading a post again reads what the first reading put, wherever it put it.
LEMMA PostReadTwice ==
    ASSUME NEW p, DOMAIN p = Fields, NEW r,
           LET q == Payload!NormalizePost(p) IN
           /\ r.user = q.user /\ r.stats = q.stats /\ r.nested = q.nested
           /\ \A k : Payload!Get(r.top, k) = Payload!Get(q.top, k)
    PROVE  PostReads(r) = PostReads(p)
<1> DEFINE q == Payload!NormalizePost(p)
           u == Payload!PostUser(p)
<1>1. /\ q.user = u /\ q.stats = Payload!RatingStats(p.stats)
      /\ q.top = Payload!PostTop(p.top, q.user, q.stats)
      /\ q.nested = Payload!SnakeToCamelObject(p.nested)
  BY PostOnce
<1>2. /\ r.user = q.user /\ r.stats = q.stats /\ r.nested = q.nested
      /\ \A k : Payload!Get(r.top, k) = Payload!Get(q.top, k)
  OBVIOUS
<1> HIDE DEF q
<1>3. /\ Payload!Get(r.top, "title") = TitleIn(p.top)
      /\ Payload!Get(r.top, "artist") = ArtistIn(p.top)
      /\ Payload!Get(r.top, "userId") = OwnerIn(p.top, u)
      /\ \A k : k \notin {"type", "title", "artist", "album", "userId", "averageRating"}
                => Payload!Get(r.top, k) = Payload!Get(p.top, k)
  BY <1>1, <1>2, GetTop
<1>4. /\ Payload!Get(r.user, "name") = NameIn(p)
      /\ Payload!Get(r.user, "displayName") = Filled(PulledIn(p, "displayName"), NameIn(p))
      /\ Payload!Get(r.user, "avatar") = AvatarIn(p)
      /\ Payload!Get(r.user, "avatarUrl") = Filled(PulledIn(p, "avatarUrl"), AvatarIn(p))
      /\ \A k : k \notin Payload!RootKeys => Payload!Get(r.user, k) = Payload!Get(p.user, k)
  BY <1>1, <1>2, GetUser
<1>5. TitleIn(r.top) = TitleIn(p.top)
  <2>1. Payload!Or(r.top, <<"song_title", "songTitle", "name">>)
          = Payload!Or(p.top, <<"song_title", "songTitle", "name">>)
    BY <1>3, OrOfThree DEF Truthy
  <2> QED BY <1>3, <2>1, FilledTwice DEF TitleIn
<1>6. ArtistIn(r.top) = ArtistIn(p.top)
  <2>1. Payload!Or(r.top, <<"artist_name", "artistName">>)
          = Payload!Or(p.top, <<"artist_name", "artistName">>)
    BY <1>3, OrOfTwo DEF Truthy
  <2> QED BY <1>3, <2>1, FilledTwice DEF ArtistIn
<1>7. \A k \in {"name", "displayName", "avatar", "avatarUrl"} :
        /\ Payload!Get(r.top, k) = Payload!Get(p.top, k)
        /\ PulledIn(r, k) = Rooted(Payload!Get(r.user, k), Payload!Get(p.top, k))
        /\ PulledIn(p, k) = Rooted(Payload!Get(p.user, k), Payload!Get(p.top, k))
  BY <1>3 DEF PulledIn, Rooted
<1>8. NameIn(r) = NameIn(p)
  BY <1>4, <1>7, MirrorTwice DEF NameIn
<1>9. AvatarIn(r) = AvatarIn(p)
  BY <1>4, <1>7, MirrorTwice DEF AvatarIn
<1>10. OwnerIn(r.top, Payload!PostUser(r)) = OwnerIn(p.top, u)
  <2>1. \A k \in {"ulid", "userId"} :
          /\ k \notin Payload!RootKeys
          /\ Payload!Get(Payload!PostUser(r), k) = Payload!Get(p.user, k)
          /\ Payload!Get(u, k) = Payload!Get(p.user, k)
    BY <1>1, <1>2, <1>4, GetUser DEF Payload!RootKeys
  <2>2. Payload!Or(Payload!PostUser(r), <<"ulid", "userId">>) = Payload!Or(u, <<"ulid", "userId">>)
    <3> HIDE DEF u
    <3> QED BY <2>1, OrOfTwo DEF Truthy
  <2>3. Payload!Or(r.top, <<"user_ulid", "userULID">>) =
          Payload!Or(p.top, <<"user_ulid", "userULID">>)
    BY <1>3, OrOfTwo DEF Truthy
  <2> HIDE DEF u
  <2> QED BY <1>3, <2>2, <2>3, FilledTwice DEF OwnerIn
<1>11. RatingIn(r.stats) = RatingIn(p.stats)
  BY <1>1, <1>2, GetStats
<1>12. Payload!SnakeToCamelObject(r.nested) = Payload!SnakeToCamelObject(p.nested)
  BY <1>1, <1>2, SnakeTwice
<1>13. Payload!Get(r.top, "userReaction") = Payload!Get(p.top, "userReaction")
  BY <1>3
<1> QED
  BY <1>5, <1>6, <1>8, <1>9, <1>10, <1>11, <1>12, <1>13 DEF PostReads

\* No key carries two fields.
Apart(s) == \A f, g \in DOMAIN s : s[f] = s[g] => f = g \/ s[f] = Payload!Absent

\* What a lookup in a part that was sent returns: the field it carries.
LEMMA GetSent ==
    ASSUME NEW s, Pairs(s), Apart(s), NEW where, NEW k, <<where, k>> # Payload!Absent
    PROVE  LET v == Payload!Get(Payload!PartOf(s, where), k) IN
           /\ \A f \in DOMAIN s :
                s[f] = <<where, k>> => v = IF f = "unlimited" THEN Payload!Null ELSE f
           /\ (\A f \in DOMAIN s : s[f] # <<where, k>>) => v = Payload!Undef
<1> DEFINE o == Payload!PartOf(s, where)
<1>1. \A j \in DOMAIN o : \E f \in DOMAIN s :
          s[f] = <<where, j>> /\ s[f] # Payload!Absent
          /\ o[j] = IF f = "unlimited" THEN Payload!Null ELSE f
  BY PartSent
<1>2. ASSUME NEW f \in DOMAIN s, s[f] = <<where, k>>
      PROVE  k \in DOMAIN o
  <2>1. s[f][1] = where /\ s[f][2] = k
    BY <1>2
  <2> QED
    BY <1>2, <2>1 DEF Payload!PartOf
<1> HIDE DEF o
<1>3. ASSUME NEW f \in DOMAIN s, s[f] = <<where, k>>
      PROVE  Payload!Get(o, k) = IF f = "unlimited" THEN Payload!Null ELSE f
  <2>1. k \in DOMAIN o
    BY <1>2, <1>3
  <2>2. PICK g \in DOMAIN s : s[g] = <<where, k>>
                              /\ o[k] = IF g = "unlimited" THEN Payload!Null ELSE g
    BY <1>1, <2>1
  <2>3. g = f
    BY <1>3, <2>2 DEF Apart
  <2> QED
    BY <2>1, <2>2, <2>3 DEF Payload!Get
<1>4. ASSUME \A f \in DOMAIN s : s[f] # <<where, k>>
      PROVE  Payload!Get(o, k) = Payload!Undef
  BY <1>1, <1>4 DEF Payload!Get
<1> QED
  BY <1>3, <1>4 DEF o

\* A field the document carries, or none.
Carries(f) == IF style[f] = Payload!Absent THEN Payload!Undef ELSE f

\* What a page is to read of a post.
PostCarries == [
    title |-> Carries("title"), artist |-> Carries("artist"), owner |-> Carries("owner"),
    name |-> Carries("name"), avatar |-> Carries("avatar"), rating |-> Carries("rating"),
    expiry |-> Carries("expiry"), reaction |-> Carries("reaction")]

\* A post in a style the API sends.
PostStyled ==
    style \in Payload!PostStyles /\ Payload!Sendable("post", style)

\* The keys the API may send each field of a post under, and no two fields under one.
LEMMA PostPlaces ==
    ASSUME PostStyled
    PROVE  /\ DOMAIN style = {"title", "artist", "owner", "name", "avatar", "rating", "expiry",
                              "reaction"}
           /\ Pairs(style) /\ Apart(style)
           /\ style["title"] \in {<<"top", "title">>, <<"top", "song_title">>,
                <<"top", "songTitle">>, <<"top", "name">>, Payload!Absent}
           /\ style["artist"] \in {<<"top", "artist">>, <<"top", "artist_name">>,
                <<"top", "artistName">>, Payload!Absent}
           /\ style["owner"] \in {<<"top", "userId">>, <<"top", "user_ulid">>,
                <<"top", "userULID">>, <<"user", "ulid">>, <<"user", "userId">>, Payload!Absent}
           /\ style["name"] \in {<<"top", "name">>, <<"top", "displayName">>, <<"user", "name">>,
                <<"user", "displayName">>, Payload!Absent}
           /\ style["avatar"] \in {<<"top", "avatar">>, <<"user", "avatarUrl">>, Payload!Absent}
           /\ style["rating"] \in {<<"stats", "average_rating">>, <<"stats", "average">>,
                Payload!Absent}
           /\ style["expiry"] \in {<<"nested", "expires_at">>, <<"nested", "expiresAt">>,
                Payload!Absent}
           /\ style["reaction"] \in {<<"top", "userReaction">>, Payload!Absent}
           /\ style["title"] = <<"top", "name">> => style["name"] = <<"user", "name">>
           /\ style["name"] = <<"top", "name">> => style["title"] # Payload!Absent
<1>1. DOMAIN style = {"title", "artist", "owner", "name", "avatar", "rating", "expiry",
                      "reaction"}
  BY DEF PostStyled, Payload!PostStyles
<1>2. /\ style["title"] \in Payload!At("top", {"title", "song_title", "songTitle", "name"})
      /\ style["artist"] \in Payload!At("top", {"artist", "artist_name", "artistName"})
      /\ style["owner"] \in Payload!At("top", {"userId", "user_ulid", "userULID"})
                            \cup Payload!At("user", {"ulid", "userId"})
      /\ style["name"] \in Payload!At("top", {"name", "displayName"})
                           \cup Payload!At("user", {"name", "displayName"})
      /\ style["avatar"] \in Payload!At("top", {"avatar"}) \cup Payload!At("user", {"avatarUrl"})
      /\ style["rating"] \in Payload!At("stats", {"average_rating", "average"})
      /\ style["expiry"] \in Payload!At("nested", {"expires_at", "expiresAt"})
      /\ style["reaction"] \in Payload!At("top", {"userReaction"})
  BY DEF PostStyled, Payload!PostStyles
<1>3. Pairs(style)
  BY <1>1, <1>2, AtPairs DEF Pairs
<1>4. Apart(style)
  BY DEF PostStyled, Payload!Sendable, Apart
<1>5. /\ style["title"] = <<"top", "name">> => style["name"] = <<"user", "name">>
      /\ style["name"] = <<"top", "name">> => style["title"] # Payload!Absent
  BY <1>1 DEF PostStyled, Payload!Sendable
<1>6. \A where, keys, x : x \in Payload!At(where, keys) =>
         x = Payload!Absent \/ \E k \in keys : x = <<where, k>>
  BY DEF Payload!At
<1> QED
  BY <1>1, <1>2, <1>3, <1>4, <1>5, <1>6

\* What a key of a raw document carries, and whether it carries field f.
InSent(where, k) == Payload!Get(Payload!PartOf(style, where), k)
Sends(f, where, k) == IF style[f] = <<where, k>> THEN f ELSE Payload!Undef

\* What each key of a raw post carries.
LEMMA PostKeys ==
    ASSUME PostStyled
    PROVE  /\ \A k \in {"title", "song_title", "songTitle"} :
                InSent("top", k) = Sends("title", "top", k)
           /\ InSent("top", "name") = IF style["title"] = <<"top", "name">> THEN "title"
                                  ELSE Sends("name", "top", "name")
           /\ \A k \in {"artist", "artist_name", "artistName"} :
                InSent("top", k) = Sends("artist", "top", k)
           /\ \A k \in {"userId", "user_ulid", "userULID"} :
                InSent("top", k) = Sends("owner", "top", k)
           /\ \A k \in {"ulid", "userId"} : InSent("user", k) = Sends("owner", "user", k)
           /\ InSent("top", "displayName") = Sends("name", "top", "displayName")
           /\ \A k \in {"name", "displayName"} : InSent("user", k) = Sends("name", "user", k)
           /\ \A k \in {"avatar", "avatarUrl"} : /\ InSent("top", k) = Sends("avatar", "top", k)
                                                 /\ InSent("user", k) = Sends("avatar", "user", k)
           /\ \A k \in {"average_rating", "average"} :
                InSent("stats", k) = Sends("rating", "stats", k)
           /\ \A k \in {"expires_at", "expiresAt"} :
                InSent("nested", k) = Sends("expiry", "nested", k)
           /\ InSent("top", "userReaction") = Sends("reaction", "top", "userReaction")
<1>1. ASSUME NEW where, NEW k, k # "absent"
      PROVE  /\ \A f \in DOMAIN style : f # "unlimited"
                  => (style[f] = <<where, k>> => InSent(where, k) = f)
             /\ (\A f \in DOMAIN style : style[f] # <<where, k>>) =>
                  InSent(where, k) = Payload!Undef
  <2>1. <<where, k>> # Payload!Absent
    BY <1>1 DEF Payload!Absent
  <2> QED
    BY <2>1, PostPlaces, GetSent DEF InSent
<1>2. DOMAIN style = {"title", "artist", "owner", "name", "avatar", "rating", "expiry", "reaction"}
  BY PostPlaces
<1>3. \A k \in {"title", "song_title", "songTitle"} : InSent("top", k) = Sends("title", "top", k)
  BY <1>1, <1>2, PostPlaces DEF Payload!Absent, Sends
<1>4. InSent("top", "name") = IF style["title"] = <<"top", "name">> THEN "title"
                          ELSE Sends("name", "top", "name")
  BY <1>1, <1>2, PostPlaces DEF Payload!Absent, Sends
<1>5. \A k \in {"artist", "artist_name", "artistName"} :
        InSent("top", k) = Sends("artist", "top", k)
  BY <1>1, <1>2, PostPlaces DEF Payload!Absent, Sends
<1>6. \A k \in {"userId", "user_ulid", "userULID"} : InSent("top", k) = Sends("owner", "top", k)
  BY <1>1, <1>2, PostPlaces DEF Payload!Absent, Sends
<1>7. \A k \in {"ulid", "userId"} : InSent("user", k) = Sends("owner", "user", k)
  BY <1>1, <1>2, PostPlaces DEF Payload!Absent, Sends
<1>8. InSent("top", "displayName") = Sends("name", "top", "displayName")
  BY <1>1, <1>2, PostPlaces DEF Payload!Absent, Sends
<1>9. \A k \in {"name", "displayName"} : InSent("user", k) = Sends("name", "user", k)
  BY <1>1, <1>2, PostPlaces DEF Payload!Absent, Sends
<1>10. \A k \in {"avatar", "avatarUrl"} : /\ InSent("top", k) = Sends("avatar", "top", k)
                                          /\ InSent("user", k) = Sends("avatar", "user", k)
  BY <1>1, <1>2, PostPlaces DEF Payload!Absent, Sends
<1>11. \A k \in {"average_rating", "average"} : InSent("stats", k) = Sends("rating", "stats", k)
  BY <1>1, <1>2, PostPlaces DEF Payload!Absent, Sends
<1>12. InSent("top", "userReaction") = Sends("reaction", "top", "userReaction")
  BY <1>1, <1>2, PostPlaces DEF Payload!Absent, Sends
<1>13. \A k \in {"expires_at", "expiresAt"} :
         InSent("nested", k) = Sends("expiry", "nested", k)
  BY <1>1, <1>2, PostPlaces DEF Payload!Absent, Sends
<1> QED
  BY <1>13, <1>3, <1>4, <1>5, <1>6, <1>7, <1>8, <1>9, <1>10, <1>11, <1>12

\* A nested field that is sent under one of its two spellings.
LEMMA GetSnake ==
    ASSUME NEW o, \A k \in DOMAIN o : o[k] # Payload!Undef,
           NEW a, NEW c, \A k : Payload!CamelOf(k) = c <=> k \in {a, c},
           NEW v, Payload!Get(o, a) \in {v, Payload!Undef}, Payload!Get(o, c) \in {v, Payload!Undef}
    PROVE  Payload!Get(Payload!SnakeToCamelObject(o), c) =
             IF Payload!Get(o, a) = Payload!Undef /\ Payload!Get(o, c) = Payload!Undef
               THEN Payload!Undef ELSE v
<1> DEFINE k == CHOOSE j \in DOMAIN o : Payload!CamelOf(j) = c
<1>1. Payload!Get(Payload!SnakeToCamelObject(o), c) =
        IF \E j \in DOMAIN o : Payload!CamelOf(j) = c THEN o[k] ELSE Payload!Undef
  BY DEF Payload!SnakeToCamelObject, Payload!Get
<1>2. \A j \in DOMAIN o : Payload!Get(o, j) = o[j]
  BY DEF Payload!Get
<1>3. \A j : j \notin DOMAIN o => Payload!Get(o, j) = Payload!Undef
  BY DEF Payload!Get
<1>4. (\E j \in DOMAIN o : Payload!CamelOf(j) = c) <=> a \in DOMAIN o \/ c \in DOMAIN o
  OBVIOUS
<1>5. ASSUME \E j \in DOMAIN o : Payload!CamelOf(j) = c
      PROVE  k \in DOMAIN o /\ k \in {a, c}
  BY <1>5
<1> HIDE DEF k
<1> QED
  BY <1>1, <1>2, <1>3, <1>4, <1>5

\* The two spellings of each nested key.
LEMMA CamelKeys ==
    /\ \A k : Payload!CamelOf(k) = "expiresAt" <=> k \in {"expires_at", "expiresAt"}
    /\ \A k : Payload!CamelOf(k) = "thumbUrl" <=> k \in {"thumb_url", "thumbUrl"}
    /\ \A k : Payload!CamelOf(k) = "songsLimit" <=> k \in {"songs_limit", "songsLimit"}
BY DEF Payload!CamelOf

\* Every key of a raw document has a value.
LEMMA SentGiven ==
    ASSUME Pairs(style), Payload!Undef \notin DOMAIN style, NEW where
    PROVE  \A k \in DOMAIN Payload!PartOf(style, where) :
               Payload!PartOf(style, where)[k] # Payload!Undef
<1> SUFFICES ASSUME NEW k \in DOMAIN Payload!PartOf(style, where)
             PROVE  Payload!PartOf(style, where)[k] # Payload!Undef
  OBVIOUS
<1>1. PICK f \in DOMAIN style :
        Payload!PartOf(style, where)[k] = IF f = "unlimited" THEN Payload!Null ELSE f
  BY PartSent
<1> QED
  BY <1>1 DEF Payload!Undef, Payload!Null

\* A raw post is read as it was sent, however its fields are spelled.
LEMMA PostReadSent ==
    ASSUME PostStyled
    PROVE  PostReads(Payload!Sent(style)) = PostCarries
<1> DEFINE p == Payload!Sent(style)
<1>1. /\ p.top = Payload!PartOf(style, "top") /\ p.user = Payload!PartOf(style, "user")
      /\ p.stats = Payload!PartOf(style, "stats") /\ p.nested = Payload!PartOf(style, "nested")
  BY DEF Payload!Sent
<1>2. \A k : /\ Payload!Get(p.top, k) = InSent("top", k)
             /\ Payload!Get(p.user, k) = InSent("user", k)
             /\ Payload!Get(p.stats, k) = InSent("stats", k)
             /\ Payload!Get(p.nested, k) = InSent("nested", k)
  BY <1>1 DEF InSent
<1> HIDE DEF p
<1>3. TitleIn(p.top) = Carries("title")
  <2> DEFINE a == InSent("top", "title")
             b == InSent("top", "song_title")
             c == InSent("top", "songTitle")
             d == InSent("top", "name")
             t == Carries("title")
  <2>1. Payload!Or(p.top, <<"song_title", "songTitle", "name">>) =
          IF b \notin Payload!Falsy THEN b ELSE IF c \notin Payload!Falsy THEN c ELSE d
    BY <1>2, OrOfThree DEF Truthy
  <2>2. TitleIn(p.top) = Missing(a, IF b \notin Payload!Falsy THEN b
                                    ELSE IF c \notin Payload!Falsy THEN c ELSE d)
    BY <1>2, <2>1 DEF TitleIn
  <2>3. /\ a = Sends("title", "top", "title") /\ b = Sends("title", "top", "song_title")
        /\ c = Sends("title", "top", "songTitle")
        /\ d = IF style["title"] = <<"top", "name">> THEN "title"
               ELSE Sends("name", "top", "name")
    BY PostKeys
  <2>4. /\ style["title"] \in {<<"top", "title">>, <<"top", "song_title">>,
             <<"top", "songTitle">>, <<"top", "name">>, Payload!Absent}
        /\ style["name"] = <<"top", "name">> => style["title"] # Payload!Absent
    BY PostPlaces
  <2>5. /\ {a, b, c} \subseteq {t, Payload!Undef} /\ t \in {"title", Payload!Undef}
        /\ d \in {"title", "name", Payload!Undef} /\ (d = "title" => t = "title")
        /\ d = "name" => t \in {a, b, c}
        /\ t \in {a, b, c, d} /\ (t = Payload!Undef => d = Payload!Undef)
    <3> HIDE DEF a, b, c, d
    <3> QED
      BY <2>3, <2>4 DEF Carries, Sends, Payload!Absent, Payload!Undef
  <2> HIDE DEF a, b, c, d, t
  <2>6. TitleIn(p.top) = t
    <3>1. CASE t = Payload!Undef
      BY <2>2, <2>5, <3>1 DEF Missing, Payload!Falsy, Payload!Undef, Payload!Null
    <3>2. CASE t = "title"
      BY <2>2, <2>5, <3>2 DEF Missing, Payload!Falsy, Payload!Undef, Payload!Null
    <3> QED
      BY <2>5, <3>1, <3>2
  <2> QED BY <2>6 DEF t
<1>4. ArtistIn(p.top) = Carries("artist")
  <2> DEFINE a == InSent("top", "artist")
             b == InSent("top", "artist_name")
             c == InSent("top", "artistName")
             t == Carries("artist")
  <2>1. ArtistIn(p.top) = Filled(a, IF b \notin Payload!Falsy THEN b ELSE c)
    BY <1>2, OrOfTwo DEF Truthy, ArtistIn
  <2>2. /\ a = Sends("artist", "top", "artist") /\ b = Sends("artist", "top", "artist_name")
        /\ c = Sends("artist", "top", "artistName")
    BY PostKeys
  <2>3. style["artist"] \in {<<"top", "artist">>, <<"top", "artist_name">>,
          <<"top", "artistName">>, Payload!Absent}
    BY PostPlaces
  <2>4. /\ {a, b, c} \subseteq {t, Payload!Undef} /\ t \in {"artist", Payload!Undef}
        /\ t \in {a, b, c}
    <3> HIDE DEF a, b, c
    <3> QED
      BY <2>2, <2>3 DEF Carries, Sends, Payload!Absent, Payload!Undef
  <2> HIDE DEF a, b, c, t
  <2>5. ArtistIn(p.top) = t
    <3>1. CASE t = Payload!Undef
      BY <2>1, <2>4, <3>1 DEF Filled, Payload!Falsy, Payload!Undef, Payload!Null
    <3>2. CASE t = "artist"
      BY <2>1, <2>4, <3>2 DEF Filled, Payload!Falsy, Payload!Undef, Payload!Null
    <3> QED
      BY <2>4, <3>1, <3>2
  <2> QED BY <2>5 DEF t
<1>5. OwnerIn(p.top, Payload!PostUser(p)) = Carries("owner")
  <2> DEFINE u == Payload!PostUser(p)
             a == InSent("top", "userId")
             b == InSent("top", "user_ulid")
             c == InSent("top", "userULID")
             d == InSent("user", "ulid")
             e == InSent("user", "userId")
             t == Carries("owner")
  <2>1. Payload!Or(p.top, <<"user_ulid", "userULID">>) = IF b \notin Payload!Falsy THEN b ELSE c
    BY <1>2, OrOfTwo DEF Truthy
  <2>2. Payload!Get(u, "ulid") = d /\ Payload!Get(u, "userId") = e
    BY <1>2, GetUser DEF Payload!RootKeys
  <2>3. Payload!Or(u, <<"ulid", "userId">>) = IF d \notin Payload!Falsy THEN d ELSE e
    <3> HIDE DEF u
    <3> QED BY <2>2, OrOfTwo DEF Truthy
  <2>4. /\ a = Sends("owner", "top", "userId") /\ b = Sends("owner", "top", "user_ulid")
        /\ c = Sends("owner", "top", "userULID") /\ d = Sends("owner", "user", "ulid")
        /\ e = Sends("owner", "user", "userId")
    BY PostKeys
  <2>5. style["owner"] \in {<<"top", "userId">>, <<"top", "user_ulid">>,
          <<"top", "userULID">>, <<"user", "ulid">>, <<"user", "userId">>, Payload!Absent}
    BY PostPlaces
  <2>6. /\ {a, b, c, d, e} \subseteq {t, Payload!Undef} /\ t \in {"owner", Payload!Undef}
        /\ t \in {a, b, c, d, e}
    <3> HIDE DEF a, b, c, d, e
    <3> QED
      BY <2>4, <2>5 DEF Carries, Sends, Payload!Absent, Payload!Undef
  <2>7. Payload!Get(p.top, "userId") = a
    BY <1>2
  <2> HIDE DEF u, a, b, c, d, e, t
  <2>8. OwnerIn(p.top, u) = t
    BY <2>1, <2>3, <2>6, <2>7 DEF OwnerIn, Filled, Payload!Falsy, Payload!Undef, Payload!Null
  <2> QED BY <2>8 DEF u, t
<1>6. NameIn(p) = Carries("name")
  <2> DEFINE a == InSent("user", "name")
             b == InSent("user", "displayName")
             c == InSent("top", "name")
             d == InSent("top", "displayName")
             t == Carries("name")
  <2>1. /\ a = Sends("name", "user", "name") /\ b = Sends("name", "user", "displayName")
        /\ d = Sends("name", "top", "displayName")
        /\ c = IF style["title"] = <<"top", "name">> THEN "title"
               ELSE Sends("name", "top", "name")
    BY PostKeys
  <2>2. /\ style["name"] \in {<<"top", "name">>, <<"top", "displayName">>, <<"user", "name">>,
             <<"user", "displayName">>, Payload!Absent}
        /\ style["title"] = <<"top", "name">> => style["name"] = <<"user", "name">>
    BY PostPlaces
  <2>3. /\ {a, b, d} \subseteq {t, Payload!Undef} /\ t \in {"name", Payload!Undef}
        /\ c \in {t, Payload!Undef} \/ a = "name"
        /\ t \in {a, b, c, d}
    <3> HIDE DEF a, b, c, d
    <3> QED
      BY <2>1, <2>2 DEF Carries, Sends, Payload!Absent, Payload!Undef
  <2>4. /\ PulledIn(p, "name") = IF a \in Payload!Falsy /\ c \notin Payload!Falsy THEN c ELSE a
        /\ PulledIn(p, "displayName") =
             IF b \in Payload!Falsy /\ d \notin Payload!Falsy THEN d ELSE b
    BY <1>2 DEF PulledIn
  <2> HIDE DEF a, b, c, d, t
  <2>5. NameIn(p) = t
    BY <2>3, <2>4 DEF NameIn, Filled, Payload!Falsy, Payload!Undef, Payload!Null
  <2> QED BY <2>5 DEF t
<1>7. AvatarIn(p) = Carries("avatar")
  <2> DEFINE a == InSent("user", "avatar")
             b == InSent("user", "avatarUrl")
             c == InSent("top", "avatar")
             d == InSent("top", "avatarUrl")
             t == Carries("avatar")
  <2>1. /\ a = Sends("avatar", "user", "avatar") /\ b = Sends("avatar", "user", "avatarUrl")
        /\ c = Sends("avatar", "top", "avatar") /\ d = Sends("avatar", "top", "avatarUrl")
    BY PostKeys
  <2>2. style["avatar"] \in {<<"top", "avatar">>, <<"user", "avatarUrl">>, Payload!Absent}
    BY PostPlaces
  <2>3. /\ {a, b, c, d} \subseteq {t, Payload!Undef} /\ t \in {"avatar", Payload!Undef}
        /\ t \in {a, b, c, d}
    <3> HIDE DEF a, b, c, d
    <3> QED
      BY <2>1, <2>2 DEF Carries, Sends, Payload!Absent, Payload!Undef
  <2>4. /\ PulledIn(p, "avatar") = IF a \in Payload!Falsy /\ c \notin Payload!Falsy THEN c ELSE a
        /\ PulledIn(p, "avatarUrl") =
             IF b \in Payload!Falsy /\ d \notin Payload!Falsy THEN d ELSE b
    BY <1>2 DEF PulledIn
  <2> HIDE DEF a, b, c, d, t
  <2>5. AvatarIn(p) = t
    BY <2>3, <2>4 DEF AvatarIn, Filled, Payload!Falsy, Payload!Undef, Payload!Null
  <2> QED BY <2>5 DEF t
<1>8. RatingIn(p.stats) = Carries("rating")
  <2>1. RatingIn(p.stats) =
          IF InSent("stats", "average_rating") \notin {Payload!Undef, Payload!Null}
          THEN InSent("stats", "average_rating") ELSE InSent("stats", "average")
    BY <1>2, CoalesceOfTwo DEF RatingIn, Given
  <2> QED
    BY <2>1, PostKeys, PostPlaces DEF Carries, Sends, Payload!Undef, Payload!Null, Payload!Absent
<1>9. Payload!Get(Payload!SnakeToCamelObject(p.nested), "expiresAt") = Carries("expiry")
  <2>1. \A k \in DOMAIN p.nested : p.nested[k] # Payload!Undef
    BY <1>1, PostPlaces, SentGiven DEF Payload!Undef
  <2>2. \A k \in {"expires_at", "expiresAt"} :
          Payload!Get(p.nested, k) = Sends("expiry", "nested", k)
    BY <1>2, PostKeys
  <2> QED
    BY <2>1, <2>2, CamelKeys, GetSnake, PostPlaces DEF Carries, Sends, Payload!Undef, Payload!Absent
<1>10. Payload!Get(p.top, "userReaction") = Carries("reaction")
  BY <1>2, PostKeys, PostPlaces DEF Carries, Sends, Payload!Absent
<1>11. PostReads(p) = PostCarries
  BY <1>3, <1>4, <1>5, <1>6, <1>7, <1>8, <1>9, <1>10 DEF PostReads, PostCarries
<1> QED
  BY <1>11 DEF p

\* What a page is to read, kind by kind.
LEMMA Carried ==
    ASSUME NEW f
    PROVE  /\ kind = "post" /\ f # "unlimited" => Payload!Carried(f) = Carries(f)
           /\ kind = "user" /\ f # "unlimited" =>
                Payload!Carried(f) = IF f = "followers" /\ style[f] = Payload!Absent THEN "0"
                                     ELSE Carries(f)
           /\ kind = "chat" /\ f # "unlimited" =>
                Payload!Carried(f) =
                  IF f = "group" THEN "group"
                  ELSE IF f = "body" /\ style[f] = Payload!Absent THEN ""
                  ELSE IF f = "name" /\ style["owner"] = Payload!Absent THEN Payload!Undef
                  ELSE Carries(f)
           /\ kind = "tokens" /\ f # "unlimited" =>
                Payload!Carried(f) =
                  IF f = "expiry" /\ style["seconds"] # Payload!Absent THEN "expiry" ELSE Carries(f)
           /\ kind = "current" /\ f # "unlimited" => Payload!Carried(f) = Carries(f)
           /\ kind = "hashtags" /\ f # "unlimited" =>
                Payload!Carried(f) = IF style[f] = Payload!Absent THEN "none" ELSE f
           /\ kind = "unread" /\ f # "unlimited" =>
                Payload!Carried(f) = IF style[f] = Payload!Absent THEN "0" ELSE f
           /\ kind = "entitlements" =>
                Payload!Carried(f) = IF style[f] = Payload!Absent THEN "10"
                                     ELSE IF f = "unlimited" THEN Payload!Null ELSE f
           /\ kind = "location" /\ f # "unlimited" =>
                Payload!Carried(f) = IF \E g \in DOMAIN style : style[g] = Payload!Absent
                                     THEN Payload!Undef ELSE Carries(f)
<1>1. kind = "post" /\ f # "unlimited" => Payload!Carried(f) = Carries(f)
  BY DEF Payload!Carried, Carries, Payload!Small
<1>2. kind = "user" /\ f # "unlimited" =>
        Payload!Carried(f) = IF f = "followers" /\ style[f] = Payload!Absent THEN "0"
                             ELSE Carries(f)
  BY DEF Payload!Carried, Carries, Payload!Small
<1>3. kind = "chat" /\ f # "unlimited" =>
        Payload!Carried(f) =
          IF f = "group" THEN "group"
          ELSE IF f = "body" /\ style[f] = Payload!Absent THEN ""
          ELSE IF f = "name" /\ style["owner"] = Payload!Absent THEN Payload!Undef
          ELSE Carries(f)
  BY DEF Payload!Carried, Carries, Payload!Small
<1>4. kind = "tokens" /\ f # "unlimited" =>
        Payload!Carried(f) =
          IF f = "expiry" /\ style["seconds"] # Payload!Absent THEN "expiry" ELSE Carries(f)
  BY DEF Payload!Carried, Carries, Payload!Small
<1>5. kind = "current" /\ f # "unlimited" => Payload!Carried(f) = Carries(f)
  BY DEF Payload!Carried, Carries, Payload!Small
<1>6. kind = "hashtags" /\ f # "unlimited" =>
        Payload!Carried(f) = IF style[f] = Payload!Absent THEN "none" ELSE f
  BY DEF Payload!Carried, Carries, Payload!Small
<1>7. kind = "unread" /\ f # "unlimited" =>
        Payload!Carried(f) = IF style[f] = Payload!Absent THEN "0" ELSE f
  BY DEF Payload!Carried, Carries, Payload!Small
<1>8. kind = "entitlements" =>
        Payload!Carried(f) = IF style[f] = Payload!Absent THEN "10"
                             ELSE IF f = "unlimited" THEN Payload!Null ELSE f
  BY DEF Payload!Carried, Carries, Payload!Small
<1>9. kind = "location" /\ f # "unlimited" =>
        Payload!Carried(f) = IF \E g \in DOMAIN style : style[g] = Payload!Absent
                             THEN Payload!Undef ELSE Carries(f)
  BY DEF Payload!Carried, Carries, Payload!Small
<1> QED
  BY <1>1, <1>2, <1>3, <1>4, <1>5, <1>6, <1>7, <1>8, <1>9

\* A rating is sent where the post has a rating object.
LEMMA RatingSent ==
    ASSUME PostStyled, Payload!PartOf(style, "stats") # Payload!Empty
    PROVE  Carries("rating") = "rating"
<1>1. PICK k \in DOMAIN Payload!PartOf(style, "stats") : TRUE
  BY DEF Payload!PartOf, Payload!Empty
<1>2. PICK f \in DOMAIN style : style[f] = <<"stats", k>> /\ style[f] # Payload!Absent
  BY PartSent, PostPlaces
<1>3. f = "rating"
  BY <1>2, PostPlaces DEF Payload!Absent
<1> QED
  BY <1>2, <1>3 DEF Carries

\* An engagement answer about a rated post brings the rating, in either spelling.
LEMMA AnswerRates ==
    ASSUME NEW ans \in Payload!Answers, ans.stats # Payload!Empty
    PROVE  /\ doc.stats # Payload!Empty
           /\ Payload!Get(Payload!RatingStats(ans.stats), "average") = "rating"
<1>1. doc.stats # Payload!Empty
      /\ ans.stats \in {[average |-> "rating"], [average_rating |-> "rating"]}
  BY DEF Payload!Answers
<1>2. RatingIn([average |-> "rating"]) = "rating"
  BY GetOnly, CoalesceOfTwo DEF RatingIn, Given, Payload!Undef, Payload!Null
<1>3. RatingIn([average_rating |-> "rating"]) = "rating"
  <2>1. Payload!Get([average_rating |-> "rating"], "average_rating") = "rating"
    BY DEF Payload!Get
  <2> QED
    BY <2>1, CoalesceOfTwo DEF RatingIn, Given, Payload!Undef, Payload!Null
<1> QED
  BY <1>1, <1>2, <1>3, GetStats

\* The merge changes the reaction, and the rating for the one that was sent.
LEMMA PostMerged ==
    ASSUME DOMAIN doc = Fields, PostShows(doc) = PostCarries,
           doc.stats # Payload!Empty => Carries("rating") = "rating",
           NEW ans \in Payload!Answers
    PROVE  \A f \in DOMAIN PostCarries \ {"reaction"} :
               PostShows(Payload!Polled(doc, ans))[f] = Carries(f)
<1> DEFINE stats == IF ans.stats = Payload!Empty THEN doc.stats ELSE Payload!RatingStats(ans.stats)
           top == Payload!Put(doc.top, "userReaction", Payload!Get(ans.top, "userReaction"))
           rated == Payload!Put(top, "averageRating", Payload!Get(stats, "average"))
           m == Payload!MergeEngagement(doc, ans)
<1>1. /\ m.user = doc.user /\ m.nested = doc.nested /\ m.stats = stats
      /\ m.top = IF ans.stats = Payload!Empty THEN top ELSE rated
  BY DEF Payload!MergeEngagement, Fields
<1>2. Payload!Get(stats, "average") = Payload!Get(doc.stats, "average")
  <2>1. CASE ans.stats = Payload!Empty
    BY <2>1
  <2>2. CASE ans.stats # Payload!Empty
    <3>1. Payload!Get(stats, "average") = "rating" /\ Carries("rating") = "rating"
      BY <2>2, AnswerRates
    <3>2. Payload!Get(doc.stats, "average") = Carries("rating")
      BY DEF PostShows, PostCarries
    <3> QED BY <3>1, <3>2
  <2> QED BY <2>1, <2>2
<1> HIDE DEF stats
<1>3. \A k : k \notin {"userReaction", "averageRating"}
             => Payload!Get(top, k) = Payload!Get(doc.top, k)
               /\ Payload!Get(rated, k) = Payload!Get(top, k)
  BY GetPut
<1> HIDE DEF top, rated, m
<1>4. \A k \in {"title", "artist", "userId"} : Payload!Get(m.top, k) = Payload!Get(doc.top, k)
  BY <1>1, <1>3
<1>5. DOMAIN PostCarries = {"title", "artist", "owner", "name", "avatar", "rating", "expiry",
                            "reaction"}
      /\ \A f \in DOMAIN PostCarries : PostCarries[f] = Carries(f)
  BY DEF PostCarries
<1>6. \A f \in DOMAIN PostCarries \ {"reaction"} : PostShows(m)[f] = PostShows(doc)[f]
  BY <1>1, <1>2, <1>4, <1>5 DEF PostShows
<1>7. Payload!Polled(doc, ans) \in {doc, m}
  BY DEF Payload!Polled, m
<1> QED
  BY <1>5, <1>6, <1>7

\* A post reads the same when it is received, when it comes back from the
\* cache, and but for its reaction when an answer was merged in.
LEMMA PostDecoded ==
    ASSUME PostStyled, NEW q, q = Payload!NormalizePost(Payload!Sent(style))
    PROVE  /\ DOMAIN q = Fields /\ PostShows(q) = PostCarries
           /\ NoFn(q.top) => PostShows(Payload!NormalizePost(
                                [q EXCEPT !.top = Payload!Sanitized(q.top)])) = PostCarries
           /\ q.stats # Payload!Empty => Carries("rating") = "rating"
<1> DEFINE p == Payload!Sent(style)
           r == [q EXCEPT !.top = Payload!Sanitized(q.top)]
<1>1. DOMAIN p = Fields /\ p.stats = Payload!PartOf(style, "stats") /\ PostReads(p) = PostCarries
  BY PostReadSent DEF Payload!Sent, Fields
<1> HIDE DEF p
<1>2. /\ DOMAIN q = Fields /\ q.stats = Payload!RatingStats(p.stats)
      /\ PostShows(q) = PostCarries
  BY <1>1, PostOnce, PostShown DEF p
<1>3. ASSUME NoFn(q.top) PROVE PostShows(Payload!NormalizePost(r)) = PostCarries
  <2>1. /\ DOMAIN r = Fields /\ r.user = q.user /\ r.stats = q.stats /\ r.nested = q.nested
        /\ r.top = Payload!Sanitized(q.top)
    BY <1>2 DEF Fields
  <2> HIDE DEF r
  <2>2. \A k : Payload!Get(r.top, k) = Payload!Get(q.top, k)
    BY <1>3, <2>1, GetSanitized
  <2>3. q = Payload!NormalizePost(p)
    BY DEF p
  <2>4. PostReads(r) = PostReads(p)
    BY <1>1, <2>1, <2>2, <2>3, PostReadTwice
  <2> QED
    BY <1>1, <2>1, <2>4, PostShown
<1>4. q.stats # Payload!Empty => Carries("rating") = "rating"
  BY <1>1, <1>2, GetStats, RatingSent
<1> QED
  BY <1>2, <1>3, <1>4

\* What the normaliser reads of a profile.
LEMMA GetPlain ==
    ASSUME NEW o, NEW k, k \notin {"isAdmin", "hasBadge"}, Payload!Get(o, k) # Payload!Fn
    PROVE  Payload!Get(Payload!Plain(o), k) = Payload!Get(o, k)
BY DEF Payload!Get, Payload!Plain, Payload!Undef, Payload!Fn

\* The name and the followers, whichever key has them.
ShownIn(top) ==
    LET v == Payload!Or(top, <<"displayName", "name">>)
    IN  IF v # Payload!Undef THEN v ELSE Payload!Get(top, "displayName")
FollowersIn(top) == Payload!Count(top, <<"followersCount", "followers">>)

\* What is read of a profile, field by field.
UserReads(p) == [
    name |-> ShownIn(p.top), followers |-> FollowersIn(p.top),
    thumb |-> Payload!Get(Payload!SnakeToCamelObject(p.nested), "thumbUrl")]

\* The fields of a profile as a page reads them.
UserShows(q) == [
    name |-> Payload!Get(q.top, "displayName"), followers |-> Payload!Get(q.top, "followersCount"),
    thumb |-> Payload!Get(q.nested, "thumbUrl")]

\* None of the fields is a helper method.
NoMethod(top) ==
    \A k \in {"displayName", "name", "followersCount", "followers", "badges"} :
        Payload!Get(top, k) # Payload!Fn

\* A normalised profile shows what the normaliser read.
LEMMA GetProfile ==
    ASSUME NEW p, DOMAIN p = Fields, NoMethod(p.top)
    PROVE  LET q == Payload!NormalizeUserProfile(p) IN
           /\ DOMAIN q = Fields /\ UserShows(q) = UserReads(p) /\ q.data = p.data
           /\ q.nested = Payload!SnakeToCamelObject(p.nested)
           /\ \A k \in {"name", "followers", "badges"} :
                Payload!Get(q.top, k) = Payload!Get(p.top, k)
<1> DEFINE plain == Payload!Plain(p.top)
           v == Payload!Or(p.top, <<"displayName", "name">>)
           named == Payload!Put(plain, "displayName", v)
           count == FollowersIn(p.top)
           q == Payload!NormalizeUserProfile(p)
<1>1. /\ DOMAIN q = Fields /\ q.data = p.data
      /\ q.nested = Payload!SnakeToCamelObject(p.nested)
      /\ q.top = Payload!Assign(named, "followersCount", count)
  BY DEF Payload!NormalizeUserProfile, Fields, FollowersIn
<1> HIDE DEF q, count
<1>2. \A k \in {"displayName", "name", "followers", "badges"} :
         Payload!Get(plain, k) = Payload!Get(p.top, k)
  BY GetPlain DEF NoMethod
<1> HIDE DEF plain, v
<1>3. /\ \A k : k # "displayName" => Payload!Get(named, k) = Payload!Get(plain, k)
      /\ Payload!Get(named, "displayName") =
           IF v # Payload!Undef THEN v ELSE Payload!Get(plain, "displayName")
  BY GetPut
<1> HIDE DEF named
<1>4. /\ \A k : k # "followersCount" => Payload!Get(q.top, k) = Payload!Get(named, k)
      /\ Payload!Get(q.top, "followersCount") = count
  BY <1>1, GetAssign
<1>5. Payload!Get(q.top, "displayName") = ShownIn(p.top)
  BY <1>2, <1>3, <1>4 DEF ShownIn, v
<1>6. UserShows(q) = UserReads(p)
  BY <1>1, <1>4, <1>5 DEF UserShows, UserReads, count
<1>7. \A k \in {"name", "followers", "badges"} : Payload!Get(q.top, k) = Payload!Get(p.top, k)
  BY <1>2, <1>3, <1>4
<1> QED
  BY <1>1, <1>6, <1>7 DEF q

\* The first of two values, and a count; choosing again chooses the same.
Chosen(a, b) == LET v == IF a \notin Payload!Falsy THEN a ELSE b
                IN  IF v # Payload!Undef THEN v ELSE a
Counted(a, b) == LET v == IF a \notin Payload!Falsy THEN a ELSE b
                 IN  IF v \in Payload!Falsy THEN "0" ELSE v

\* A choice between two keys, repeated on its own result.
LEMMA ChosenTwice ==
    ASSUME NEW a, NEW b
    PROVE  /\ Chosen(Chosen(a, b), b) = Chosen(a, b)
           /\ Counted(Counted(a, b), b) = Counted(a, b)
BY DEF Chosen, Counted, Payload!Falsy, Payload!Undef, Payload!Null

\* Reading a profile again finds what the first reading put.
LEMMA UserReadTwice ==
    ASSUME NEW p, DOMAIN p = Fields, NoMethod(p.top), NEW r,
           LET q == Payload!NormalizeUserProfile(p) IN
           r.nested = q.nested /\ \A k : Payload!Get(r.top, k) = Payload!Get(q.top, k)
    PROVE  UserReads(r) = UserReads(p)
<1> DEFINE q == Payload!NormalizeUserProfile(p)
<1>1. /\ UserShows(q) = UserReads(p) /\ q.nested = Payload!SnakeToCamelObject(p.nested)
      /\ \A k \in {"name", "followers", "badges"} : Payload!Get(q.top, k) = Payload!Get(p.top, k)
  BY GetProfile
<1>2. r.nested = q.nested /\ \A k : Payload!Get(r.top, k) = Payload!Get(q.top, k)
  OBVIOUS
<1> HIDE DEF q
<1>3. /\ Payload!Get(q.top, "displayName") = ShownIn(p.top)
      /\ Payload!Get(q.top, "followersCount") = FollowersIn(p.top)
  BY <1>1 DEF UserShows, UserReads
<1>4. ShownIn(r.top) = ShownIn(p.top)
  <2> DEFINE a == Payload!Get(p.top, "displayName")
             b == Payload!Get(p.top, "name")
             s == ShownIn(p.top)
  <2>1. s = Chosen(a, b)
    BY OrOfTwo DEF ShownIn, Truthy, Chosen
  <2>2. Payload!Get(r.top, "displayName") = s /\ Payload!Get(r.top, "name") = b
    BY <1>1, <1>2, <1>3
  <2> HIDE DEF a, b, s
  <2>3. ShownIn(r.top) = Chosen(s, b)
    BY <2>2, OrOfTwo DEF ShownIn, Truthy, Chosen
  <2>4. ShownIn(r.top) = s
    BY <2>1, <2>3, ChosenTwice
  <2> QED BY <2>4 DEF s
<1>5. FollowersIn(r.top) = FollowersIn(p.top)
  <2> DEFINE a == Payload!Get(p.top, "followersCount")
             b == Payload!Get(p.top, "followers")
             s == FollowersIn(p.top)
  <2>1. s = Counted(a, b)
    BY OrOfTwo DEF FollowersIn, Truthy, Counted, Payload!Count
  <2>2. Payload!Get(r.top, "followersCount") = s /\ Payload!Get(r.top, "followers") = b
    BY <1>1, <1>2, <1>3
  <2> HIDE DEF a, b, s
  <2>3. FollowersIn(r.top) = Counted(s, b)
    BY <2>2, OrOfTwo DEF FollowersIn, Truthy, Counted, Payload!Count
  <2>4. FollowersIn(r.top) = s
    BY <2>1, <2>3, ChosenTwice
  <2> QED BY <2>4 DEF s
<1>6. Payload!SnakeToCamelObject(r.nested) = Payload!SnakeToCamelObject(p.nested)
  BY <1>1, <1>2, SnakeTwice
<1> QED
  BY <1>4, <1>5, <1>6 DEF UserReads

\* A profile in a style the API sends.
UserStyled ==
    style \in Payload!UserStyles /\ Payload!Sendable("user", style)

\* The keys of a profile.
LEMMA UserPlaces ==
    ASSUME UserStyled
    PROVE  /\ DOMAIN style = {"name", "followers", "thumb", "function"}
           /\ Pairs(style) /\ Apart(style)
           /\ style["name"] \in {<<"top", "displayName">>, <<"top", "name">>, Payload!Absent}
           /\ style["followers"] \in {<<"top", "followersCount">>, <<"top", "followers">>,
                Payload!Absent}
           /\ style["thumb"] \in {<<"nested", "thumb_url">>, <<"nested", "thumbUrl">>,
                Payload!Absent}
           /\ style["function"] \in {<<"top", "isAdmin">>, <<"top", "onClick">>, Payload!Absent}
<1>1. DOMAIN style = {"name", "followers", "thumb", "function"}
  BY DEF UserStyled, Payload!UserStyles
<1>2. /\ style["name"] \in Payload!At("top", {"displayName", "name"})
      /\ style["followers"] \in Payload!At("top", {"followersCount", "followers"})
      /\ style["thumb"] \in Payload!At("nested", {"thumb_url", "thumbUrl"})
      /\ style["function"] \in Payload!At("top", {"isAdmin", "onClick"})
  BY DEF UserStyled, Payload!UserStyles
<1>3. Pairs(style)
  BY <1>1, <1>2, AtPairs DEF Pairs
<1>4. Apart(style)
  BY DEF UserStyled, Payload!Sendable, Apart
<1>5. \A where, keys, x : x \in Payload!At(where, keys) =>
         x = Payload!Absent \/ \E k \in keys : x = <<where, k>>
  BY DEF Payload!At
<1> QED
  BY <1>1, <1>2, <1>3, <1>4, <1>5

\* A key that one field may be sent under, and no other.
LEMMA OneSender ==
    ASSUME Pairs(style), Apart(style), NEW where, NEW k, k # "absent",
           NEW f \in DOMAIN style, f # "unlimited",
           \A g \in DOMAIN style : g # f => style[g] # <<where, k>>
    PROVE  InSent(where, k) = Sends(f, where, k)
<1>1. <<where, k>> # Payload!Absent
  BY DEF Payload!Absent
<1>2. /\ \A g \in DOMAIN style : style[g] = <<where, k>> =>
            InSent(where, k) = IF g = "unlimited" THEN Payload!Null ELSE g
      /\ (\A g \in DOMAIN style : style[g] # <<where, k>>) => InSent(where, k) = Payload!Undef
  BY <1>1, GetSent DEF InSent
<1> QED
  BY <1>2 DEF Sends

\* What each of them carries,
LEMMA UserKeys ==
    ASSUME UserStyled
    PROVE  /\ \A k \in {"displayName", "name"} : InSent("top", k) = Sends("name", "top", k)
           /\ \A k \in {"followersCount", "followers"} :
                InSent("top", k) = Sends("followers", "top", k)
           /\ \A k \in {"thumb_url", "thumbUrl"} : InSent("nested", k) = Sends("thumb", "nested", k)
           /\ InSent("top", "badges") = Payload!Undef
<1>1. \A k \in {"displayName", "name"} : InSent("top", k) = Sends("name", "top", k)
  BY UserPlaces, OneSender DEF Payload!Absent
<1>2. \A k \in {"followersCount", "followers"} : InSent("top", k) = Sends("followers", "top", k)
  BY UserPlaces, OneSender DEF Payload!Absent
<1>3. \A k \in {"thumb_url", "thumbUrl"} : InSent("nested", k) = Sends("thumb", "nested", k)
  BY UserPlaces, OneSender DEF Payload!Absent
<1>4. InSent("top", "badges") = Payload!Undef
  <2>1. InSent("top", "badges") = Sends("name", "top", "badges")
    BY UserPlaces, OneSender DEF Payload!Absent
  <2>2. style["name"] # <<"top", "badges">>
    BY UserPlaces DEF Payload!Absent
  <2> QED BY <2>1, <2>2 DEF Sends
<1> QED
  BY <1>1, <1>2, <1>3, <1>4

\* What a page is to read of a profile.
UserCarries == [
    name |-> Carries("name"), thumb |-> Carries("thumb"),
    followers |-> IF style["followers"] = Payload!Absent THEN "0" ELSE "followers"]

\* and so what the normaliser reads of a raw profile.
LEMMA UserReadSent ==
    ASSUME UserStyled
    PROVE  /\ NoMethod(Payload!Sent(style).top)
           /\ UserReads(Payload!Sent(style)) = UserCarries
<1> DEFINE p == Payload!Sent(style)
<1>1. /\ p.top = Payload!PartOf(style, "top") /\ p.nested = Payload!PartOf(style, "nested")
  BY DEF Payload!Sent
<1>2. \A k : /\ Payload!Get(p.top, k) = InSent("top", k)
             /\ Payload!Get(p.nested, k) = InSent("nested", k)
  BY <1>1 DEF InSent
<1> HIDE DEF p
<1>3. NoMethod(p.top)
  BY <1>2, UserKeys DEF NoMethod, Sends, Payload!Undef, Payload!Fn
<1>4. ShownIn(p.top) = Carries("name")
  <2>1. ShownIn(p.top) = Chosen(Sends("name", "top", "displayName"), Sends("name", "top", "name"))
    BY <1>2, UserKeys, OrOfTwo DEF ShownIn, Truthy, Chosen
  <2>2. style["name"] \in {<<"top", "displayName">>, <<"top", "name">>, Payload!Absent}
    BY UserPlaces
  <2> QED
    BY <2>1, <2>2 DEF Chosen, Sends, Carries, Payload!Absent, Payload!Falsy, Payload!Undef,
       Payload!Null
<1>5. FollowersIn(p.top) = IF style["followers"] = Payload!Absent THEN "0" ELSE "followers"
  <2>1. FollowersIn(p.top) = Counted(Sends("followers", "top", "followersCount"),
                                     Sends("followers", "top", "followers"))
    BY <1>2, UserKeys, OrOfTwo DEF FollowersIn, Payload!Count, Truthy, Counted
  <2>2. style["followers"] \in {<<"top", "followersCount">>, <<"top", "followers">>, Payload!Absent}
    BY UserPlaces
  <2> QED
    BY <2>1, <2>2 DEF Counted, Sends, Payload!Absent, Payload!Falsy, Payload!Undef, Payload!Null
<1>6. Payload!Get(Payload!SnakeToCamelObject(p.nested), "thumbUrl") = Carries("thumb")
  <2>1. \A k \in DOMAIN p.nested : p.nested[k] # Payload!Undef
    BY <1>1, UserPlaces, SentGiven DEF Payload!Undef
  <2>2. \A k \in {"thumb_url", "thumbUrl"} : Payload!Get(p.nested, k) = Sends("thumb", "nested", k)
    BY <1>2, UserKeys
  <2> QED
    BY <2>1, <2>2, CamelKeys, GetSnake, UserPlaces DEF Carries, Sends, Payload!Undef, Payload!Absent
<1>7. UserReads(p) = UserCarries
  BY <1>4, <1>5, <1>6 DEF UserReads, UserCarries
<1> QED
  BY <1>3, <1>7 DEF p

\* A profile reads the same when it is received and when it comes back from the cache.
LEMMA UserDecoded ==
    ASSUME UserStyled, NEW q, q = Payload!NormalizeUserProfile(Payload!Sent(style))
    PROVE  /\ DOMAIN q = Fields /\ UserShows(q) = UserCarries
           /\ NoFn(q.top) => UserShows(Payload!NormalizeUserProfile(
                                [q EXCEPT !.top = Payload!Sanitized(q.top)])) = UserCarries
<1> DEFINE p == Payload!Sent(style)
           r == [q EXCEPT !.top = Payload!Sanitized(q.top)]
<1>1. DOMAIN p = Fields /\ NoMethod(p.top) /\ UserReads(p) = UserCarries
  BY UserReadSent DEF Payload!Sent, Fields
<1> HIDE DEF p
<1>2. q = Payload!NormalizeUserProfile(p)
  BY DEF p
<1>3. DOMAIN q = Fields /\ UserShows(q) = UserCarries
  BY <1>1, <1>2, GetProfile
<1>4. ASSUME NoFn(q.top) PROVE UserShows(Payload!NormalizeUserProfile(r)) = UserCarries
  <2>1. DOMAIN r = Fields /\ r.nested = q.nested /\ r.top = Payload!Sanitized(q.top)
    BY <1>3 DEF Fields
  <2> HIDE DEF r
  <2>2. \A k : Payload!Get(r.top, k) = Payload!Get(q.top, k)
    BY <1>4, <2>1, GetSanitized
  <2>3. NoMethod(r.top)
    BY <1>4, <2>2, Lookup DEF NoMethod
  <2>4. UserReads(r) = UserReads(p)
    BY <1>1, <1>2, <2>1, <2>2, UserReadTwice
  <2> QED
    BY <1>1, <2>1, <2>3, <2>4, GetProfile
<1> QED
  BY <1>3, <1>4

\* The current user: a profile with a badge, which is a string or has a name.
CurrentStyled ==
    style \in Payload!CurrentStyles /\ Payload!Sendable("current", style)

\* The keys of the current user.
LEMMA CurrentPlaces ==
    ASSUME CurrentStyled
    PROVE  /\ DOMAIN style = {"name", "badge"} /\ Pairs(style) /\ Apart(style)
           /\ style["name"] \in {<<"top", "displayName">>, <<"top", "name">>, Payload!Absent}
           /\ style["badge"] \in {<<"top", "badges">>, <<"data", "name">>, Payload!Absent}
<1>1. DOMAIN style = {"name", "badge"}
  BY DEF CurrentStyled, Payload!CurrentStyles
<1>2. /\ style["name"] \in Payload!At("top", {"displayName", "name"})
      /\ style["badge"] \in Payload!At("top", {"badges"}) \cup Payload!At("data", {"name"})
  BY DEF CurrentStyled, Payload!CurrentStyles
<1>3. Pairs(style)
  BY <1>1, <1>2, AtPairs DEF Pairs
<1>4. Apart(style)
  BY DEF CurrentStyled, Payload!Sendable, Apart
<1> QED
  BY <1>1, <1>2, <1>3, <1>4 DEF Payload!At

\* It reads as it was sent, its badge by name when the badge is an object.
LEMMA CurrentDecoded ==
    ASSUME CurrentStyled
    PROVE  LET q == Payload!CurrentUser(Payload!Sent(style)) IN
           /\ Payload!Get(q.top, "displayName") = Carries("name")
           /\ Payload!Get(q.top, "badges") = Carries("badge")
<1> DEFINE p == Payload!Sent(style)
           n == Payload!NormalizeUserProfile(p)
           badges == IF Payload!Has(n.top, "badges") THEN n.top["badges"]
                     ELSE Payload!Get(p.data, "name")
           q == Payload!CurrentUser(p)
<1>1. DOMAIN p = Fields
  BY DEF Payload!Sent, Fields
<1>2. \A k : /\ Payload!Get(p.top, k) = InSent("top", k)
             /\ Payload!Get(p.data, k) = InSent("data", k)
  BY DEF InSent, Payload!Sent
<1> HIDE DEF p
<1>3. /\ \A k \in {"displayName", "name"} : InSent("top", k) = Sends("name", "top", k)
      /\ InSent("top", "badges") = Sends("badge", "top", "badges")
      /\ InSent("data", "name") = Sends("badge", "data", "name")
      /\ \A k \in {"followersCount", "followers"} : InSent("top", k) = Sends("name", "top", k)
  BY CurrentPlaces, OneSender DEF Payload!Absent
<1>4. NoMethod(p.top)
  BY <1>2, <1>3 DEF NoMethod, Sends, Payload!Undef, Payload!Fn
<1>5. /\ DOMAIN n = Fields /\ UserShows(n) = UserReads(p)
      /\ Payload!Get(n.top, "badges") = Payload!Get(p.top, "badges")
  BY <1>1, <1>4, GetProfile
<1>6. q.top = Payload!Put(n.top, "badges", badges)
  BY <1>5 DEF Payload!CurrentUser, Fields
<1> HIDE DEF n, q
<1>7. Payload!Get(q.top, "displayName") = ShownIn(p.top)
  BY <1>5, <1>6, GetPut DEF UserShows, UserReads
<1>8. ShownIn(p.top) = Carries("name")
  <2>1. ShownIn(p.top) = Chosen(Sends("name", "top", "displayName"), Sends("name", "top", "name"))
    BY <1>2, <1>3, OrOfTwo DEF ShownIn, Truthy, Chosen
  <2>2. style["name"] \in {<<"top", "displayName">>, <<"top", "name">>, Payload!Absent}
    BY CurrentPlaces
  <2> QED
    BY <2>1, <2>2 DEF Chosen, Sends, Carries, Payload!Absent, Payload!Falsy, Payload!Undef,
       Payload!Null
<1>9. badges = Carries("badge")
  <2>1. badges = IF Sends("badge", "top", "badges") \notin Payload!Falsy
                 THEN Sends("badge", "top", "badges") ELSE Sends("badge", "data", "name")
    BY <1>2, <1>3, <1>5 DEF Payload!Has, Payload!Get, Payload!Falsy
  <2>2. style["badge"] \in {<<"top", "badges">>, <<"data", "name">>, Payload!Absent}
    BY CurrentPlaces
  <2> HIDE DEF badges
  <2> QED
    BY <2>1, <2>2 DEF Sends, Carries, Payload!Absent, Payload!Falsy, Payload!Undef, Payload!Null
<1>10. Payload!Get(q.top, "badges") = Carries("badge")
  <2>1. Carries("badge") = Payload!Undef => Payload!Get(n.top, "badges") = Payload!Undef
    BY <1>2, <1>3, <1>5 DEF Carries, Sends, Payload!Absent, Payload!Undef
  <2> HIDE DEF badges
  <2> QED BY <1>6, <1>9, <2>1, GetPut
<1> QED
  BY <1>7, <1>8, <1>10 DEF q, p

\* Chat messages.
ChatStyled ==
    style \in Payload!ChatStyles /\ Payload!Sendable("chat", style)

\* The keys of a chat message.
LEMMA ChatPlaces ==
    ASSUME ChatStyled
    PROVE  /\ DOMAIN style = {"id", "owner", "name", "group", "body"}
           /\ Pairs(style) /\ Apart(style)
           /\ style["id"] \in {<<"top", "id">>, <<"top", "ulid">>, Payload!Absent}
           /\ style["owner"] \in {<<"top", "userId">>, <<"user", "userId">>, Payload!Absent}
           /\ style["name"] \in {<<"top", "username">>, <<"user", "name">>, Payload!Absent}
           /\ style["group"] \in {<<"top", "groupUlid">>, <<"top", "groupId">>, Payload!Absent}
           /\ style["body"] \in {<<"top", "body">>, Payload!Absent}
<1>1. DOMAIN style = {"id", "owner", "name", "group", "body"}
  BY DEF ChatStyled, Payload!ChatStyles
<1>2. /\ style["id"] \in Payload!At("top", {"id", "ulid"})
      /\ style["owner"] \in Payload!At("top", {"userId"}) \cup Payload!At("user", {"userId"})
      /\ style["name"] \in Payload!At("top", {"username"}) \cup Payload!At("user", {"name"})
      /\ style["group"] \in Payload!At("top", {"groupUlid", "groupId"})
      /\ style["body"] \in Payload!At("top", {"body"})
  BY DEF ChatStyled, Payload!ChatStyles
<1>3. Pairs(style)
  BY <1>1, <1>2, AtPairs DEF Pairs
<1>4. Apart(style)
  BY DEF ChatStyled, Payload!Sendable, Apart
<1> QED
  BY <1>1, <1>2, <1>3, <1>4 DEF Payload!At

\* What each of them carries.
LEMMA ChatKeys ==
    ASSUME ChatStyled
    PROVE  /\ \A k \in {"id", "ulid"} : InSent("top", k) = Sends("id", "top", k)
           /\ \A where \in {"top", "user"} :
                InSent(where, "userId") = Sends("owner", where, "userId")
           /\ InSent("top", "username") = Sends("name", "top", "username")
           /\ InSent("user", "name") = Sends("name", "user", "name")
           /\ \A k \in {"groupUlid", "groupId"} : InSent("top", k) = Sends("group", "top", k)
           /\ InSent("top", "body") = Sends("body", "top", "body")
           /\ InSent("top", "senderName") = Payload!Undef
<1>1. \A k \in {"id", "ulid"} : InSent("top", k) = Sends("id", "top", k)
  BY ChatPlaces, OneSender DEF Payload!Absent
<1>2. \A where \in {"top", "user"} : InSent(where, "userId") = Sends("owner", where, "userId")
  BY ChatPlaces, OneSender DEF Payload!Absent
<1>3. InSent("top", "username") = Sends("name", "top", "username")
  BY ChatPlaces, OneSender DEF Payload!Absent
<1>4. InSent("user", "name") = Sends("name", "user", "name")
  BY ChatPlaces, OneSender DEF Payload!Absent
<1>5. \A k \in {"groupUlid", "groupId"} : InSent("top", k) = Sends("group", "top", k)
  BY ChatPlaces, OneSender DEF Payload!Absent
<1>6. InSent("top", "body") = Sends("body", "top", "body")
  BY ChatPlaces, OneSender DEF Payload!Absent
<1>7. InSent("top", "senderName") = Payload!Undef
  <2>1. InSent("top", "senderName") = Sends("name", "top", "senderName")
    BY ChatPlaces, OneSender DEF Payload!Absent
  <2>2. style["name"] # <<"top", "senderName">>
    BY ChatPlaces DEF Payload!Absent
  <2> QED BY <2>1, <2>2 DEF Sends
<1> QED
  BY <1>1, <1>2, <1>3, <1>4, <1>5, <1>6, <1>7

\* What the normaliser reads of a chat message.
LEMMA GetMessage ==
    ASSUME NEW p, DOMAIN p = Fields
    PROVE  LET q == Payload!NormalizeChatMessage(p, "group")
               sender == IF Given(p.user, "userId") THEN Payload!Get(p.user, "userId")
                         ELSE Payload!Get(p.top, "userId")
               name == IF Given(p.user, "name") THEN Payload!Get(p.user, "name")
                       ELSE Payload!Get(p.top, "username")
           IN
           /\ Payload!Get(q.top, "body") = Payload!Default(Payload!Get(p.top, "body"), "")
           /\ Payload!Get(q.top, "groupUlid") =
                Payload!Default(Payload!Coalesce(p.top, <<"groupUlid", "groupId">>), "group")
           /\ Payload!Get(q.top, "id") =
                Payload!Default(Payload!Coalesce(p.top, <<"id", "ulid">>), "")
           /\ Payload!Get(q.top, "userId") =
                IF sender = Payload!Undef THEN Payload!Get(p.top, "userId") ELSE sender
           /\ Payload!Get(q.top, "senderName") =
                IF sender = Payload!Undef \/ name = Payload!Undef
                THEN Payload!Get(p.top, "senderName") ELSE name
<1> DEFINE sender == IF Payload!Get(p.user, "userId") \notin {Payload!Undef, Payload!Null}
                     THEN p.user["userId"] ELSE Payload!Get(p.top, "userId")
           name == IF Payload!Get(p.user, "name") \notin {Payload!Undef, Payload!Null}
                   THEN p.user["name"] ELSE Payload!Get(p.top, "username")
           body == Payload!Default(Payload!Get(p.top, "body"), "")
           group == Payload!Default(Payload!Coalesce(p.top, <<"groupUlid", "groupId">>), "group")
           id == Payload!Default(Payload!Coalesce(p.top, <<"id", "ulid">>), "")
           bodied == Payload!Assign(p.top, "body", body)
           grouped == Payload!Assign(bodied, "groupUlid", group)
           known == Payload!Assign(grouped, "id", id)
           sent == Payload!Put(known, "userId", sender)
           shown == IF sender = Payload!Undef THEN Payload!Undef ELSE name
           named == Payload!Put(sent, "senderName", shown)
           q == Payload!NormalizeChatMessage(p, "group")
<1>1. q.top = named
  BY DEF Payload!NormalizeChatMessage, Fields
<1>2. /\ sender = IF Given(p.user, "userId") THEN Payload!Get(p.user, "userId")
                  ELSE Payload!Get(p.top, "userId")
      /\ name = IF Given(p.user, "name") THEN Payload!Get(p.user, "name")
                ELSE Payload!Get(p.top, "username")
  BY DEF Given, Payload!Get
<1>3. shown = IF sender = Payload!Undef THEN Payload!Undef ELSE name
  OBVIOUS
<1> HIDE DEF q, sender, name, body, group, id, shown
<1>4. \A k : Payload!Get(bodied, k) = IF k = "body" THEN body ELSE Payload!Get(p.top, k)
  BY GetAssign
<1> HIDE DEF bodied
<1>5. \A k : Payload!Get(grouped, k) = IF k = "groupUlid" THEN group ELSE Payload!Get(bodied, k)
  BY GetAssign
<1> HIDE DEF grouped
<1>6. \A k : Payload!Get(known, k) = IF k = "id" THEN id ELSE Payload!Get(grouped, k)
  BY GetAssign
<1> HIDE DEF known
<1>7. \A k : Payload!Get(sent, k) = IF k = "userId" /\ sender # Payload!Undef THEN sender
                                    ELSE Payload!Get(known, k)
  BY GetPut
<1> HIDE DEF sent
<1>8. \A k : Payload!Get(named, k) = IF k = "senderName" /\ shown # Payload!Undef THEN shown
                                     ELSE Payload!Get(sent, k)
  BY GetPut
<1> HIDE DEF named
<1>9. /\ Payload!Get(q.top, "body") = body /\ Payload!Get(q.top, "groupUlid") = group
      /\ Payload!Get(q.top, "id") = id
      /\ Payload!Get(q.top, "userId") =
           IF sender = Payload!Undef THEN Payload!Get(p.top, "userId") ELSE sender
      /\ Payload!Get(q.top, "senderName") =
           IF sender = Payload!Undef \/ name = Payload!Undef
           THEN Payload!Get(p.top, "senderName") ELSE name
  BY <1>1, <1>3, <1>4, <1>5, <1>6, <1>7, <1>8
<1> QED
  BY <1>2, <1>9 DEF q, body, group, id

\* A readable message reads as it was sent.
LEMMA ChatDecoded ==
    ASSUME ChatStyled, Payload!Readable(Payload!Sent(style))
    PROVE  LET q == Payload!NormalizeChatMessage(Payload!Sent(style), "group") IN
           /\ Payload!Get(q.top, "id") = Carries("id")
           /\ Payload!Get(q.top, "userId") = Carries("owner")
           /\ Payload!Get(q.top, "senderName") =
                IF style["owner"] = Payload!Absent THEN Payload!Undef ELSE Carries("name")
           /\ Payload!Get(q.top, "groupUlid") = "group"
           /\ Payload!Get(q.top, "body") =
                IF style["body"] = Payload!Absent THEN "" ELSE "body"
<1> DEFINE p == Payload!Sent(style)
           q == Payload!NormalizeChatMessage(p, "group")
           sender == IF Given(p.user, "userId") THEN Payload!Get(p.user, "userId")
                     ELSE Payload!Get(p.top, "userId")
           name == IF Given(p.user, "name") THEN Payload!Get(p.user, "name")
                   ELSE Payload!Get(p.top, "username")
<1>1. DOMAIN p = Fields
  BY DEF Payload!Sent, Fields
<1>2. \A k : /\ Payload!Get(p.top, k) = InSent("top", k)
             /\ Payload!Get(p.user, k) = InSent("user", k)
  BY DEF InSent, Payload!Sent
<1>3. Payload!Coalesce(p.top, <<"id", "ulid">>) \notin {Payload!Undef, Payload!Null}
  BY DEF Payload!Readable
<1> HIDE DEF p
<1>4. /\ Payload!Get(q.top, "body") = Payload!Default(Payload!Get(p.top, "body"), "")
      /\ Payload!Get(q.top, "groupUlid") =
           Payload!Default(Payload!Coalesce(p.top, <<"groupUlid", "groupId">>), "group")
      /\ Payload!Get(q.top, "id") = Payload!Default(Payload!Coalesce(p.top, <<"id", "ulid">>), "")
      /\ Payload!Get(q.top, "userId") =
           IF sender = Payload!Undef THEN Payload!Get(p.top, "userId") ELSE sender
      /\ Payload!Get(q.top, "senderName") =
           IF sender = Payload!Undef \/ name = Payload!Undef
           THEN Payload!Get(p.top, "senderName") ELSE name
  BY <1>1, GetMessage
<1> HIDE DEF q
<1>5. Payload!Get(q.top, "id") = Carries("id")
  <2> DEFINE c == Payload!Coalesce(p.top, <<"id", "ulid">>)
  <2>1. c = IF Sends("id", "top", "id") \notin {Payload!Undef, Payload!Null}
            THEN Sends("id", "top", "id") ELSE Sends("id", "top", "ulid")
    BY <1>2, ChatKeys, CoalesceOfTwo DEF Given
  <2>2. c \notin {Payload!Undef, Payload!Null} /\ Payload!Get(q.top, "id") = Payload!Default(c, "")
    BY <1>3, <1>4
  <2> HIDE DEF c
  <2>3. c = "id"
    BY <2>1, <2>2 DEF Sends
  <2>4. ASSUME style["id"] = Payload!Absent PROVE FALSE
    <3>1. \A k \in {"id", "ulid"} : Sends("id", "top", k) = Payload!Undef
      BY <2>4 DEF Sends, Payload!Absent
    <3> QED BY <2>1, <2>2, <3>1
  <2>5. Payload!Get(q.top, "id") = "id"
    BY <2>2, <2>3 DEF Payload!Default
  <2> QED
    BY <2>4, <2>5 DEF Carries
<1>6. /\ Sends("owner", "top", "userId") = Payload!Get(p.top, "userId")
      /\ sender = Carries("owner")
  <2>1. /\ Payload!Get(p.top, "userId") = Sends("owner", "top", "userId")
        /\ Payload!Get(p.user, "userId") = Sends("owner", "user", "userId")
    BY <1>2, ChatKeys
  <2>2. style["owner"] \in {<<"top", "userId">>, <<"user", "userId">>, Payload!Absent}
    BY ChatPlaces
  <2> QED
    BY <2>1, <2>2 DEF Given, Sends, Carries, Payload!Absent, Payload!Undef, Payload!Null
<1>7. Payload!Get(q.top, "userId") = Carries("owner")
  <2>1. Carries("owner") = Payload!Undef => Sends("owner", "top", "userId") = Payload!Undef
    BY DEF Sends, Carries, Payload!Absent, Payload!Undef
  <2> HIDE DEF sender
  <2> QED BY <1>4, <1>6, <2>1
<1>8. name = Carries("name") /\ Payload!Get(p.top, "senderName") = Payload!Undef
  <2>1. /\ Payload!Get(p.top, "username") = Sends("name", "top", "username")
        /\ Payload!Get(p.user, "name") = Sends("name", "user", "name")
        /\ Payload!Get(p.top, "senderName") = Payload!Undef
    BY <1>2, ChatKeys
  <2>2. style["name"] \in {<<"top", "username">>, <<"user", "name">>, Payload!Absent}
    BY ChatPlaces
  <2> QED
    BY <2>1, <2>2 DEF Given, Sends, Carries, Payload!Absent, Payload!Undef, Payload!Null
<1>9. Payload!Get(q.top, "senderName") =
        IF style["owner"] = Payload!Absent THEN Payload!Undef ELSE Carries("name")
  <2>1. Carries("owner") = Payload!Undef <=> style["owner"] = Payload!Absent
    BY DEF Carries, Payload!Undef
  <2> HIDE DEF sender, name
  <2> QED BY <1>4, <1>6, <1>8, <2>1
<1>10. Payload!Get(q.top, "groupUlid") = "group"
  <2>1. Payload!Coalesce(p.top, <<"groupUlid", "groupId">>) \in {"group", Payload!Undef}
    BY <1>2, ChatKeys, CoalesceOfTwo DEF Sends
  <2> QED
    BY <1>4, <2>1 DEF Payload!Default
<1>11. Payload!Get(q.top, "body") = IF style["body"] = Payload!Absent THEN "" ELSE "body"
  <2>1. Payload!Get(p.top, "body") = Sends("body", "top", "body")
    BY <1>2, ChatKeys
  <2>2. style["body"] \in {<<"top", "body">>, Payload!Absent}
    BY ChatPlaces
  <2>3. Payload!Get(p.top, "body") =
          IF style["body"] = Payload!Absent THEN Payload!Undef ELSE "body"
    BY <2>1, <2>2 DEF Sends, Payload!Absent
  <2>4. Payload!Get(q.top, "body") = Payload!Default(Payload!Get(p.top, "body"), "")
    BY <1>4
  <2> QED
    BY <2>3, <2>4 DEF Payload!Default, Payload!Undef, Payload!Null
<1> QED
  BY <1>5, <1>7, <1>9, <1>10, <1>11 DEF q, p

\* Replies that come bare or in their envelope, never in both.
InOnePart(where) == \A f \in DOMAIN style : style[f] = Payload!Absent \/ style[f][1] = where

\* A reply that comes in one part has nothing in the others.
LEMMA NothingElsewhere ==
    ASSUME Pairs(style), NEW where, InOnePart(where), NEW other, other # where
    PROVE  Payload!PartOf(style, other) = Payload!Empty
<1> DEFINE o == Payload!PartOf(style, other)
<1>1. DOMAIN o = {}
  <2> SUFFICES ASSUME NEW k \in DOMAIN o PROVE FALSE
    OBVIOUS
  <2>1. PICK f \in DOMAIN style : style[f] = <<other, k>> /\ style[f] # Payload!Absent
    BY PartSent
  <2> QED
    BY <2>1 DEF InOnePart
<1>2. o = [k \in DOMAIN o |-> o[k]]
  BY DEF Payload!PartOf
<1> HIDE DEF o
<1>3. o = << >>
  BY <1>1, <1>2
<1> QED
  BY <1>3 DEF o, Payload!Empty

\* Unwrapping finds the reply, bare or in its envelope.
LEMMA GetUnwrapped ==
    ASSUME Pairs(style), NEW where \in {"top", "data"}, InOnePart(where)
    PROVE  LET p == Payload!Sent(style) IN
           /\ \A k : Payload!Get(Payload!Unwrap(p), k) = InSent(where, k)
           /\ \A k : where = "top" => Payload!Get(p.data, k) = Payload!Undef
           /\ \A k : where = "data" => Payload!Get(p.top, k) = Payload!Undef
           /\ \E w \in {"top", "data"} : Payload!Unwrap(p) = Payload!PartOf(style, w)
<1> DEFINE p == Payload!Sent(style)
<1>1. p.top = Payload!PartOf(style, "top") /\ p.data = Payload!PartOf(style, "data")
  BY DEF Payload!Sent
<1> HIDE DEF p
<1>2. CASE where = "top"
  <2>1. p.data = Payload!Empty
    BY <1>1, <1>2, NothingElsewhere
  <2> QED
    BY <1>1, <1>2, <2>1, GetEmpty DEF Payload!Unwrap, InSent, p
<1>3. CASE where = "data"
  <2>1. p.top = Payload!Empty
    BY <1>1, <1>3, NothingElsewhere
  <2>2. Payload!Unwrap(p) = p.data
    BY <2>1 DEF Payload!Unwrap
  <2> QED
    BY <1>1, <1>3, <2>1, <2>2, GetEmpty DEF InSent, p
<1> QED
  BY <1>2, <1>3

\* Token replies.
TokensStyled(where) ==
    style \in Payload!Reply(where) /\ Payload!Sendable("tokens", style)

\* The keys of a token reply.
LEMMA TokensPlaces ==
    ASSUME NEW where, TokensStyled(where)
    PROVE  /\ DOMAIN style = {"access", "refresh", "expiry", "seconds"}
           /\ Pairs(style) /\ Apart(style) /\ InOnePart(where)
           /\ style["access"] \in {<<where, "access_token">>, <<where, "accessToken">>,
                Payload!Absent}
           /\ style["refresh"] \in {<<where, "refresh_token">>, <<where, "refreshToken">>,
                Payload!Absent}
           /\ style["expiry"] \in {<<where, "expires_at">>, <<where, "expiresAt">>, Payload!Absent}
           /\ style["seconds"] \in {<<where, "expires_in">>, <<where, "expiresIn">>,
                Payload!Absent}
<1>1. DOMAIN style = {"access", "refresh", "expiry", "seconds"}
  BY DEF TokensStyled, Payload!Reply
<1>2. /\ style["access"] \in Payload!At(where, {"access_token", "accessToken"})
      /\ style["refresh"] \in Payload!At(where, {"refresh_token", "refreshToken"})
      /\ style["expiry"] \in Payload!At(where, {"expires_at", "expiresAt"})
      /\ style["seconds"] \in Payload!At(where, {"expires_in", "expiresIn"})
  BY DEF TokensStyled, Payload!Reply
<1>3. Pairs(style)
  BY <1>1, <1>2, AtPairs DEF Pairs
<1>4. Apart(style)
  BY DEF TokensStyled, Payload!Sendable, Apart
<1>5. \A keys, x : x \in Payload!At(where, keys) => x = Payload!Absent \/ x[1] = where
  BY DEF Payload!At
<1>6. InOnePart(where)
  BY <1>1, <1>2, <1>5 DEF InOnePart
<1> QED
  BY <1>1, <1>2, <1>3, <1>4, <1>6 DEF Payload!At

\* A field under either of two keys, and no other field under them.
Spelled(f, where, a, b) ==
    /\ InSent(where, a) = Sends(f, where, a) /\ InSent(where, b) = Sends(f, where, b)
    /\ style[f] \in {<<where, a>>, <<where, b>>, Payload!Absent}

\* What each of them carries.
LEMMA TokensKeys ==
    ASSUME NEW where, TokensStyled(where)
    PROVE  /\ Spelled("access", where, "access_token", "accessToken")
           /\ Spelled("refresh", where, "refresh_token", "refreshToken")
           /\ Spelled("expiry", where, "expires_at", "expiresAt")
           /\ Spelled("seconds", where, "expires_in", "expiresIn")
<1>1. \A k \in {"access_token", "accessToken"} : InSent(where, k) = Sends("access", where, k)
  BY TokensPlaces, OneSender DEF Payload!Absent
<1>2. \A k \in {"refresh_token", "refreshToken"} : InSent(where, k) = Sends("refresh", where, k)
  BY TokensPlaces, OneSender DEF Payload!Absent
<1>3. \A k \in {"expires_at", "expiresAt"} : InSent(where, k) = Sends("expiry", where, k)
  BY TokensPlaces, OneSender DEF Payload!Absent
<1>4. \A k \in {"expires_in", "expiresIn"} : InSent(where, k) = Sends("seconds", where, k)
  BY TokensPlaces, OneSender DEF Payload!Absent
<1> QED
  BY <1>1, <1>2, <1>3, <1>4, TokensPlaces DEF Spelled

\* The choice between two spellings finds the field.
LEMMA SpelledFound ==
    ASSUME NEW f, f \notin {Payload!Undef, Payload!Null}, NEW where, NEW a, NEW b,
           Spelled(f, where, a, b), a # "absent", b # "absent"
    PROVE  (IF InSent(where, a) \notin {Payload!Undef, Payload!Null}
            THEN InSent(where, a) ELSE InSent(where, b)) = Carries(f)
<1>1. <<where, a>> # Payload!Absent /\ <<where, b>> # Payload!Absent
  BY DEF Payload!Absent
<1>2. CASE style[f] = Payload!Absent
  <2>1. InSent(where, a) = Payload!Undef /\ InSent(where, b) = Payload!Undef
    BY <1>1, <1>2 DEF Spelled, Sends
  <2> QED
    BY <1>2, <2>1 DEF Carries
<1>3. CASE style[f] # Payload!Absent
  <2>1. InSent(where, a) = f \/ (InSent(where, a) = Payload!Undef /\ InSent(where, b) = f)
    BY <1>3 DEF Spelled, Sends
  <2> QED
    BY <1>3, <2>1 DEF Carries
<1> QED BY <1>2, <1>3

\* A token reply reads as it was sent, its expiry from either way to give it.
LEMMA TokensDecoded ==
    ASSUME NEW where \in {"top", "data"}, TokensStyled(where)
    PROVE  LET q == Payload!ExtractAuthTokens(Payload!Sent(style)) IN
           /\ Payload!Get(q.top, "accessToken") = Carries("access")
           /\ Payload!Get(q.top, "refreshToken") = Carries("refresh")
           /\ Payload!Get(q.top, "expiresAt") =
                IF style["seconds"] # Payload!Absent THEN "expiry" ELSE Carries("expiry")
<1> DEFINE p == Payload!Sent(style)
           r == Payload!Unwrap(p)
           at == Payload!Coalesce(r, <<"access_token", "accessToken">>)
           rt == Payload!Coalesce(r, <<"refresh_token", "refreshToken">>)
           ex == Payload!Coalesce(r, <<"expires_at", "expiresAt", "expires_in", "expiresIn">>)
           bearer == [accessToken |-> at]
           pair == Payload!Put(bearer, "refreshToken", rt)
           dated == Payload!Put(pair, "expiresAt", Payload!FromNow(ex))
           q == Payload!ExtractAuthTokens(p)
<1>1. q.top = dated
  BY DEF Payload!ExtractAuthTokens, Payload!Sent
<1>2. \A k : Payload!Get(r, k) = InSent(where, k)
  BY TokensPlaces, GetUnwrapped
<1> HIDE DEF p, r, q
<1>3. at = Carries("access")
  <2>1. at = IF InSent(where, "access_token") \notin {Payload!Undef, Payload!Null}
             THEN InSent(where, "access_token") ELSE InSent(where, "accessToken")
    BY <1>2, CoalesceOfTwo DEF Given
  <2> HIDE DEF at
  <2> QED
    BY <2>1, TokensKeys, SpelledFound DEF Payload!Undef, Payload!Null
<1>4. rt = Carries("refresh")
  <2>1. rt = IF InSent(where, "refresh_token") \notin {Payload!Undef, Payload!Null}
             THEN InSent(where, "refresh_token") ELSE InSent(where, "refreshToken")
    BY <1>2, CoalesceOfTwo DEF Given
  <2> HIDE DEF rt
  <2> QED
    BY <2>1, TokensKeys, SpelledFound DEF Payload!Undef, Payload!Null
<1>5. Payload!FromNow(ex) =
        IF style["seconds"] # Payload!Absent THEN "expiry" ELSE Carries("expiry")
  <2> DEFINE a == InSent(where, "expires_at")
             b == InSent(where, "expiresAt")
             c == InSent(where, "expires_in")
             d == InSent(where, "expiresIn")
  <2>1. ex = IF a \notin {Payload!Undef, Payload!Null} THEN a
             ELSE IF b \notin {Payload!Undef, Payload!Null} THEN b
             ELSE IF c \notin {Payload!Undef, Payload!Null} THEN c ELSE d
    BY <1>2, CoalesceOfFour DEF Given
  <2>2. /\ (IF a \notin {Payload!Undef, Payload!Null} THEN a ELSE b) = Carries("expiry")
        /\ (IF c \notin {Payload!Undef, Payload!Null} THEN c ELSE d) = Carries("seconds")
    BY TokensKeys, SpelledFound DEF Payload!Undef, Payload!Null
  <2> HIDE DEF a, b, c, d, ex
  <2>3. ex = IF Carries("expiry") \notin {Payload!Undef, Payload!Null} THEN Carries("expiry")
             ELSE Carries("seconds")
    <3>1. CASE a \notin {Payload!Undef, Payload!Null}
      BY <2>1, <2>2, <3>1
    <3>2. CASE a \in {Payload!Undef, Payload!Null}
      BY <2>1, <2>2, <3>2
    <3> QED BY <3>1, <3>2
  <2>4. CASE style["expiry"] = Payload!Absent
    <3>1. ex = Carries("seconds") /\ Carries("expiry") = Payload!Undef
      BY <2>3, <2>4 DEF Carries
    <3> QED
      BY <3>1 DEF Carries, Payload!FromNow, Payload!Undef
  <2>5. CASE style["expiry"] # Payload!Absent
    <3>1. ex = "expiry" /\ Carries("expiry") = "expiry"
      BY <2>3, <2>5 DEF Carries, Payload!Undef, Payload!Null
    <3> QED
      BY <3>1 DEF Payload!FromNow
  <2> QED BY <2>4, <2>5
<1> HIDE DEF at, rt, ex
<1>6. /\ Payload!Get(bearer, "accessToken") = at
      /\ Payload!Get(bearer, "refreshToken") = Payload!Undef
      /\ Payload!Get(bearer, "expiresAt") = Payload!Undef
  BY DEF Payload!Get
<1> HIDE DEF bearer
<1>7. \A k : Payload!Get(pair, k) = IF k = "refreshToken" /\ rt # Payload!Undef THEN rt
                                    ELSE Payload!Get(bearer, k)
  BY GetPut
<1> HIDE DEF pair
<1>8. \A k : Payload!Get(dated, k) =
        IF k = "expiresAt" /\ Payload!FromNow(ex) # Payload!Undef THEN Payload!FromNow(ex)
        ELSE Payload!Get(pair, k)
  BY GetPut
<1> HIDE DEF dated
<1>9. /\ Payload!Get(q.top, "accessToken") = at /\ Payload!Get(q.top, "refreshToken") = rt
      /\ Payload!Get(q.top, "expiresAt") = Payload!FromNow(ex)
  BY <1>1, <1>6, <1>7, <1>8
<1> QED
  BY <1>3, <1>4, <1>5, <1>9 DEF q, p

\* The small replies.
SmallStyled(where) ==
    /\ kind \in Payload!Small /\ style \in Payload!SmallStyles(kind, where)
    /\ Payload!Sendable(kind, style)

\* The keys of the small replies.
LEMMA SmallPlaces ==
    ASSUME NEW where, SmallStyled(where)
    PROVE  /\ Pairs(style) /\ Apart(style) /\ InOnePart(where)
           /\ kind = "hashtags" =>
                /\ DOMAIN style = {"items"}
                /\ style["items"] \in {<<where, "hashtags">>, <<where, "items">>, Payload!Absent}
           /\ kind = "unread" =>
                /\ DOMAIN style = {"count"}
                /\ style["count"] \in {<<where, "unread_count">>, <<where, "unreadCount">>,
                     Payload!Absent}
           /\ kind = "entitlements" =>
                \/ /\ DOMAIN style = {"limit"}
                   /\ style["limit"] \in {<<where, "songs_limit">>, <<where, "songsLimit">>,
                        Payload!Absent}
                \/ /\ DOMAIN style = {"unlimited"}
                   /\ style["unlimited"] \in {<<where, "songs_limit">>, Payload!Absent}
           /\ kind = "location" =>
                /\ DOMAIN style = {"latitude", "longitude"}
                /\ style["latitude"] \in {<<where, "latitude">>, Payload!Absent}
                /\ style["longitude"] \in {<<where, "longitude">>, Payload!Absent}
<1>1. Apart(style)
  BY DEF SmallStyled, Payload!Sendable, Apart
<1>2. \A keys, x : x \in Payload!At(where, keys) =>
        (x = Payload!Absent \/ x[1] = where) /\ Letters(x)
  BY AtPairs DEF Payload!At
<1>3. CASE kind = "hashtags"
  <2>1. DOMAIN style = {"items"} /\ style["items"] \in Payload!At(where, {"hashtags", "items"})
    BY <1>3 DEF SmallStyled, Payload!SmallStyles
  <2>2. Pairs(style) /\ InOnePart(where)
    BY <1>2, <2>1 DEF Pairs, InOnePart
  <2> QED
    BY <1>1, <1>3, <2>1, <2>2 DEF Payload!At
<1>4. CASE kind = "unread"
  <2>1. /\ DOMAIN style = {"count"}
        /\ style["count"] \in Payload!At(where, {"unread_count", "unreadCount"})
    BY <1>4 DEF SmallStyled, Payload!SmallStyles
  <2>2. Pairs(style) /\ InOnePart(where)
    BY <1>2, <2>1 DEF Pairs, InOnePart
  <2> QED
    BY <1>1, <1>4, <2>1, <2>2 DEF Payload!At
<1>5. CASE kind = "entitlements"
  <2>1. \/ /\ DOMAIN style = {"limit"}
           /\ style["limit"] \in Payload!At(where, {"songs_limit", "songsLimit"})
        \/ /\ DOMAIN style = {"unlimited"}
           /\ style["unlimited"] \in Payload!At(where, {"songs_limit"})
    BY <1>5 DEF SmallStyled, Payload!SmallStyles
  <2>2. Pairs(style) /\ InOnePart(where)
    BY <1>2, <2>1 DEF Pairs, InOnePart
  <2> QED
    BY <1>1, <1>5, <2>1, <2>2 DEF Payload!At
<1>6. CASE kind = "location"
  <2>1. /\ DOMAIN style = {"latitude", "longitude"}
        /\ style["latitude"] \in Payload!At(where, {"latitude"})
        /\ style["longitude"] \in Payload!At(where, {"longitude"})
    BY <1>6 DEF SmallStyled, Payload!SmallStyles
  <2>2. Pairs(style) /\ InOnePart(where)
    BY <1>2, <2>1 DEF Pairs, InOnePart
  <2> QED
    BY <1>1, <1>6, <2>1, <2>2 DEF Payload!At
<1> QED
  BY <1>3, <1>4, <1>5, <1>6 DEF SmallStyled, Payload!Small

\* The small replies read as they were sent, or as what stands for a missing field.
LEMMA HashtagsDecoded ==
    ASSUME NEW where \in {"top", "data"}, SmallStyled(where), kind = "hashtags"
    PROVE  Payload!Get(Payload!Hashtags(Payload!Sent(style)).top, "items") =
             IF style["items"] = Payload!Absent THEN "none" ELSE "items"
<1> DEFINE p == Payload!Sent(style)
           v == Payload!Coalesce(p.top, <<"hashtags", "items">>)
           w == Payload!Coalesce(p.data, <<"hashtags", "items">>)
           items == Payload!Default(v, Payload!Default(w, "none"))
<1>1. Payload!Get(Payload!Hashtags(p).top, "items") = items
  <2>1. Payload!Hashtags(p).top = [items |-> items]
    BY DEF Payload!Hashtags, Payload!Only, Payload!Sent
  <2> HIDE DEF items
  <2>2. Payload!Get([items |-> items], "items") = items
    BY DEF Payload!Get
  <2> QED BY <2>1, <2>2
<1>2. \A k : /\ Payload!Get(p.top, k) = InSent("top", k)
             /\ Payload!Get(p.data, k) = InSent("data", k)
  BY DEF InSent, Payload!Sent
<1>3. \A k : /\ where = "top" => Payload!Get(p.data, k) = Payload!Undef
             /\ where = "data" => Payload!Get(p.top, k) = Payload!Undef
  BY SmallPlaces, GetUnwrapped
<1> HIDE DEF p
<1>4. Spelled("items", where, "hashtags", "items")
  <2>1. \A k \in {"hashtags", "items"} : InSent(where, k) = Sends("items", where, k)
    BY SmallPlaces, OneSender
  <2> QED BY <2>1, SmallPlaces DEF Spelled
<1>5. (IF InSent(where, "hashtags") \notin {Payload!Undef, Payload!Null}
       THEN InSent(where, "hashtags") ELSE InSent(where, "items")) = Carries("items")
  BY <1>4, SpelledFound DEF Payload!Undef, Payload!Null
<1>6. /\ where = "top" => v = Carries("items") /\ w = Payload!Undef
      /\ where = "data" => w = Carries("items") /\ v = Payload!Undef
  BY <1>2, <1>3, <1>5, CoalesceOfTwo DEF Given
<1> HIDE DEF v, w
<1>7. items = IF style["items"] = Payload!Absent THEN "none" ELSE "items"
  BY <1>6 DEF Carries, Payload!Default, Payload!Undef, Payload!Null
<1> QED
  BY <1>1, <1>7 DEF p

\* A count of unread messages reads as it was sent, and as 0 when it was not.
LEMMA UnreadDecoded ==
    ASSUME NEW where \in {"top", "data"}, SmallStyled(where), kind = "unread"
    PROVE  Payload!Get(Payload!UnreadCount(Payload!Sent(style)).top, "unreadCount") =
             IF style["count"] = Payload!Absent THEN "0" ELSE "count"
<1> DEFINE p == Payload!Sent(style)
           v == Payload!Coalesce(Payload!Unwrap(p), <<"unread_count", "unreadCount">>)
           n == Payload!Default(v, "0")
<1>1. Payload!Get(Payload!UnreadCount(p).top, "unreadCount") = n
  <2>1. Payload!UnreadCount(p).top = [unreadCount |-> n]
    BY DEF Payload!UnreadCount, Payload!Only, Payload!Sent
  <2> HIDE DEF n
  <2>2. Payload!Get([unreadCount |-> n], "unreadCount") = n
    BY DEF Payload!Get
  <2> QED BY <2>1, <2>2
<1>2. \A k : Payload!Get(Payload!Unwrap(p), k) = InSent(where, k)
  BY SmallPlaces, GetUnwrapped
<1> HIDE DEF p
<1>3. Spelled("count", where, "unread_count", "unreadCount")
  <2>1. \A k \in {"unread_count", "unreadCount"} : InSent(where, k) = Sends("count", where, k)
    BY SmallPlaces, OneSender
  <2> QED BY <2>1, SmallPlaces DEF Spelled
<1>4. (IF InSent(where, "unread_count") \notin {Payload!Undef, Payload!Null}
       THEN InSent(where, "unread_count") ELSE InSent(where, "unreadCount")) = Carries("count")
  BY <1>3, SpelledFound DEF Payload!Undef, Payload!Null
<1>5. v = Carries("count")
  BY <1>2, <1>4, CoalesceOfTwo DEF Given
<1> HIDE DEF v
<1>6. n = IF style["count"] = Payload!Absent THEN "0" ELSE "count"
  BY <1>5 DEF Carries, Payload!Default, Payload!Undef, Payload!Null
<1> QED
  BY <1>1, <1>6 DEF p

\* A limit on songs reads as it was sent, none when unlimited, 10 when absent.
LEMMA EntitlementsDecoded ==
    ASSUME NEW where \in {"top", "data"}, SmallStyled(where), kind = "entitlements",
           NEW f \in DOMAIN style
    PROVE  Payload!Get(Payload!ArtistEntitlements(Payload!Sent(style)).top, "songsLimit") =
             IF style[f] = Payload!Absent THEN "10"
             ELSE IF f = "unlimited" THEN Payload!Null ELSE f
<1> DEFINE p == Payload!Sent(style)
           r == Payload!Unwrap(p)
           v == Payload!Get(Payload!SnakeToCamelObject(r), "songsLimit")
           n == IF v = Payload!Undef THEN "10" ELSE v
           a == InSent(where, "songs_limit")
           c == InSent(where, "songsLimit")
           t == IF f = "unlimited" THEN Payload!Null ELSE f
<1>1. Payload!Get(Payload!ArtistEntitlements(p).top, "songsLimit") = n
  <2>1. Payload!ArtistEntitlements(p).top = [songsLimit |-> n]
    BY DEF Payload!ArtistEntitlements, Payload!Only, Payload!Sent
  <2> HIDE DEF n
  <2>2. Payload!Get([songsLimit |-> n], "songsLimit") = n
    BY DEF Payload!Get
  <2> QED BY <2>1, <2>2
<1>2. /\ DOMAIN style = {f} /\ f \in {"limit", "unlimited"}
      /\ style[f] \in {<<where, "songs_limit">>, <<where, "songsLimit">>, Payload!Absent}
      /\ Pairs(style) /\ Apart(style) /\ InOnePart(where)
  BY SmallPlaces
<1>3. /\ \A k : Payload!Get(r, k) = InSent(where, k)
      /\ \E w \in {"top", "data"} : r = Payload!PartOf(style, w)
  BY <1>2, GetUnwrapped
<1>4. \A k \in DOMAIN r : r[k] # Payload!Undef
  BY <1>2, <1>3, SentGiven DEF Payload!Undef
<1> HIDE DEF p, r
<1>5. ASSUME NEW k \in {"songs_limit", "songsLimit"}
      PROVE  InSent(where, k) = IF style[f] = <<where, k>> THEN t ELSE Payload!Undef
  <2>1. <<where, k>> # Payload!Absent
    BY DEF Payload!Absent
  <2> QED
    BY <1>2, <2>1, GetSent DEF InSent
<1>6. /\ a \in {t, Payload!Undef} /\ c \in {t, Payload!Undef}
      /\ style[f] = Payload!Absent <=> a = Payload!Undef /\ c = Payload!Undef
  <2>1. t # Payload!Undef
    BY <1>2 DEF Payload!Undef, Payload!Null
  <2>2. <<where, "songs_limit">> # Payload!Absent /\ <<where, "songsLimit">> # Payload!Absent
    BY DEF Payload!Absent
  <2> HIDE DEF t
  <2> QED BY <1>2, <1>5, <2>1, <2>2
<1>7. v = IF a = Payload!Undef /\ c = Payload!Undef THEN Payload!Undef ELSE t
  <2> HIDE DEF t
  <2> QED BY <1>3, <1>4, <1>6, CamelKeys, GetSnake
<1>8. n = IF style[f] = Payload!Absent THEN "10" ELSE t
  <2>1. t # Payload!Undef
    BY <1>2 DEF Payload!Undef, Payload!Null
  <2> HIDE DEF v, t, a, c
  <2> QED BY <1>6, <1>7, <2>1
<1> QED
  BY <1>1, <1>8 DEF p

\* A location reads as it was sent, whole or not at all.
LEMMA LocationDecoded ==
    ASSUME NEW where \in {"top", "data"}, SmallStyled(where), kind = "location",
           NEW f \in {"latitude", "longitude"}
    PROVE  Payload!Get(Payload!Location(Payload!Sent(style)).top, f) =
             IF \E g \in DOMAIN style : style[g] = Payload!Absent THEN Payload!Undef ELSE f
<1> DEFINE p == Payload!Sent(style)
           r == Payload!Unwrap(p)
<1>1. Payload!Location(p).top = IF Payload!Located(r) THEN r ELSE Payload!Empty
  BY DEF Payload!Location, Payload!Only, Payload!Sent
<1>2. \A k : Payload!Get(r, k) = InSent(where, k)
  BY SmallPlaces, GetUnwrapped
<1> HIDE DEF p, r
<1>3. \A k \in {"latitude", "longitude"} : InSent(where, k) = Sends(k, where, k)
  BY SmallPlaces, OneSender DEF Payload!Absent
<1>4. \A k \in {"latitude", "longitude"} :
        Sends(k, where, k) = IF style[k] = Payload!Absent THEN Payload!Undef ELSE k
  <2>1. \A k \in {"latitude", "longitude"} :
          style[k] \in {<<where, k>>, Payload!Absent} /\ <<where, k>> # Payload!Absent
    BY SmallPlaces DEF Payload!Absent
  <2> QED BY <2>1 DEF Sends
<1>5. Payload!Located(r) <=> ~ \E g \in DOMAIN style : style[g] = Payload!Absent
  <2>1. DOMAIN style = {"latitude", "longitude"}
    BY SmallPlaces
  <2> QED
    BY <1>2, <1>3, <1>4, <2>1 DEF Payload!Located, Payload!Undef
<1>6. ~(\E g \in DOMAIN style : style[g] = Payload!Absent) => Payload!Get(r, f) = f
  <2>1. f \in DOMAIN style
    BY SmallPlaces
  <2> QED BY <1>2, <1>3, <1>4, <2>1
<1> QED
  BY <1>1, <1>5, <1>6, GetEmpty DEF p

\* What is sent: a document of one of the kinds, in one of the styles of its kind.
Styled ==
    \/ kind = "post" /\ PostStyled
    \/ kind = "user" /\ UserStyled
    \/ kind = "chat" /\ ChatStyled
    \/ kind = "tokens" /\ \E where \in {"top", "data"} : TokensStyled(where)
    \/ kind = "current" /\ CurrentStyled
    \/ kind \in Payload!Small /\ \E where \in {"top", "data"} : SmallStyled(where)

\* The document once read, and once read again from the cache.
Read == Payload!Normal(Payload!Sent(style))
ReadAgain == Payload!Normal([Read EXCEPT !.top = Payload!Sanitized(Read.top)])

\* A document is what was sent, what the normaliser makes of it, or what that is
\* after the cache; a merged post reads as it was sent but for its reaction.
SentInv ==
    /\ Styled
    /\ stage = "raw" => doc = Payload!Sent(style)
    /\ stage = "normal" => doc = Read /\ ~Payload!Refused(Payload!Sent(style))
    /\ stage = "again" => kind \in {"post", "user"} /\ NoFn(Read.top) /\ doc = ReadAgain
    /\ stage = "merged" =>
         /\ kind = "post"
         /\ \A f \in DOMAIN PostCarries \ {"reaction"} : PostShows(doc)[f] = Carries(f)

\* A document begins in one of the styles of its kind,
LEMMA StyledAtFirst ==
    ASSUME Payload!Init
    PROVE  Styled
<1>1. CASE kind = "post" /\ style \in Payload!PostStyles
  BY <1>1 DEF Payload!Init, Styled, PostStyled
<1>2. CASE kind = "user" /\ style \in Payload!UserStyles
  BY <1>2 DEF Payload!Init, Styled, UserStyled
<1>3. CASE kind = "chat" /\ style \in Payload!ChatStyles
  BY <1>3 DEF Payload!Init, Styled, ChatStyled
<1>4. CASE kind = "tokens" /\ style \in Payload!Reply("top") \cup Payload!Reply("data")
  BY <1>4 DEF Payload!Init, Styled, TokensStyled
<1>5. CASE kind = "current" /\ style \in Payload!CurrentStyles
  BY <1>5 DEF Payload!Init, Styled, CurrentStyled
<1>6. CASE kind \in Payload!Small
           /\ style \in Payload!SmallStyles(kind, "top") \cup Payload!SmallStyles(kind, "data")
  BY <1>6 DEF Payload!Init, Styled, SmallStyled
<1> QED
  BY <1>1, <1>2, <1>3, <1>4, <1>5, <1>6 DEF Payload!Init

\* The kind and the style of a document stay, and with them what is sent and read.
LEMMA StaysStyled ==
    ASSUME kind' = kind, style' = style
    PROVE  /\ Styled => Styled'
           /\ Read' = Read /\ ReadAgain' = ReadAgain
           /\ Payload!Sent(style)' = Payload!Sent(style)
           /\ Payload!Refused(Payload!Sent(style))' = Payload!Refused(Payload!Sent(style))
           /\ \A f : Carries(f)' = Carries(f)
           /\ (DOMAIN PostCarries)' = DOMAIN PostCarries
<1>1. Styled => Styled'
  BY DEF Styled, PostStyled, UserStyled, ChatStyled, TokensStyled, CurrentStyled, SmallStyled
<1>3. Read' = Read
  BY DEF Read, Payload!Normal
<1>4. ReadAgain' = ReadAgain
  BY <1>3 DEF ReadAgain, Payload!Normal
<1>5. /\ Payload!Sent(style)' = Payload!Sent(style)
      /\ Payload!Refused(Payload!Sent(style))' = Payload!Refused(Payload!Sent(style))
  BY DEF Payload!Refused
<1>6. \A f : Carries(f)' = Carries(f)
  BY DEF Carries
<1>7. (DOMAIN PostCarries)' = DOMAIN PostCarries
  BY DEF PostCarries
<1> QED
  BY <1>1, <1>3, <1>4, <1>5, <1>6, <1>7

\* Reading the reply: by what was proved of each kind, it shows what was sent.
LEMMA SentDecodes ==
    ASSUME SentInv, Payload!Decode
    PROVE  SentInv'
<1>1. Styled /\ doc = Payload!Sent(style) /\ kind' = kind /\ style' = style
  BY DEF SentInv, Payload!Decode
<1>2. \/ stage' = "failed"
      \/ stage' = "normal" /\ doc' = Read /\ ~Payload!Refused(Payload!Sent(style))
  BY <1>1 DEF Payload!Decode, Read
<1> QED
  BY <1>1, <1>2, StaysStyled DEF SentInv

\* Reading it again from the cache: twice is once.
LEMMA SentDecodesAgain ==
    ASSUME SentInv, PayloadInv, Payload!DecodeAgain
    PROVE  SentInv'
<1>1. /\ Styled /\ doc = Read /\ kind' = kind /\ style' = style /\ stage = "normal"
      /\ kind \in {"post", "user"} /\ stage' = "again"
  BY DEF SentInv, Payload!DecodeAgain
<1>2. NoFn(Read.top)
  BY <1>1, CleanNoFn DEF PayloadInv, Decoded, ReadWell
<1>3. doc' = ReadAgain
  BY <1>1 DEF Payload!DecodeAgain, ReadAgain
<1> QED
  BY <1>1, <1>2, <1>3, StaysStyled DEF SentInv

\* Merging an engagement answer: only the reaction and the rating that was sent.
LEMMA SentPolls ==
    ASSUME SentInv, Payload!Poll
    PROVE  SentInv'
<1>1. /\ Styled /\ doc = Read /\ kind' = kind /\ style' = style /\ kind = "post"
      /\ stage' = "merged"
  BY DEF SentInv, Payload!Poll
<1>2. PICK ans \in Payload!Answers : doc' = Payload!Polled(doc, ans)
  BY DEF Payload!Poll
<1>3. PostStyled /\ doc = Payload!NormalizePost(Payload!Sent(style))
  BY <1>1 DEF Styled, Read, Payload!Normal, Payload!Small
<1>4. /\ DOMAIN doc = Fields /\ PostShows(doc) = PostCarries
      /\ doc.stats # Payload!Empty => Carries("rating") = "rating"
  BY <1>3, PostDecoded
<1>5. \A f \in DOMAIN PostCarries \ {"reaction"} : PostShows(doc')[f] = Carries(f)
  BY <1>2, <1>4, PostMerged
<1>6. \A f \in (DOMAIN PostCarries)' \ {"reaction"} : PostShows(doc)'[f] = Carries(f)'
  BY <1>1, <1>5, StaysStyled DEF PostShows
<1> QED
  BY <1>1, <1>6, StaysStyled DEF SentInv

\* A post reads as it was sent: when it was received, from the cache, and merged.
LEMMA PostRounds ==
    ASSUME SentInv, kind = "post"
    PROVE  Payload!RoundTrip
<1>1. PostStyled
  BY DEF SentInv, Styled, Payload!Small
<1>2. Read = Payload!NormalizePost(Payload!Sent(style))
  BY DEF Read, Payload!Normal
<1>3. /\ PostShows(Read) = PostCarries
      /\ NoFn(Read.top) => PostShows(Payload!NormalizePost(
                              [Read EXCEPT !.top = Payload!Sanitized(Read.top)])) = PostCarries
  BY <1>1, <1>2, PostDecoded
<1>4. ReadAgain = Payload!NormalizePost([Read EXCEPT !.top = Payload!Sanitized(Read.top)])
  BY DEF ReadAgain, Payload!Normal
<1>5. /\ stage \in {"normal", "again"} => PostShows(doc) = PostCarries
      /\ stage = "merged" =>
           \A f \in DOMAIN PostCarries \ {"reaction"} : PostShows(doc)[f] = Carries(f)
  BY <1>3, <1>4 DEF SentInv
<1>6. Payload!View = PostShows(doc)
  BY DEF Payload!View, PostShows, Payload!Small
<1>7. /\ DOMAIN PostShows(doc) = DOMAIN PostCarries
      /\ \A f \in DOMAIN PostCarries : f # "unlimited" /\ PostCarries[f] = Carries(f)
  BY DEF PostShows, PostCarries
<1> QED
  BY <1>5, <1>6, <1>7, Carried DEF Payload!RoundTrip

\* So does a profile, when it was received and from the cache.
LEMMA UserRounds ==
    ASSUME SentInv, kind = "user"
    PROVE  Payload!RoundTrip
<1>1. UserStyled /\ stage # "merged"
  BY DEF SentInv, Styled, Payload!Small
<1>2. Read = Payload!NormalizeUserProfile(Payload!Sent(style))
  BY DEF Read, Payload!Normal
<1>3. /\ UserShows(Read) = UserCarries
      /\ NoFn(Read.top) => UserShows(Payload!NormalizeUserProfile(
                              [Read EXCEPT !.top = Payload!Sanitized(Read.top)])) = UserCarries
  BY <1>1, <1>2, UserDecoded
<1>4. ReadAgain = Payload!NormalizeUserProfile([Read EXCEPT !.top = Payload!Sanitized(Read.top)])
  BY DEF ReadAgain, Payload!Normal
<1>5. stage \in {"normal", "again"} => UserShows(doc) = UserCarries
  BY <1>3, <1>4 DEF SentInv
<1>6. Payload!View = UserShows(doc)
  BY DEF Payload!View, UserShows, Payload!Small
<1>7. /\ DOMAIN UserShows(doc) = {"name", "followers", "thumb"}
      /\ \A f \in {"name", "followers", "thumb"} : Payload!Carried(f) = UserCarries[f]
  BY Carried DEF UserShows, UserCarries, Carries
<1> QED
  BY <1>1, <1>5, <1>6, <1>7 DEF Payload!RoundTrip

\* The other kinds are read once.
LEMMA MessageRounds ==
    ASSUME SentInv, kind = "chat"
    PROVE  Payload!RoundTrip
<1>1. ChatStyled /\ stage \notin {"again", "merged"}
  BY DEF SentInv, Styled, Payload!Small
<1>2. SUFFICES ASSUME stage = "normal"
               PROVE  \A f \in DOMAIN Payload!View : Payload!View[f] = Payload!Carried(f)
  BY <1>1 DEF Payload!RoundTrip
<1>3. /\ Payload!Readable(Payload!Sent(style))
      /\ doc = Payload!NormalizeChatMessage(Payload!Sent(style), "group")
  BY <1>2 DEF SentInv, Payload!Refused, Read, Payload!Normal
<1>4. /\ Payload!Get(doc.top, "id") = Carries("id")
      /\ Payload!Get(doc.top, "userId") = Carries("owner")
      /\ Payload!Get(doc.top, "senderName") =
           IF style["owner"] = Payload!Absent THEN Payload!Undef ELSE Carries("name")
      /\ Payload!Get(doc.top, "groupUlid") = "group"
      /\ Payload!Get(doc.top, "body") = IF style["body"] = Payload!Absent THEN "" ELSE "body"
  BY <1>1, <1>3, ChatDecoded
<1>5. Payload!View = [
        id |-> Payload!Get(doc.top, "id"), owner |-> Payload!Get(doc.top, "userId"),
        name |-> Payload!Get(doc.top, "senderName"), group |-> Payload!Get(doc.top, "groupUlid"),
        body |-> Payload!Get(doc.top, "body")]
  BY DEF Payload!View, Payload!Small
<1>6. /\ Payload!Carried("id") = Carries("id") /\ Payload!Carried("owner") = Carries("owner")
      /\ Payload!Carried("name") =
           IF style["owner"] = Payload!Absent THEN Payload!Undef ELSE Carries("name")
      /\ Payload!Carried("group") = "group"
      /\ Payload!Carried("body") = IF style["body"] = Payload!Absent THEN "" ELSE "body"
  BY Carried DEF Carries
<1> DEFINE fields == {"id", "owner", "name", "group", "body"}
           shown == [id |-> Payload!Get(doc.top, "id"), owner |-> Payload!Get(doc.top, "userId"),
                     name |-> Payload!Get(doc.top, "senderName"),
                     group |-> Payload!Get(doc.top, "groupUlid"),
                     body |-> Payload!Get(doc.top, "body")]
<1>7. /\ DOMAIN shown = fields
      /\ shown["id"] = Payload!Get(doc.top, "id")
      /\ shown["owner"] = Payload!Get(doc.top, "userId")
      /\ shown["name"] = Payload!Get(doc.top, "senderName")
      /\ shown["group"] = Payload!Get(doc.top, "groupUlid")
      /\ shown["body"] = Payload!Get(doc.top, "body")
  OBVIOUS
<1>8. Payload!View = shown
  BY <1>5
<1> HIDE DEF shown
<1>9. \A f \in fields : shown[f] = Payload!Carried(f)
  <2>1. shown["id"] = Payload!Carried("id")
    BY <1>4, <1>6, <1>7
  <2>2. shown["owner"] = Payload!Carried("owner")
    BY <1>4, <1>6, <1>7
  <2>3. shown["name"] = Payload!Carried("name")
    BY <1>4, <1>6, <1>7
  <2>4. shown["group"] = Payload!Carried("group")
    BY <1>4, <1>6, <1>7
  <2>5. shown["body"] = Payload!Carried("body")
    BY <1>4, <1>6, <1>7
  <2> QED
    BY <2>1, <2>2, <2>3, <2>4, <2>5
<1> QED
  BY <1>7, <1>8, <1>9

\* Token replies.
LEMMA TokensRound ==
    ASSUME SentInv, kind = "tokens"
    PROVE  Payload!RoundTrip
<1>1. stage \notin {"again", "merged"}
  BY DEF SentInv
<1>2. PICK where \in {"top", "data"} : TokensStyled(where)
  BY DEF SentInv, Styled, Payload!Small
<1>3. SUFFICES ASSUME stage = "normal"
               PROVE  \A f \in DOMAIN Payload!View : Payload!View[f] = Payload!Carried(f)
  BY <1>1 DEF Payload!RoundTrip
<1>4. doc = Payload!ExtractAuthTokens(Payload!Sent(style))
  BY <1>3 DEF SentInv, Read, Payload!Normal
<1>5. /\ Payload!Get(doc.top, "accessToken") = Carries("access")
      /\ Payload!Get(doc.top, "refreshToken") = Carries("refresh")
      /\ Payload!Get(doc.top, "expiresAt") =
           IF style["seconds"] # Payload!Absent THEN "expiry" ELSE Carries("expiry")
  BY <1>2, <1>4, TokensDecoded
<1>6. Payload!View = [
        access |-> Payload!Get(doc.top, "accessToken"),
        refresh |-> Payload!Get(doc.top, "refreshToken"),
        expiry |-> Payload!Get(doc.top, "expiresAt")]
  BY DEF Payload!View, Payload!Small
<1>7. /\ Payload!Carried("access") = Carries("access")
      /\ Payload!Carried("refresh") = Carries("refresh")
      /\ Payload!Carried("expiry") =
           IF style["seconds"] # Payload!Absent THEN "expiry" ELSE Carries("expiry")
  BY Carried
<1> QED
  BY <1>5, <1>6, <1>7

\* The current user.
LEMMA CurrentRounds ==
    ASSUME SentInv, kind = "current"
    PROVE  Payload!RoundTrip
<1>1. CurrentStyled /\ stage \notin {"again", "merged"}
  BY DEF SentInv, Styled, Payload!Small
<1>2. SUFFICES ASSUME stage = "normal"
               PROVE  \A f \in DOMAIN Payload!View : Payload!View[f] = Payload!Carried(f)
  BY <1>1 DEF Payload!RoundTrip
<1>3. doc = Payload!CurrentUser(Payload!Sent(style))
  BY <1>2 DEF SentInv, Read, Payload!Normal
<1>4. /\ Payload!Get(doc.top, "displayName") = Carries("name")
      /\ Payload!Get(doc.top, "badges") = Carries("badge")
  BY <1>1, <1>3, CurrentDecoded
<1>5. Payload!View = [name |-> Payload!Get(doc.top, "displayName"),
                      badge |-> Payload!Get(doc.top, "badges")]
  BY DEF Payload!View, Payload!Small
<1>6. Payload!Carried("name") = Carries("name") /\ Payload!Carried("badge") = Carries("badge")
  BY Carried
<1> QED
  BY <1>4, <1>5, <1>6

\* Hashtags, counts, entitlements and locations.
LEMMA SmallRounds ==
    ASSUME SentInv, kind \in Payload!Small
    PROVE  Payload!RoundTrip
<1>1. stage \notin {"again", "merged"}
  BY DEF SentInv, Payload!Small
<1>2. PICK where \in {"top", "data"} : SmallStyled(where)
  BY DEF SentInv, Styled, Payload!Small
<1>3. SUFFICES ASSUME stage = "normal"
               PROVE  \A f \in DOMAIN Payload!View : Payload!View[f] = Payload!Carried(f)
  BY <1>1 DEF Payload!RoundTrip
<1>4. doc = Read
  BY <1>3 DEF SentInv
<1>5. CASE kind = "hashtags"
  <2>1. doc = Payload!Hashtags(Payload!Sent(style))
    BY <1>4, <1>5 DEF Read, Payload!Normal
  <2>2. Payload!View = [items |-> Payload!Get(doc.top, "items")]
    BY <1>5 DEF Payload!View, Payload!Small
  <2> QED
    BY <1>2, <1>5, <2>1, <2>2, HashtagsDecoded, Carried
<1>6. CASE kind = "unread"
  <2>1. doc = Payload!UnreadCount(Payload!Sent(style))
    BY <1>4, <1>6 DEF Read, Payload!Normal
  <2>2. Payload!View = [count |-> Payload!Get(doc.top, "unreadCount")]
    BY <1>6 DEF Payload!View, Payload!Small
  <2> QED
    BY <1>2, <1>6, <2>1, <2>2, UnreadDecoded, Carried
<1>7. CASE kind = "entitlements"
  <2>1. doc = Payload!ArtistEntitlements(Payload!Sent(style))
    BY <1>4, <1>7 DEF Read, Payload!Normal
  <2>2. Payload!View = [f \in DOMAIN style |-> Payload!Get(doc.top, "songsLimit")]
    BY <1>7 DEF Payload!View, Payload!Small
  <2> QED
    BY <1>2, <1>7, <2>1, <2>2, EntitlementsDecoded, Carried
<1>8. CASE kind = "location"
  <2>1. doc = Payload!Location(Payload!Sent(style))
    BY <1>4, <1>8 DEF Read, Payload!Normal
  <2>2. Payload!View = [latitude |-> Payload!Get(doc.top, "latitude"),
                        longitude |-> Payload!Get(doc.top, "longitude")]
    BY <1>8 DEF Payload!View, Payload!Small
  <2>3. \A f \in {"latitude", "longitude"} : Payload!Get(doc.top, f) =
          IF \E g \in DOMAIN style : style[g] = Payload!Absent THEN Payload!Undef ELSE f
    BY <1>2, <1>8, <2>1, LocationDecoded
  <2>4. \A f \in {"latitude", "longitude"} : Payload!Carried(f) =
          IF \E g \in DOMAIN style : style[g] = Payload!Absent THEN Payload!Undef ELSE f
    <3>1. DOMAIN style = {"latitude", "longitude"}
      BY <1>2, <1>8, SmallPlaces
    <3> QED BY <1>8, <3>1, Carried DEF Carries
  <2> QED
    BY <2>2, <2>3, <2>4
<1> QED
  BY <1>5, <1>6, <1>7, <1>8 DEF Payload!Small

\* Whatever keys the API chose, the page reads each field where the SDK puts it, and
\* nothing under a field that was sent for another: as received, from the cache, and
\* after an engagement answer was merged in, which may only bring a newer reaction.
THEOREM RoundTripAlways ==
    ClientSpec => []RoundTrip
<1> DEFINE Inv == part = "payload" => PayloadInv /\ SentInv
<1>1. ClientInit => Inv
  <2> SUFFICES ASSUME ClientInit, part = "payload" PROVE PayloadInv /\ SentInv
    OBVIOUS
  <2>1. Payload!Init
    BY DEF ClientInit
  <2> QED
    BY <2>1, PayloadHolds, StyledAtFirst DEF SentInv, Payload!Init
<1>2. Inv /\ [ClientNext]_allVars => Inv'
  <2> SUFFICES ASSUME Inv, [ClientNext]_allVars, part = "payload"
               PROVE  PayloadInv' /\ SentInv'
    BY PayloadStep
  <2>1. PayloadInv /\ SentInv /\ [Payload!Next]_Payload!vars
    BY PayloadStep
  <2>2. CASE UNCHANGED Payload!vars
    <3>1. UNCHANGED <<kind, style, doc, stage>>
      BY <2>2 DEF Payload!vars
    <3>2. \A f \in DOMAIN PostCarries : (PostShows(doc)[f])' = PostShows(doc)[f]
      BY <3>1 DEF PostShows
    <3> QED
      BY <2>1, <3>1, <3>2, PayloadHolds, StaysStyled DEF SentInv
  <2> QED
    BY <2>1, <2>2, PayloadHolds, SentDecodes, SentDecodesAgain, SentPolls DEF Payload!Next
<1>3. Inv => RoundTrip
  <2>1. SentInv => Payload!RoundTrip
    BY PostRounds, UserRounds, MessageRounds, TokensRound, CurrentRounds, SmallRounds
       DEF SentInv, Styled
  <2> QED BY <2>1 DEF RoundTrip
<1> QED
  BY <1>1, <1>2, <1>3, PTL DEF ClientSpec

-----------------------------------------------------------------------------
\* The parts together.

\* Every part keeps its types, whichever of them moves, for any tabs, requests,
\* callers, lists and bounds.
THEOREM PartsTypeCorrect ==
    ASSUME Bounds
    PROVE  ClientSpec => []PartsTypeOK
<1>1. /\ part = "payload" => Payload!TypeOK
      /\ part = "paging" => Paging!TypeOK
      /\ part = "writing" => Writing!TypeOK
      /\ part = "identity" => Acting!TypeOK
      => PartsTypeOK
  BY DEF PartsTypeOK
<1> QED
  BY <1>1, PayloadTypeCorrect, PagingTypeCorrect, WritingTypeCorrect, IdentityTypeCorrect, PTL
=============================================================================
