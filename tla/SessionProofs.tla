---------------------------- MODULE SessionProofs ----------------------------
(***************************************************************************)
(* Proofs about Session, for every number of instances, calls, stores and  *)
(* accounts, every placement of them, and every bound.                     *)
(***************************************************************************)
EXTENDS Session, TLAPS

USE DEF At, MayRefresh, SameEpoch, Adoptable, MorePolls, RaiseFence

-----------------------------------------------------------------------------
\* Type correctness

\* An instance counts every sign-out it was told of, and no more than the bound.
EpochBound == \A t \in Tabs : epoch[t] + mail[t] \in 0..MaxEpoch

Typed == TypeOK /\ EpochBound

(* The states a call moves between: Idle, and a state with some fields replaced. *)
LEMMA IdleType == Idle \in OpState
  BY BoundsAssumption DEF Idle, OpState, PCs, OpKinds, Maybe

LEMMA MoveType ==
  ASSUME NEW o \in OpState, NEW c \in PCs, NEW g \in Maybe, NEW h \in Maybe
  PROVE  /\ [o EXCEPT !.pc = c] \in OpState
         /\ [o EXCEPT !.pc = c, !.got = g] \in OpState
         /\ [o EXCEPT !.pc = c, !.held = h] \in OpState
         /\ [o EXCEPT !.pc = c, !.held = h, !.got = g] \in OpState
  BY DEF OpState

LEMMA StartType ==
  ASSUME NEW c \in PCs, NEW k \in OpKinds \cup {"none"}, NEW h \in Maybe, NEW g \in Maybe,
         NEW e \in 0..MaxEpoch, NEW f \in 0..MaxEpoch
  PROVE  /\ [Idle EXCEPT !.pc = c, !.kind = k] \in OpState
         /\ [Idle EXCEPT !.pc = c, !.kind = k, !.held = h] \in OpState
         /\ [Idle EXCEPT !.pc = c, !.kind = k, !.e0 = e] \in OpState
         /\ [Idle EXCEPT !.pc = c, !.kind = k, !.e0 = e, !.held = h] \in OpState
         /\ [Idle EXCEPT !.pc = c, !.kind = k, !.e0 = e, !.eu = f, !.got = g] \in OpState
  <1> HIDE DEF Idle
  <1> QED BY IdleType DEF OpState

LEMMA ReturnType ==
  ASSUME TypeOK, NEW p \in Ops, Return(p)
  PROVE  op' \in [Ops -> OpState] /\ slot' \in [Tabs -> Ops \cup {None}]
  BY IdleType DEF TypeOK, Return

LEMMA SetTokensType ==
  ASSUME TypeOK, NEW t \in Tabs, NEW s \in Maybe, SetTokens(t, s)
  PROVE  /\ tok' \in [Tabs -> Maybe]
         /\ unfencing' \in [Tabs -> BOOLEAN]
         /\ installedAt' \in [Tabs -> 0..MaxEpoch]
  BY DEF TypeOK, SetTokens

LEMMA OpFields ==
  ASSUME TypeOK, NEW p \in Ops
  PROVE  /\ TabOf[p] \in Tabs /\ StoreOf[TabOf[p]] \in Stores
         /\ tok[TabOf[p]] \in Maybe /\ store[StoreOf[TabOf[p]]] \in Maybe
         /\ epoch[TabOf[p]] \in 0..MaxEpoch
         /\ op[p] \in OpState
         /\ op[p].held \in Maybe /\ op[p].got \in Maybe
         /\ op[p].kind \in OpKinds \cup {"none"} /\ op[p].e0 \in 0..MaxEpoch
  BY TabsAssumption, StoresAssumption DEF TypeOK, OpState

LEMMA BeginUpdateType ==
  ASSUME TypeOK, NEW p \in Ops, NEW s \in Maybe, BeginUpdate(p, s)
  PROVE  /\ op' \in [Ops -> OpState] /\ tok' \in [Tabs -> Maybe]
         /\ unfencing' \in [Tabs -> BOOLEAN] /\ installedAt' \in [Tabs -> 0..MaxEpoch]
  <1>1. TabOf[p] \in Tabs
    BY OpFields
  <1>2. SetTokens(TabOf[p], s)
    BY DEF BeginUpdate
  <1>3. "save" \in PCs
    BY DEF PCs
  <1>4. [Idle EXCEPT !.pc = "save", !.kind = op[p].kind, !.e0 = op[p].e0,
                     !.eu = epoch[TabOf[p]], !.got = s] \in OpState
    BY <1>3, OpFields, StartType
  <1>5. op' \in [Ops -> OpState]
    BY <1>4 DEF BeginUpdate, TypeOK
  <1> QED BY <1>1, <1>2, <1>5, SetTokensType

LEMMA BeginClearType ==
  ASSUME TypeOK, NEW p \in Ops, BeginClear(p)
  PROVE  /\ op' \in [Ops -> OpState] /\ tok' \in [Tabs -> Maybe]
         /\ unfencing' \in [Tabs -> BOOLEAN] /\ installedAt' \in [Tabs -> 0..MaxEpoch]
  <1>1. TabOf[p] \in Tabs /\ None \in Maybe
    BY OpFields DEF Maybe
  <1>2. SetTokens(TabOf[p], None)
    BY DEF BeginClear
  <1>3. "clear" \in PCs
    BY DEF PCs
  <1>4. [Idle EXCEPT !.pc = "clear", !.kind = op[p].kind, !.e0 = op[p].e0] \in OpState
    BY <1>3, OpFields, StartType
  <1>5. op' \in [Ops -> OpState]
    BY <1>4 DEF BeginClear, TypeOK
  <1> QED BY <1>1, <1>2, <1>5, SetTokensType

\* Goto(p, c) and its like: the call moves, nothing else about it is decided.
LEMMA GotoType ==
  ASSUME TypeOK, NEW p \in Ops, NEW c \in PCs, NEW g \in Maybe, NEW h \in Maybe,
         \/ op' = [op EXCEPT ![p].pc = c]
         \/ op' = [op EXCEPT ![p].pc = c, ![p].got = g]
         \/ op' = [op EXCEPT ![p].pc = c, ![p].held = h]
         \/ op' = [op EXCEPT ![p].pc = c, ![p].held = h, ![p].got = g]
  PROVE  op' \in [Ops -> OpState]
  <1>1. op[p] \in OpState
    BY OpFields
  <1>2. ASSUME NEW r \in OpState, op' = [op EXCEPT ![p] = r]
        PROVE  op' \in [Ops -> OpState]
    BY <1>2 DEF TypeOK
  <1>3. CASE op' = [op EXCEPT ![p].pc = c]
    <2>1. [op[p] EXCEPT !.pc = c] \in OpState
      BY <1>1, MoveType
    <2>2. op' = [op EXCEPT ![p] = [op[p] EXCEPT !.pc = c]]
      BY <1>3 DEF TypeOK
    <2> QED BY <2>1, <2>2, <1>2
  <1>4. CASE op' = [op EXCEPT ![p].pc = c, ![p].got = g]
    <2>1. [op[p] EXCEPT !.pc = c, !.got = g] \in OpState
      BY <1>1, MoveType
    <2>2. op' = [op EXCEPT ![p] = [op[p] EXCEPT !.pc = c, !.got = g]]
      BY <1>4 DEF TypeOK
    <2> QED BY <2>1, <2>2, <1>2
  <1>5. CASE op' = [op EXCEPT ![p].pc = c, ![p].held = h]
    <2>1. [op[p] EXCEPT !.pc = c, !.held = h] \in OpState
      BY <1>1, MoveType
    <2>2. op' = [op EXCEPT ![p] = [op[p] EXCEPT !.pc = c, !.held = h]]
      BY <1>5 DEF TypeOK
    <2> QED BY <2>1, <2>2, <1>2
  <1>6. CASE op' = [op EXCEPT ![p].pc = c, ![p].held = h, ![p].got = g]
    <2>1. [op[p] EXCEPT !.pc = c, !.held = h, !.got = g] \in OpState
      BY <1>1, MoveType
    <2>2. op' = [op EXCEPT ![p] = [op[p] EXCEPT !.pc = c, !.held = h, !.got = g]]
      BY <1>6 DEF TypeOK
    <2> QED BY <2>1, <2>2, <1>2
  <1> QED BY <1>3, <1>4, <1>5, <1>6

LEMMA BecomeType ==
  ASSUME TypeOK, NEW p \in Ops, NEW r \in OpState, op' = [op EXCEPT ![p] = r]
  PROVE  op' \in [Ops -> OpState]
  BY DEF TypeOK

LEMMA DefinitiveType ==
  ASSUME TypeOK, NEW p \in Ops, Definitive(p)
  PROVE  /\ op' \in [Ops -> OpState] /\ tok' \in [Tabs -> Maybe]
         /\ unfencing' \in [Tabs -> BOOLEAN] /\ installedAt' \in [Tabs -> 0..MaxEpoch]
         /\ slot' \in [Tabs -> Ops \cup {None}]
  <1>1. CASE epoch[TabOf[p]] = op[p].e0
    BY <1>1, BeginClearType DEF Definitive, TypeOK
  <1>2. CASE epoch[TabOf[p]] # op[p].e0
    BY <1>2, ReturnType DEF Definitive, TypeOK
  <1> QED BY <1>1, <1>2

LEMMA LoginsType ==
  ASSUME NEW s \in Maybe
  PROVE  Logins(s) \in SUBSET (1..MaxLogin)
  <1>1. CASE s = None
    BY <1>1 DEF Logins
  <1>2. CASE s \in Session
    <2>1. s.login \in 1..MaxLogin /\ s.bearer \in Bearer \cup {None}
      BY <1>2 DEF Session
    <2>2. \A b \in {s.bearer} \ {None} : b.login \in 1..MaxLogin
      BY <2>1 DEF Bearer
    <2> QED BY <2>1, <2>2 DEF Logins
  <1> QED BY <1>1, <1>2 DEF Maybe

LEMMA StrayedType ==
  ASSUME TypeOK, NEW t \in Tabs, Kept(t) \/ \E s : Strays(t, s)
  PROVE  strayed' \in [Tabs -> SUBSET (1..MaxLogin)]
  <1>1. /\ strayed \in [Tabs -> SUBSET (1..MaxLogin)] /\ ended[t] \in SUBSET (1..MaxLogin)
        /\ strayed[t] \in SUBSET (1..MaxLogin)
    BY DEF TypeOK
  <1>2. CASE Kept(t)
    BY <1>1, <1>2 DEF Kept
  <1>3. ASSUME NEW s, Strays(t, s)
        PROVE  strayed' \in [Tabs -> SUBSET (1..MaxLogin)]
    BY <1>1, <1>3 DEF Strays
  <1> QED BY <1>2, <1>3

LEMMA BeginSignOutType ==
  ASSUME Typed, NEW p \in Ops, BeginSignOut(p)
  PROVE  /\ epoch' \in [Tabs -> 0..MaxEpoch] /\ mail' \in [Tabs -> 0..MaxEpoch]
         /\ EpochBound'
         /\ signingOut' \in [Tabs -> BOOLEAN] /\ fencing' \in [Tabs -> BOOLEAN]
         /\ unfencing' \in [Tabs -> BOOLEAN] /\ ended' \in [Tabs -> SUBSET (1..MaxLogin)]
         /\ strayed' = strayed
  <1> DEFINE t == TabOf[p]
  <1>1. t \in Tabs /\ Logins(tok[t]) \in SUBSET (1..MaxLogin)
    BY OpFields, LoginsType DEF Typed
  <1>2. \A u \in Tabs : epoch[u] + mail[u] < MaxEpoch
    BY <1>1 DEF BeginSignOut
  <1>3. \A u \in Tabs : /\ epoch'[u] = IF u = t THEN epoch[u] + 1 ELSE epoch[u]
                        /\ mail'[u] = IF u = t THEN mail[u] ELSE mail[u] + 1
    BY DEF BeginSignOut, Typed, TypeOK
  <1>4. \A u \in Tabs : /\ epoch'[u] \in 0..MaxEpoch /\ mail'[u] \in 0..MaxEpoch
                        /\ epoch'[u] + mail'[u] \in 0..MaxEpoch
    BY <1>1, <1>2, <1>3, BoundsAssumption DEF Typed, TypeOK
  <1>5. epoch' \in [Tabs -> 0..MaxEpoch] /\ mail' \in [Tabs -> 0..MaxEpoch] /\ EpochBound'
    <2>1. epoch' = [u \in Tabs |-> epoch'[u]] /\ mail' = [u \in Tabs |-> mail'[u]]
      BY DEF BeginSignOut, Typed, TypeOK
    <2> QED BY <1>4, <2>1 DEF EpochBound
  <1> QED BY <1>1, <1>5 DEF BeginSignOut, Typed, TypeOK

LEMMA StartStepType ==
  ASSUME Typed, NEW p \in Ops, Start(p)
  PROVE  Typed'
  <1> USE DEF Typed
  <1>0. /\ TabOf[p] \in Tabs /\ tok[TabOf[p]] \in Maybe /\ epoch[TabOf[p]] \in 0..MaxEpoch
        /\ None \in Maybe
    BY OpFields DEF Maybe
  <1>a. /\ {"load", "login", "clear", "settle", "delete"} \subseteq PCs
        /\ OpKinds = {"refresh", "restore", "login", "clear", "logout", "delete"}
    BY DEF PCs, OpKinds
  <1>1. CASE StartRestore(p)
    <2>1. [Idle EXCEPT !.pc = "load", !.kind = "restore", !.held = tok[TabOf[p]]] \in OpState
      BY <1>0, <1>a, StartType
    <2>2. op' \in [Ops -> OpState]
      BY <1>1, <2>1, BecomeType DEF StartRestore
    <2> QED BY <1>1, <2>2 DEF StartRestore, TypeOK, EpochBound, sdkVars, serverVars
  <1>2. CASE StartRefresh(p)
    <2>1. [Idle EXCEPT !.pc = "load", !.kind = "refresh", !.e0 = epoch[TabOf[p]],
                       !.held = tok[TabOf[p]]] \in OpState
      BY <1>0, <1>a, StartType
    <2>2. op' \in [Ops -> OpState]
      BY <1>2, <2>1, BecomeType DEF StartRefresh
    <2> QED BY <1>0, <1>2, <2>2 DEF StartRefresh, TypeOK, EpochBound, serverVars
  <1>3. CASE StartLogin(p)
    <2>1. [Idle EXCEPT !.pc = "login", !.kind = "login"] \in OpState
      BY <1>0, <1>a, StartType, BoundsAssumption
    <2>2. op' \in [Ops -> OpState]
      BY <1>3, <2>1, BecomeType DEF StartLogin
    <2> QED BY <1>3, <2>2 DEF StartLogin, TypeOK, EpochBound, sdkVars, serverVars
  <1>4. CASE StartClear(p)
    <2>1. [Idle EXCEPT !.pc = "clear", !.kind = "clear"] \in OpState
      BY <1>0, <1>a, StartType, BoundsAssumption
    <2>2. op' \in [Ops -> OpState]
      BY <1>4, <2>1, BecomeType DEF StartClear
    <2>3. SetTokens(TabOf[p], None)
      BY <1>4 DEF StartClear
    <2>4. /\ tok' \in [Tabs -> Maybe] /\ unfencing' \in [Tabs -> BOOLEAN]
          /\ installedAt' \in [Tabs -> 0..MaxEpoch]
      BY <1>0, <2>3, SetTokensType
    <2> QED BY <1>4, <2>2, <2>4 DEF StartClear, TypeOK, EpochBound, serverVars
  <1>5. CASE StartLogout(p)
    <2>1. [Idle EXCEPT !.pc = "settle", !.kind = "logout"] \in OpState
      BY <1>0, <1>a, StartType, BoundsAssumption
    <2>2. op' \in [Ops -> OpState]
      BY <1>5, <2>1, BecomeType DEF StartLogout
    <2>3. BeginSignOut(p)
      BY <1>5 DEF StartLogout
    <2>4. /\ epoch' \in [Tabs -> 0..MaxEpoch] /\ mail' \in [Tabs -> 0..MaxEpoch]
          /\ EpochBound'
          /\ signingOut' \in [Tabs -> BOOLEAN] /\ fencing' \in [Tabs -> BOOLEAN]
          /\ unfencing' \in [Tabs -> BOOLEAN] /\ ended' \in [Tabs -> SUBSET (1..MaxLogin)]
          /\ strayed' = strayed
      BY <2>3, BeginSignOutType
    <2> QED BY <1>5, <2>2, <2>4 DEF StartLogout, TypeOK, serverVars
  <1>6. CASE StartDelete(p)
    <2>1. [Idle EXCEPT !.pc = "delete", !.kind = "delete", !.held = tok[TabOf[p]]] \in OpState
      BY <1>0, <1>a, StartType
    <2>2. op' \in [Ops -> OpState]
      BY <1>6, <2>1, BecomeType DEF StartDelete
    <2> QED BY <1>6, <2>2 DEF StartDelete, TypeOK, EpochBound, sdkVars, serverVars
  <1> QED BY <1>1, <1>2, <1>3, <1>4, <1>5, <1>6 DEF Start

\* Closes a step that changes nothing but op and, through Return, slot.
LEMMA OnlyReturns ==
  ASSUME Typed, NEW p \in Ops, Return(p),
         UNCHANGED <<store, late, mail, reloads, tok, epoch, remoteOut, fence, fencing, unfencing,
                     ended, installedAt, issued, logins>>,
         strayed' \in [Tabs -> SUBSET (1..MaxLogin)],
         signingOut' \in [Tabs -> BOOLEAN], live' \in SUBSET (1..MaxGrant), cookie' \in Maybe
  PROVE  Typed'
  <1>1. op' \in [Ops -> OpState] /\ slot' \in [Tabs -> Ops \cup {None}]
    BY ReturnType DEF Typed
  <1> QED BY <1>1 DEF Typed, TypeOK, EpochBound

(* A session in its parts, and with another bearer. *)
LEMMA SessionFields ==
  ASSUME NEW s \in Session
  PROVE  /\ s \in [user : Users, login : 1..MaxLogin, grant : 1..MaxGrant, bearer : Bearer \cup {None}]
         /\ s # None
         /\ ~RefreshOnly => s.bearer = [user |-> s.user, login |-> s.login] /\ s.bearer # None
  <1>1. s \in [user : Users, login : 1..MaxLogin, grant : 1..MaxGrant, bearer : Bearer \cup {None}]
    BY DEF Session
  <1>2. s # None
    BY <1>1, NoneAssumption DEF Bearer
  <1>3. [user |-> s.user, login |-> s.login] # None
    BY <1>1, NoneAssumption
  <1> QED BY <1>1, <1>2, <1>3 DEF Session

LEMMA BearerType ==
  ASSUME RefreshOnly, NEW s \in Session, NEW b \in Bearer \cup {None}
  PROVE  /\ [s EXCEPT !.bearer = b] \in Session
         /\ [s EXCEPT !.bearer = b].login = s.login /\ [s EXCEPT !.bearer = b].bearer = b
  BY SessionFields DEF Session

LEMMA StoredType ==
  ASSUME NEW s \in Maybe
  PROVE  Stored(s) \in Maybe
  <1>1. CASE ~RefreshOnly \/ s = None
    BY <1>1 DEF Stored
  <1>2. CASE RefreshOnly /\ s \in Session
    <2>1. Stored(s) = [s EXCEPT !.bearer = None]
      BY <1>2, SessionFields DEF Stored
    <2> QED BY <1>2, <2>1, BearerType DEF Maybe
  <1> QED BY <1>1, <1>2 DEF Maybe

LEMMA StoreStepType ==
  ASSUME Typed, NEW p \in Ops, StoreStep(p)
  PROVE  Typed'
  <1> USE DEF Typed
  <1>0. /\ TabOf[p] \in Tabs /\ StoreOf[TabOf[p]] \in Stores /\ None \in Maybe
        /\ store[StoreOf[TabOf[p]]] \in Maybe /\ op[p].got \in Maybe
    BY OpFields DEF Maybe
  <1>a. {"loaded", "saved", "wipeCache"} \subseteq PCs
    BY DEF PCs
  <1>b. ASSUME Kept(TabOf[p])
        PROVE  strayed' \in [Tabs -> SUBSET (1..MaxLogin)]
    BY <1>0, <1>b, StrayedType
  <1>1. CASE LoadRead(p)
    <2>1. op' \in [Ops -> OpState]
      BY <1>0, <1>a, <1>1, GotoType DEF LoadRead
    <2> QED BY <1>1, <2>1 DEF LoadRead, TypeOK, EpochBound, sdkVars, serverVars
  <1>2. CASE SaveLands(p)
    <2>1. op' \in [Ops -> OpState]
      BY <1>0, <1>a, <1>2, GotoType DEF SaveLands
    <2>2. Stored(op[p].got) \in Maybe
      BY <1>0, StoredType
    <2> QED BY <1>0, <1>2, <2>1, <2>2 DEF SaveLands, TypeOK, EpochBound, sdkVars, serverVars
  <1>3. CASE StoreRefuses(p)
    <2>1. strayed' \in [Tabs -> SUBSET (1..MaxLogin)]
      BY <1>3, <1>b DEF StoreRefuses, TypeOK
    <2> QED BY <1>3, <2>1, OnlyReturns DEF StoreRefuses, serverVars, TypeOK
  <1>4. CASE ClearLands(p)
    <2>1. op' \in [Ops -> OpState] /\ slot' \in [Tabs -> Ops \cup {None}]
      BY <1>4, ReturnType DEF ClearLands
    <2> QED BY <1>0, <1>4, <2>1 DEF ClearLands, TypeOK, EpochBound, serverVars
  <1>5. CASE WipeLands(p)
    <2>1. op' \in [Ops -> OpState]
      BY <1>0, <1>a, <1>5, GotoType DEF WipeLands, Goto
    <2> QED BY <1>0, <1>5, <2>1 DEF WipeLands, TypeOK, EpochBound, sdkVars, serverVars
  <1>6. CASE WipeFails(p)
    <2>1. op' \in [Ops -> OpState]
      BY <1>0, <1>a, <1>6, GotoType DEF WipeFails, Goto
    <2>2. strayed' \in [Tabs -> SUBSET (1..MaxLogin)]
      BY <1>6, <1>b DEF WipeFails
    <2> QED BY <1>6, <2>1, <2>2 DEF WipeFails, TypeOK, EpochBound, serverVars
  <1> QED BY <1>1, <1>2, <1>3, <1>4, <1>5, <1>6 DEF StoreStep

LEMMA KeyType ==
  ASSUME TypeOK, NEW p \in Ops
  PROVE  Key(p) \in Maybe
  BY OpFields DEF Key, TypeOK

LEMMA PairType ==
  ASSUME NEW u \in Users, NEW l \in 1..MaxLogin, NEW g \in 1..MaxGrant
  PROVE  /\ Pair(u, l, g) \in Session
         /\ Pair(u, l, g).user = u /\ Pair(u, l, g).login = l /\ Pair(u, l, g).grant = g
         /\ Logins(Pair(u, l, g)) = {l}
  <1>1. Pair(u, l, g) = [user |-> u, login |-> l, grant |-> g, bearer |-> [user |-> u, login |-> l]]
    BY DEF Pair
  <1>2. [user |-> u, login |-> l] \in Bearer
    BY DEF Bearer
  <1>3. Pair(u, l, g) \in [user : Users, login : 1..MaxLogin, grant : 1..MaxGrant, bearer : Bearer \cup {None}]
    BY <1>1, <1>2
  <1>5. Pair(u, l, g) \in Session
    BY <1>1, <1>3 DEF Session
  <1>4. Pair(u, l, g) # None /\ Pair(u, l, g).bearer # None
    BY <1>1, NoneAssumption
  <1> QED BY <1>1, <1>4, <1>5 DEF Logins

LEMMA ServerType ==
  ASSUME Typed, NEW p \in Ops, Server(p)
  PROVE  Typed'
  <1> USE DEF Typed
  <1>0. /\ TabOf[p] \in Tabs /\ Session \subseteq Maybe /\ None \in Maybe /\ issued \in Nat
    BY OpFields, BoundsAssumption DEF Maybe, TypeOK
  <1>a. {"granted", "offline", "invalid_grant", "unauthenticated", "unavailable", "blip"} \subseteq PCs
    BY DEF PCs
  <1>1. CASE ServerRotates(p)
    <2> DEFINE new == Pair(Key(p).user, Key(p).login, issued + 1)
    <2>1. Key(p) \in Session /\ issued + 1 \in 1..MaxGrant
      BY <1>0, <1>1, KeyType, BoundsAssumption DEF ServerRotates, Valid, Maybe, TypeOK
    <2>2. new \in Session /\ new.grant = issued + 1
      <3>1. Key(p).user \in Users /\ Key(p).login \in 1..MaxLogin
        BY <2>1, SessionFields
      <3> QED BY <2>1, <3>1, PairType
    <2>3. new.grant = issued + 1 /\ new \in Maybe
      BY <2>2, <1>0
    <2>6. live' = (live \ {Key(p).grant}) \cup {new.grant} /\ issued' = issued + 1
          /\ cookie' = IF CookieMode THEN new ELSE cookie
      BY <1>1 DEF ServerRotates
    <2> HIDE DEF new
    <2>4. op' \in [Ops -> OpState]
      <3>1. CASE op' = [op EXCEPT ![p].pc = "granted", ![p].got = new]
        BY <3>1, <2>3, <1>a, GotoType
      <3>2. CASE \E answer \in {"offline", "unavailable", "blip"} : Goto(p, answer)
        BY <3>2, <1>0, <1>a, GotoType DEF Goto
      <3> QED BY <1>1, <3>1, <3>2 DEF ServerRotates, new
    <2>5. live' \in SUBSET (1..MaxGrant) /\ issued' \in 0..MaxGrant /\ cookie' \in Maybe
      <3>1. live' \subseteq 1..MaxGrant
        BY <2>1, <2>3, <2>6 DEF TypeOK
      <3>2. issued + 1 \in 0..MaxGrant
        BY <1>0, <2>1, BoundsAssumption
      <3>3. cookie' \in Maybe
        BY <2>3, <2>6 DEF TypeOK
      <3> QED BY <2>6, <3>1, <3>2, <3>3
    <2> QED BY <1>1, <2>4, <2>5 DEF ServerRotates, TypeOK, EpochBound, sdkVars
  <1>2. CASE ServerRejects(p)
    <2>1. op' \in [Ops -> OpState]
      BY <1>2, <1>0, <1>a, RejectionsAssumption, GotoType DEF ServerRejects, Goto
    <2> QED BY <1>2, <2>1 DEF ServerRejects, TypeOK, EpochBound, sdkVars, serverVars
  <1>3. CASE NetworkFails(p)
    <2>1. op' \in [Ops -> OpState]
      BY <1>3, <1>0, <1>a, GotoType DEF NetworkFails, Goto
    <2> QED BY <1>3, <2>1 DEF NetworkFails, TypeOK, EpochBound, sdkVars, serverVars
  <1>4. CASE ServerLogsIn(p)
    <2>1. issued + 1 \in 1..MaxGrant /\ logins + 1 \in 1..MaxLogin
      BY <1>4, BoundsAssumption DEF ServerLogsIn, TypeOK
    <2>2. PICK u \in Accounts[TabOf[p]] :
            /\ op' = [op EXCEPT ![p].pc = "granted",
                                ![p].got = Pair(u, logins + 1, issued + 1)]
            /\ cookie' = IF CookieMode
                         THEN Pair(u, logins + 1, issued + 1) ELSE cookie
      BY <1>4 DEF ServerLogsIn
    <2>3. Pair(u, logins + 1, issued + 1) \in Maybe
      BY <1>0, <2>1, <2>2, PairType, AccountsAssumption
    <2>4. op' \in [Ops -> OpState]
      BY <2>2, <2>3, <1>a, <1>0, GotoType
    <2>5. /\ live' \in SUBSET (1..MaxGrant) /\ issued' \in 0..MaxGrant /\ logins' \in 0..MaxLogin
          /\ cookie' \in Maybe
      BY <1>4, <2>1, <2>2, <2>3, BoundsAssumption DEF ServerLogsIn, TypeOK
    <2> QED BY <1>4, <2>4, <2>5 DEF ServerLogsIn, TypeOK, EpochBound, sdkVars
  <1>5. CASE LoginFails(p)
    BY <1>5, OnlyReturns DEF LoginFails, serverVars, TypeOK
  <1> QED BY <1>1, <1>2, <1>3, <1>4, <1>5 DEF Server

LEMMA TabStepType ==
  ASSUME Typed, NEW t \in Tabs, TabStep(t) \/ Reload(t)
  PROVE  Typed'
  <1> USE DEF Typed
  <1>0. StoreOf[t] \in Stores /\ None \in Maybe /\ Logins(tok[t]) \in SUBSET (1..MaxLogin)
    BY StoresAssumption, LoginsType DEF Maybe, TypeOK
  <1>1. CASE LateClearLands(t)
    BY <1>0, <1>1 DEF LateClearLands, TypeOK, EpochBound, sdkVars, serverVars
  <1>2. CASE RemoteSignOut(t)
    <2>1. \A u \in Tabs : /\ epoch'[u] = IF u = t THEN epoch[u] + 1 ELSE epoch[u]
                          /\ mail'[u] = IF u = t THEN mail[u] - 1 ELSE mail[u]
      BY <1>2 DEF RemoteSignOut, TypeOK
    <2>2. mail[t] > 0
      BY <1>2 DEF RemoteSignOut
    <2>3. \A u \in Tabs : /\ epoch'[u] \in 0..MaxEpoch /\ mail'[u] \in 0..MaxEpoch
                          /\ epoch'[u] + mail'[u] \in 0..MaxEpoch
      BY <2>1, <2>2, BoundsAssumption DEF TypeOK, EpochBound
    <2>4. epoch' \in [Tabs -> 0..MaxEpoch] /\ mail' \in [Tabs -> 0..MaxEpoch] /\ EpochBound'
      <3>1. epoch' = [u \in Tabs |-> epoch'[u]] /\ mail' = [u \in Tabs |-> mail'[u]]
        BY <1>2 DEF RemoteSignOut, TypeOK
      <3> QED BY <2>3, <3>1 DEF EpochBound
    <2> QED BY <1>0, <1>2, <2>4 DEF RemoteSignOut, TypeOK, serverVars
  <1>3. CASE RunFence(t)
    BY <1>3 DEF RunFence, TypeOK, EpochBound, serverVars
  <1>4. CASE RunUnfence(t)
    <2>1. MayUnfence(t) \in BOOLEAN
      BY DEF MayUnfence
    <2> QED BY <1>4, <2>1 DEF RunUnfence, TypeOK, EpochBound, serverVars
  <1>5. CASE Reload(t)
    <2>1. op' \in [Ops -> OpState]
      BY <1>5, IdleType DEF Reload, TypeOK
    <2>2. EpochBound'
      BY <1>5, BoundsAssumption DEF Reload, TypeOK, EpochBound
    <2> QED BY <1>0, <1>5, <2>1, <2>2, BoundsAssumption DEF Reload, TypeOK, serverVars
  <1>6. CASE LateClearFails(t)
    <2>1. strayed' \in [Tabs -> SUBSET (1..MaxLogin)]
      BY <1>6, StrayedType DEF LateClearFails
    <2> QED BY <1>6, <2>1 DEF LateClearFails, TypeOK, EpochBound, serverVars
  <1> QED BY <1>1, <1>2, <1>3, <1>4, <1>5, <1>6 DEF TabStep

LEMMA RestoredType ==
  ASSUME NEW o \in OpState
  PROVE  Restored(o) \in Maybe
  <1>1. o.got \in Maybe /\ o.held \in Maybe
    BY DEF OpState
  <1>2. CASE o.got = None \/ o.got.bearer # None \/ o.held = None
    BY <1>1, <1>2 DEF Restored
  <1>3. CASE o.got \in Session /\ o.held \in Session /\ o.got.bearer = None
    <2>1. RefreshOnly /\ o.held.bearer \in Bearer \cup {None}
      BY <1>3, SessionFields
    <2>2. Restored(o) = [o.got EXCEPT !.bearer = o.held.bearer]
      BY <1>3, SessionFields DEF Restored
    <2> QED BY <1>3, <2>1, <2>2, BearerType DEF Maybe
  <1> QED BY <1>1, <1>2, <1>3 DEF Maybe

LEMMA ResumeType ==
  ASSUME Typed, NEW p \in Ops, Resume(p)
  PROVE  Typed'
  <1> USE DEF Typed
  <1>0. /\ TabOf[p] \in Tabs /\ StoreOf[TabOf[p]] \in Stores /\ None \in Maybe
        /\ store[StoreOf[TabOf[p]]] \in Maybe /\ tok[TabOf[p]] \in Maybe
        /\ op[p] \in OpState /\ op[p].got \in Maybe /\ op[p].held \in Maybe
    BY OpFields DEF Maybe
  <1>a. {"post", "poll", "polled", "sleep", "undo", "settle", "revoke", "wipe", "wipeCache"} \subseteq PCs
    BY DEF PCs
  <1>b. ASSUME SetTokens(TabOf[p], None)
        PROVE  /\ tok' \in [Tabs -> Maybe] /\ unfencing' \in [Tabs -> BOOLEAN]
               /\ installedAt' \in [Tabs -> 0..MaxEpoch]
    BY <1>0, <1>b, SetTokensType
  <1>1. CASE LoadResume(p)
    <2>1. Restored(op[p]) \in Maybe
      BY <1>0, RestoredType
    <2>2. /\ tok' \in [Tabs -> Maybe] /\ unfencing' \in [Tabs -> BOOLEAN]
          /\ installedAt' \in [Tabs -> 0..MaxEpoch] /\ strayed' \in [Tabs -> SUBSET (1..MaxLogin)]
      <3>1. SetTokens(TabOf[p], Restored(op[p])) \/ UNCHANGED <<tok, unfencing, installedAt>>
        BY <1>1 DEF LoadResume
      <3>2. Strays(TabOf[p], Restored(op[p])) \/ UNCHANGED strayed
        BY <1>1 DEF LoadResume
      <3>3. strayed' \in [Tabs -> SUBSET (1..MaxLogin)]
        BY <1>0, <2>1, <3>2, StrayedType DEF TypeOK
      <3> QED BY <1>0, <2>1, <3>1, <3>3, SetTokensType DEF TypeOK
    <2>3. op' \in [Ops -> OpState] /\ slot' \in [Tabs -> Ops \cup {None}]
      <3>1. CASE Return(p)
        BY <3>1, ReturnType
      <3>2. CASE /\ op' = [op EXCEPT ![p].pc = "post", ![p].held = Restored(op[p]), ![p].got = None]
                 /\ UNCHANGED slot
        BY <3>2, <2>1, <1>0, <1>a, GotoType DEF TypeOK
      <3> QED BY <1>1, <3>1, <3>2 DEF LoadResume
    <2> QED BY <1>1, <2>2, <2>3 DEF LoadResume, TypeOK, EpochBound, serverVars
  <1>2. CASE RefreshGranted(p)
    <2>1. /\ op' \in [Ops -> OpState] /\ slot' \in [Tabs -> Ops \cup {None}]
          /\ tok' \in [Tabs -> Maybe] /\ unfencing' \in [Tabs -> BOOLEAN]
          /\ installedAt' \in [Tabs -> 0..MaxEpoch]
      <3>1. CASE BeginUpdate(p, op[p].got) /\ UNCHANGED slot
        BY <3>1, <1>0, BeginUpdateType DEF TypeOK
      <3>2. CASE Return(p) /\ UNCHANGED <<tok, unfencing, installedAt>>
        BY <3>2, ReturnType DEF TypeOK
      <3> QED BY <1>2, <3>1, <3>2 DEF RefreshGranted
    <2> QED BY <1>2, <2>1 DEF RefreshGranted, TypeOK, EpochBound, serverVars
  <1>3. CASE RefreshRetry(p)
    <2> DEFINE n == IF op[p].pc = "blip" THEN "retriedBlip" ELSE "retried5xx"
    <2>1. [op[p] EXCEPT !.pc = "post", !.note = n] \in OpState
      BY <1>0, <1>a DEF OpState
    <2>2. op' = [op EXCEPT ![p] = [op[p] EXCEPT !.pc = "post", !.note = n]]
      BY <1>3 DEF RefreshRetry, TypeOK
    <2>3. op' \in [Ops -> OpState]
      BY <2>1, <2>2, BecomeType
    <2> QED BY <1>3, <2>3 DEF RefreshRetry, TypeOK, EpochBound, sdkVars, serverVars
  <1>4. CASE RefreshGivesUp(p)
    BY <1>4, OnlyReturns DEF RefreshGivesUp, serverVars, TypeOK
  <1>5. CASE RefreshRejected(p)
    <2>1. /\ op' \in [Ops -> OpState] /\ slot' \in [Tabs -> Ops \cup {None}]
          /\ tok' \in [Tabs -> Maybe] /\ unfencing' \in [Tabs -> BOOLEAN]
          /\ installedAt' \in [Tabs -> 0..MaxEpoch]
      <3>1. CASE Goto(p, "poll") /\ UNCHANGED <<tok, unfencing, installedAt, slot>>
        BY <3>1, <1>0, <1>a, GotoType DEF Goto, TypeOK
      <3>2. CASE Definitive(p)
        BY <3>2, DefinitiveType
      <3> QED BY <1>5, <3>1, <3>2 DEF RefreshRejected
    <2> QED BY <1>5, <2>1 DEF RefreshRejected, TypeOK, EpochBound, serverVars
  <1>6. CASE PollRead(p)
    <2>1. op' \in [Ops -> OpState]
      BY <1>0, <1>a, <1>6, GotoType DEF PollRead
    <2> QED BY <1>6, <2>1 DEF PollRead, TypeOK, EpochBound, sdkVars, serverVars
  <1>7. CASE PollResume(p)
    <2>1. /\ op' \in [Ops -> OpState] /\ slot' \in [Tabs -> Ops \cup {None}]
          /\ tok' \in [Tabs -> Maybe] /\ unfencing' \in [Tabs -> BOOLEAN]
          /\ installedAt' \in [Tabs -> 0..MaxEpoch] /\ strayed' \in [Tabs -> SUBSET (1..MaxLogin)]
      <3>1. CASE BeginUpdate(p, op[p].got) /\ Strays(TabOf[p], op[p].got) /\ UNCHANGED slot
        BY <3>1, <1>0, BeginUpdateType, StrayedType DEF TypeOK
      <3>2. CASE /\ op[p].tries < 2
                 /\ op' = [op EXCEPT ![p].pc = "sleep", ![p].tries = @ + 1, ![p].got = None]
                 /\ UNCHANGED <<tok, unfencing, strayed, installedAt, slot>>
        <4>1. op[p].tries + 1 \in 0..2
          BY <1>0, <3>2 DEF OpState
        <4>2. [op[p] EXCEPT !.pc = "sleep", !.tries = op[p].tries + 1, !.got = None] \in OpState
          BY <4>1, <1>0, <1>a DEF OpState
        <4>3. op' = [op EXCEPT ![p] = [op[p] EXCEPT !.pc = "sleep", !.tries = op[p].tries + 1, !.got = None]]
          BY <3>2, <1>0 DEF TypeOK, OpState
        <4> QED BY <3>2, <4>2, <4>3, BecomeType DEF TypeOK
      <3>3. CASE Definitive(p) /\ UNCHANGED strayed
        BY <3>3, DefinitiveType DEF TypeOK
      <3> QED BY <1>7, <3>1, <3>2, <3>3 DEF PollResume
    <2> QED BY <1>7, <2>1 DEF PollResume, TypeOK, EpochBound, serverVars
  <1>8. CASE SaveResume(p)
    <2>1. /\ op' \in [Ops -> OpState] /\ slot' \in [Tabs -> Ops \cup {None}]
          /\ tok' \in [Tabs -> Maybe] /\ unfencing' \in [Tabs -> BOOLEAN]
          /\ installedAt' \in [Tabs -> 0..MaxEpoch] /\ remoteOut' \in [Tabs -> BOOLEAN]
      <3>1. CASE SetTokens(TabOf[p], None) /\ Goto(p, "undo") /\ UNCHANGED <<remoteOut, slot>>
        <4>1. op' \in [Ops -> OpState]
          BY <3>1, <1>0, <1>a, GotoType DEF Goto
        <4> QED BY <3>1, <4>1, <1>b DEF TypeOK
      <3>2. CASE /\ remoteOut' = [remoteOut EXCEPT ![TabOf[p]] = FALSE] /\ Return(p)
                 /\ UNCHANGED <<tok, unfencing, installedAt>>
        BY <3>2, ReturnType DEF TypeOK
      <3> QED BY <1>8, <3>1, <3>2 DEF SaveResume
    <2> QED BY <1>8, <2>1 DEF SaveResume, TypeOK, EpochBound, serverVars
  <1>9. CASE LoginGranted(p)
    <2>1. /\ op' \in [Ops -> OpState] /\ tok' \in [Tabs -> Maybe]
          /\ unfencing' \in [Tabs -> BOOLEAN] /\ installedAt' \in [Tabs -> 0..MaxEpoch]
      BY <1>9, <1>0, BeginUpdateType DEF LoginGranted
    <2> QED BY <1>9, <2>1 DEF LoginGranted, TypeOK, EpochBound, serverVars
  <1>10. CASE DeleteSucceeds(p)
    <2>1. op' \in [Ops -> OpState]
      BY <1>10, <1>0, <1>a, GotoType DEF DeleteSucceeds, Goto
    <2>2. BeginSignOut(p)
      BY <1>10 DEF DeleteSucceeds
    <2>3. /\ epoch' \in [Tabs -> 0..MaxEpoch] /\ mail' \in [Tabs -> 0..MaxEpoch] /\ EpochBound'
          /\ signingOut' \in [Tabs -> BOOLEAN] /\ fencing' \in [Tabs -> BOOLEAN]
          /\ unfencing' \in [Tabs -> BOOLEAN] /\ ended' \in [Tabs -> SUBSET (1..MaxLogin)]
          /\ strayed' = strayed
      BY <2>2, BeginSignOutType
    <2> QED BY <1>10, <2>1, <2>3 DEF DeleteSucceeds, TypeOK
  <1>11. CASE DeleteFails(p)
    BY <1>11, OnlyReturns DEF DeleteFails, serverVars, TypeOK
  <1>12. CASE Settle(p)
    <2>1. /\ op' \in [Ops -> OpState] /\ tok' \in [Tabs -> Maybe]
          /\ unfencing' \in [Tabs -> BOOLEAN] /\ installedAt' \in [Tabs -> 0..MaxEpoch]
      <3>1. CASE /\ op' = [op EXCEPT ![p].pc = "revoke", ![p].held = tok[TabOf[p]]]
                 /\ UNCHANGED <<tok, unfencing, installedAt>>
        BY <3>1, <1>0, <1>a, GotoType DEF TypeOK
      <3>2. CASE SetTokens(TabOf[p], None) /\ Goto(p, "wipe")
        BY <3>2, <1>0, <1>a, <1>b, GotoType DEF Goto
      <3> QED BY <1>12, <3>1, <3>2 DEF Settle
    <2> QED BY <1>0, <1>12, <2>1 DEF Settle, TypeOK, EpochBound, serverVars
  <1>13. CASE Revoke(p)
    <2>1. op' \in [Ops -> OpState]
      BY <1>13, <1>0, <1>a, GotoType DEF Revoke, Goto
    <2>2. /\ tok' \in [Tabs -> Maybe] /\ unfencing' \in [Tabs -> BOOLEAN]
          /\ installedAt' \in [Tabs -> 0..MaxEpoch]
      BY <1>13, <1>b DEF Revoke
    <2>3. live' \in SUBSET (1..MaxGrant) /\ cookie' \in Maybe
      BY <1>13, <1>0 DEF Revoke, TypeOK
    <2> QED BY <1>13, <2>1, <2>2, <2>3 DEF Revoke, TypeOK, EpochBound
  <1>14. CASE WipeCapped(p)
    <2>1. op' \in [Ops -> OpState]
      BY <1>14, <1>0, <1>a, GotoType DEF WipeCapped, Goto
    <2> QED BY <1>0, <1>14, <2>1 DEF WipeCapped, TypeOK, EpochBound, sdkVars, serverVars
  <1>15. CASE CacheWiped(p)
    <2>1. signingOut' \in [Tabs -> BOOLEAN]
      BY <1>0, <1>15 DEF CacheWiped, TypeOK
    <2> QED BY <1>15, <2>1, OnlyReturns DEF CacheWiped, serverVars, TypeOK
  <1> QED BY <1>1, <1>2, <1>3, <1>4, <1>5, <1>6, <1>7, <1>8, <1>9, <1>10, <1>11, <1>12, <1>13,
             <1>14, <1>15 DEF Resume

LEMMA InitType == Init => Typed
  <1> SUFFICES ASSUME Init PROVE Typed
    OBVIOUS
  <1>1. None \in Maybe
    BY DEF Maybe
  <1>2. ended \in [Tabs -> SUBSET (1..MaxLogin)] /\ strayed = ended
    BY DEF Init
  <1> QED BY <1>1, <1>2, IdleType, BoundsAssumption DEF Init, Typed, TypeOK, EpochBound

LEMMA StutterType == Typed /\ UNCHANGED vars => Typed'
  BY DEF Typed, TypeOK, EpochBound, vars

LEMMA NextType == Typed /\ [Next]_vars => Typed'
  BY StartStepType, ResumeType, StoreStepType, ServerType, TabStepType, StutterType DEF Next

(* Every instance, store, call and the server keep their types: in particular *)
(* no counter leaves its bound and no call is ever in a state the code has not. *)
THEOREM TypeCorrect == Spec => []TypeOK
  <1>1. Spec => []Typed
    BY InitType, NextType, PTL DEF Spec
  <1>2. Typed => TypeOK
    BY DEF Typed
  <1> QED BY <1>1, <1>2, PTL

-----------------------------------------------------------------------------
\* Safety

SignsOut(p) == op[p].kind \in {"logout", "delete"}

\* Only a sign-out wipes, and an instance runs one at a time.
WipeIsSignOut == \A p \in Ops : Wiping(p) \/ At(p, "delete") => SignsOut(p)

OneSignOut ==
    \A p, q \in Ops : TabOf[p] = TabOf[q] /\ SignsOut(p) /\ SignsOut(q) => p = q

\* While a sign-out waits for the refresh, every refresh is of an older epoch.
SettleIsLater ==
    \A p, q \in Ops : TabOf[p] = TabOf[q] /\ At(p, "settle") /\ op[q].kind = "refresh"
                     => op[q].e0 < epoch[TabOf[q]]

RefreshEpoch == \A p \in Ops : op[p].kind = "refresh" => op[p].e0 <= epoch[TabOf[p]]

FlagNeedsFence == \A t \in Tabs : signingOut[t] => fence[t] \/ fencing[t]

UnfenceIsCurrent == \A t \in Tabs : unfencing[t] => installedAt[t] = epoch[t]

(* A call that is under way keeps its kind and its epoch until it returns, and *)
(* reaches the wipe only from within a sign-out. *)
Shape(p) ==
    /\ \A q \in Ops : q # p => op'[q] = op[q]
    /\ op'[p] = Idle \/ (op'[p].kind = op[p].kind /\ op'[p].e0 = op[p].e0)
    /\ Wiping(p)' => Wiping(p) \/ At(p, "delete")
    /\ op'[p].pc # "delete"
    /\ op'[p].pc = "settle" => op[p].pc = "delete"

LEMMA StepShape ==
  ASSUME Typed, NEW p \in Ops, Resume(p) \/ StoreStep(p) \/ Server(p)
  PROVE  Shape(p)
  <1>0. op \in [Ops -> OpState] /\ op[p] \in OpState
    BY OpFields DEF Typed, TypeOK
  <1>a. ASSUME Return(p) PROVE Shape(p)
    BY <1>0, <1>a DEF Return, Shape, Wiping, Idle
  <1>b. ASSUME NEW s, BeginUpdate(p, s) PROVE Shape(p)
    BY <1>0, <1>b DEF BeginUpdate, Shape, Wiping, Idle
  <1>c. ASSUME Definitive(p) PROVE Shape(p)
    <2>1. CASE BeginClear(p)
      BY <1>0, <2>1 DEF BeginClear, Shape, Wiping, Idle
    <2> QED BY <1>a, <1>c, <2>1 DEF Definitive
  <1>1. CASE LoadResume(p)
    <2>1. CASE op' = [op EXCEPT ![p].pc = "post", ![p].held = Restored(op[p]), ![p].got = None]
      BY <1>0, <2>1 DEF Shape, Wiping, OpState
    <2> QED BY <1>a, <1>1, <2>1 DEF LoadResume
  <1>2. CASE RefreshGranted(p)
    BY <1>a, <1>b, <1>2 DEF RefreshGranted
  <1>3. CASE RefreshRetry(p)
    BY <1>0, <1>3 DEF RefreshRetry, Shape, Wiping, OpState
  <1>4. CASE RefreshGivesUp(p)
    BY <1>a, <1>4 DEF RefreshGivesUp
  <1>5. CASE RefreshRejected(p)
    <2>1. CASE Goto(p, "poll")
      BY <1>0, <2>1 DEF Goto, Shape, Wiping
    <2> QED BY <1>c, <1>5, <2>1 DEF RefreshRejected
  <1>6. CASE PollRead(p)
    BY <1>0, <1>6 DEF PollRead, Shape, Wiping, OpState
  <1>7. CASE PollResume(p)
    <2>1. CASE op' = [op EXCEPT ![p].pc = "sleep", ![p].tries = @ + 1, ![p].got = None]
      BY <1>0, <2>1 DEF Shape, Wiping, OpState
    <2> QED BY <1>b, <1>c, <1>7, <2>1 DEF PollResume
  <1>8. CASE SaveResume(p)
    <2>1. CASE Goto(p, "undo")
      BY <1>0, <2>1 DEF Goto, Shape, Wiping
    <2> QED BY <1>a, <1>8, <2>1 DEF SaveResume
  <1>9. CASE LoginGranted(p)
    BY <1>b, <1>9 DEF LoginGranted
  <1>10. CASE DeleteSucceeds(p)
    BY <1>0, <1>10 DEF DeleteSucceeds, Goto, Shape, Wiping, OpState
  <1>11. CASE DeleteFails(p)
    BY <1>a, <1>11 DEF DeleteFails
  <1>12. CASE Settle(p)
    BY <1>0, <1>12 DEF Settle, Goto, Shape, Wiping, OpState
  <1>13. CASE Revoke(p)
    BY <1>0, <1>13 DEF Revoke, Goto, Shape, Wiping, OpState
  <1>14. CASE WipeCapped(p)
    BY <1>0, <1>14 DEF WipeCapped, Goto, Shape, Wiping, OpState
  <1>15. CASE CacheWiped(p)
    BY <1>a, <1>15 DEF CacheWiped
  <1>16. CASE LoadRead(p)
    BY <1>0, <1>16 DEF LoadRead, Shape, Wiping, OpState
  <1>17. CASE SaveLands(p)
    BY <1>0, <1>17 DEF SaveLands, Shape, Wiping, OpState
  <1>18. CASE StoreRefuses(p)
    BY <1>a, <1>18 DEF StoreRefuses
  <1>19. CASE ClearLands(p)
    BY <1>a, <1>19 DEF ClearLands
  <1>20. CASE WipeLands(p) \/ WipeFails(p)
    BY <1>0, <1>20 DEF WipeLands, WipeFails, Goto, Shape, Wiping, OpState
  <1>21. CASE ServerRotates(p)
    BY <1>0, <1>21 DEF ServerRotates, Goto, Shape, Wiping, OpState
  <1>22. CASE ServerRejects(p)
    BY <1>0, <1>22, RejectionsAssumption DEF ServerRejects, Goto, Shape, Wiping, OpState
  <1>23. CASE NetworkFails(p)
    BY <1>0, <1>23 DEF NetworkFails, Goto, Shape, Wiping, OpState
  <1>24. CASE ServerLogsIn(p)
    BY <1>0, <1>24 DEF ServerLogsIn, Shape, Wiping, OpState
  <1>25. CASE LoginFails(p)
    BY <1>a, <1>25 DEF LoginFails
  <1> QED BY <1>1, <1>2, <1>3, <1>4, <1>5, <1>6, <1>7, <1>8, <1>9, <1>10, <1>11, <1>12, <1>13, <1>14, <1>15, <1>16, <1>17, <1>18, <1>19, <1>20, <1>21, <1>22, <1>23, <1>24, <1>25 DEF Resume, StoreStep, Server

\* The fence, the callbacks that move it, and the epoch they belong to.
FenceInv == FlagNeedsFence /\ UnfenceIsCurrent /\ FenceNeedsSession

LEMMA FenceInvInit == Init => FenceInv
  BY DEF Init, FenceInv, FlagNeedsFence, UnfenceIsCurrent, FenceNeedsSession

(* The three ways a call touches them: not at all, through setTokens, or by *)
(* beginning a sign-out. *)
LEMMA FenceFrame ==
  ASSUME FenceInv, UNCHANGED <<epoch, signingOut, fence, fencing, unfencing, installedAt>>
  PROVE  FenceInv'
  BY DEF FenceInv, FlagNeedsFence, UnfenceIsCurrent, FenceNeedsSession

LEMMA FenceSetTokens ==
  ASSUME Typed, FenceInv, NEW t \in Tabs, NEW s, SetTokens(t, s),
         UNCHANGED <<epoch, signingOut, fence, fencing>>
  PROVE  FenceInv'
  BY DEF Typed, TypeOK, SetTokens, FenceInv, FlagNeedsFence, UnfenceIsCurrent, FenceNeedsSession

LEMMA FenceSignOut ==
  ASSUME Typed, FenceInv, NEW p \in Ops, BeginSignOut(p), UNCHANGED <<fence, installedAt>>
  PROVE  FenceInv'
  <1>1. TabOf[p] \in Tabs
    BY OpFields DEF Typed
  <1> QED BY <1>1 DEF Typed, TypeOK, BeginSignOut, FenceInv, FlagNeedsFence, UnfenceIsCurrent, FenceNeedsSession

LEMMA FenceInvStep ==
  ASSUME Typed, FenceInv, [Next]_vars
  PROVE  FenceInv'
  <1>a. ASSUME NEW p \in Ops, Start(p) \/ Resume(p) \/ StoreStep(p) \/ Server(p)
        PROVE  FenceInv'
    <2>0. TabOf[p] \in Tabs
      BY OpFields DEF Typed
    <2>1. CASE StartRestore(p)
      BY <2>1, FenceFrame DEF StartRestore, sdkVars
    <2>2. CASE StartRefresh(p)
      BY <2>2, FenceFrame DEF StartRefresh, sdkVars
    <2>3. CASE StartLogin(p)
      BY <2>3, FenceFrame DEF StartLogin, sdkVars
    <2>4. CASE StartClear(p)
      BY <2>0, <2>4, FenceFrame, FenceSetTokens DEF StartClear
    <2>5. CASE StartLogout(p)
      BY <2>5, FenceSignOut DEF StartLogout
    <2>6. CASE StartDelete(p)
      BY <2>6, FenceFrame DEF StartDelete, sdkVars
    <2>7. CASE LoadResume(p)
      BY <2>0, <2>7, FenceFrame, FenceSetTokens DEF LoadResume
    <2>8. CASE RefreshGranted(p)
      BY <2>0, <2>8, FenceFrame, FenceSetTokens DEF RefreshGranted, BeginUpdate
    <2>9. CASE RefreshRetry(p)
      BY <2>9, FenceFrame DEF RefreshRetry, sdkVars
    <2>10. CASE RefreshGivesUp(p)
      BY <2>10, FenceFrame DEF RefreshGivesUp, sdkVars
    <2>11. CASE RefreshRejected(p)
      BY <2>0, <2>11, FenceFrame, FenceSetTokens DEF RefreshRejected, Definitive, BeginClear
    <2>12. CASE PollRead(p)
      BY <2>12, FenceFrame DEF PollRead, sdkVars
    <2>13. CASE PollResume(p)
      BY <2>0, <2>13, FenceFrame, FenceSetTokens DEF PollResume, BeginUpdate, Definitive, BeginClear
    <2>14. CASE SaveResume(p)
      BY <2>0, <2>14, FenceFrame, FenceSetTokens DEF SaveResume
    <2>15. CASE LoginGranted(p)
      BY <2>0, <2>15, FenceFrame, FenceSetTokens DEF LoginGranted, BeginUpdate
    <2>16. CASE DeleteSucceeds(p)
      BY <2>16, FenceSignOut DEF DeleteSucceeds
    <2>17. CASE DeleteFails(p)
      BY <2>17, FenceFrame DEF DeleteFails, sdkVars
    <2>18. CASE Settle(p)
      BY <2>0, <2>18, FenceFrame, FenceSetTokens DEF Settle
    <2>19. CASE Revoke(p)
      BY <2>0, <2>19, FenceFrame, FenceSetTokens DEF Revoke
    <2>20. CASE WipeCapped(p)
      BY <2>20, FenceFrame DEF WipeCapped, sdkVars
    <2>21. CASE CacheWiped(p)
      BY <2>0, <2>21 DEF CacheWiped, Typed, TypeOK, FenceInv, FlagNeedsFence, UnfenceIsCurrent,
                          FenceNeedsSession
    <2>22. CASE LoadRead(p)
      BY <2>22, FenceFrame DEF LoadRead, sdkVars
    <2>23. CASE SaveLands(p)
      BY <2>23, FenceFrame DEF SaveLands, sdkVars
    <2>24. CASE StoreRefuses(p)
      BY <2>24, FenceFrame DEF StoreRefuses
    <2>25. CASE ClearLands(p)
      BY <2>25, FenceFrame DEF ClearLands, sdkVars
    <2>26. CASE WipeLands(p) \/ WipeFails(p)
      BY <2>26, FenceFrame DEF WipeLands, WipeFails, sdkVars
    <2>27. CASE ServerRotates(p)
      BY <2>27, FenceFrame DEF ServerRotates, sdkVars
    <2>28. CASE ServerRejects(p)
      BY <2>28, FenceFrame DEF ServerRejects, sdkVars
    <2>29. CASE NetworkFails(p)
      BY <2>29, FenceFrame DEF NetworkFails, sdkVars
    <2>30. CASE ServerLogsIn(p)
      BY <2>30, FenceFrame DEF ServerLogsIn, sdkVars
    <2>31. CASE LoginFails(p)
      BY <2>31, FenceFrame DEF LoginFails, sdkVars
    <2> QED BY <1>a, <2>1, <2>2, <2>3, <2>4, <2>5, <2>6, <2>7, <2>8, <2>9, <2>10, <2>11, <2>12,
               <2>13, <2>14, <2>15, <2>16, <2>17, <2>18, <2>19, <2>20, <2>21, <2>22, <2>23,
               <2>24, <2>25, <2>26, <2>27, <2>28, <2>29, <2>30, <2>31 DEF Start, Resume,
               StoreStep, Server
  <1>b. ASSUME NEW t \in Tabs, TabStep(t) \/ Reload(t)
        PROVE  FenceInv'
    <2> USE DEF FenceInv, FlagNeedsFence, UnfenceIsCurrent, FenceNeedsSession
    <2>1. CASE LateClearLands(t) \/ LateClearFails(t)
      BY <2>1 DEF LateClearLands, LateClearFails, Typed, TypeOK, sdkVars
    <2>2. CASE RemoteSignOut(t)
      BY <2>2 DEF RemoteSignOut, Typed, TypeOK
    <2>3. CASE RunFence(t)
      BY <2>3 DEF RunFence, Typed, TypeOK
    <2>4. CASE RunUnfence(t)
      BY <2>4 DEF RunUnfence, Typed, TypeOK, MayUnfence
    <2>5. CASE Reload(t)
      BY <2>5 DEF Reload, Typed, TypeOK
    <2> QED BY <1>b, <2>1, <2>2, <2>3, <2>4, <2>5 DEF TabStep
  <1> QED BY <1>a, <1>b, FenceFrame DEF Next, vars

(* An instance whose cache accepts writes has been given tokens since the last *)
(* sign-out it took part in: no callback of an earlier session lifts the fence. *)
THEOREM FenceNeedsSessionAlways == Spec => []FenceNeedsSession
  <1>1. Typed /\ FenceInv /\ [Next]_vars => Typed' /\ FenceInv'
    BY NextType, FenceInvStep
  <1>2. Spec => [](Typed /\ FenceInv)
    BY InitType, FenceInvInit, <1>1, PTL DEF Spec
  <1>3. FenceInv => FenceNeedsSession
    BY DEF FenceInv
  <1> QED BY <1>2, <1>3, PTL

\* signOutInProgress is "True from the start of a local sign-out until its
\* cache wipe finished", of every sign-out that is running.
FlagCoversWipe ==
    \A p \in Ops : Wiping(p) => signingOut[TabOf[p]]

\* Sign-outs, one at a time, and the flag that covers each of them.
SignOutInv == WipeIsSignOut /\ OneSignOut /\ FlagCoversWipe

\* The slot, the epoch of every refresh, and the sign-outs that move the epoch on.
RefreshInv == RefreshEpoch /\ SettleIsLater /\ SingleFlight

(* What a call under way does to the flag, the epoch and the slot of its instance. *)
FlagShape(p) ==
    LET t == TabOf[p] IN
    /\ \A u \in Tabs : u # t => signingOut'[u] = signingOut[u] /\ slot'[u] = slot[u]
    /\ signingOut[t] => signingOut'[t] \/ (Wiping(p) /\ ~Wiping(p)')
    /\ Wiping(p)' /\ op[p].pc = "delete" => signingOut'[t]
    /\ \A u \in Tabs : epoch[u] <= epoch'[u]
    /\ op'[p].pc = "settle" => epoch[t] < epoch'[t]
    /\ \/ slot'[t] = slot[t]
       \/ slot[t] = p /\ op'[p] = Idle
       \/ op[p].pc = "settle"

LEMMA StepFlagShape ==
  ASSUME Typed, NEW p \in Ops, Resume(p) \/ StoreStep(p) \/ Server(p)
  PROVE  FlagShape(p)
  <1>0. /\ TabOf[p] \in Tabs /\ op \in [Ops -> OpState] /\ op[p] \in OpState
        /\ slot \in [Tabs -> Ops \cup {None}] /\ signingOut \in [Tabs -> BOOLEAN]
        /\ \A u \in Tabs : epoch[u] \in Nat
    BY OpFields, BoundsAssumption DEF Typed, TypeOK
  <1>1. Shape(p)
    BY StepShape
  <1>a. ASSUME UNCHANGED <<signingOut, epoch, slot>>, op[p].pc # "delete"
        PROVE  FlagShape(p)
    BY <1>0, <1>1, <1>a DEF FlagShape, Shape, Wiping
  <1>b. ASSUME UNCHANGED <<signingOut, epoch>>, Return(p)
        PROVE  FlagShape(p)
    BY <1>0, <1>1, <1>b DEF FlagShape, Shape, Return, Idle, Wiping
  <1>2. CASE LoadResume(p)
    BY <1>a, <1>b, <1>2 DEF LoadResume
  <1>3. CASE RefreshGranted(p)
    BY <1>a, <1>b, <1>3 DEF RefreshGranted
  <1>4. CASE RefreshRetry(p)
    BY <1>a, <1>4 DEF RefreshRetry, sdkVars
  <1>5. CASE RefreshGivesUp(p)
    BY <1>b, <1>5 DEF RefreshGivesUp, serverVars
  <1>6. CASE RefreshRejected(p)
    BY <1>a, <1>b, <1>6 DEF RefreshRejected, Definitive
  <1>7. CASE PollRead(p)
    BY <1>a, <1>7 DEF PollRead, sdkVars
  <1>8. CASE PollResume(p)
    BY <1>a, <1>b, <1>8 DEF PollResume, Definitive
  <1>9. CASE SaveResume(p)
    BY <1>a, <1>b, <1>9 DEF SaveResume
  <1>10. CASE LoginGranted(p)
    BY <1>a, <1>10 DEF LoginGranted, sdkVars
  <1>11. CASE DeleteSucceeds(p)
    <2>1. /\ signingOut' = [signingOut EXCEPT ![TabOf[p]] = TRUE]
          /\ epoch' = [epoch EXCEPT ![TabOf[p]] = @ + 1]
          /\ slot' = slot
      BY <1>11 DEF DeleteSucceeds, BeginSignOut
    <2>2. \A u \in Tabs : epoch'[u] = IF u = TabOf[p] THEN epoch[u] + 1 ELSE epoch[u]
      BY <2>1 DEF Typed, TypeOK
    <2>3. signingOut'[TabOf[p]] /\ \A u \in Tabs : u # TabOf[p] => signingOut'[u] = signingOut[u]
      BY <1>0, <2>1
    <2> QED BY <1>0, <2>1, <2>2, <2>3 DEF FlagShape
  <1>12. CASE DeleteFails(p)
    BY <1>b, <1>12 DEF DeleteFails, serverVars
  <1>13. CASE Settle(p)
    BY <1>0, <1>1, <1>13 DEF Settle, FlagShape, Shape, Wiping, Goto
  <1>14. CASE Revoke(p)
    BY <1>a, <1>14 DEF Revoke, sdkVars
  <1>15. CASE WipeCapped(p)
    BY <1>a, <1>15 DEF WipeCapped, sdkVars
  <1>16. CASE CacheWiped(p)
    BY <1>0, <1>16 DEF CacheWiped, Return, FlagShape, Wiping, Idle
  <1>17. CASE LoadRead(p)
    BY <1>a, <1>17 DEF LoadRead, sdkVars
  <1>18. CASE SaveLands(p)
    BY <1>a, <1>18 DEF SaveLands, sdkVars
  <1>19. CASE StoreRefuses(p)
    BY <1>b, <1>19 DEF StoreRefuses, serverVars
  <1>20. CASE ClearLands(p)
    BY <1>b, <1>20 DEF ClearLands, serverVars
  <1>21. CASE WipeLands(p) \/ WipeFails(p)
    BY <1>a, <1>21 DEF WipeLands, WipeFails, sdkVars
  <1>22. CASE ServerRotates(p)
    BY <1>a, <1>22 DEF ServerRotates, sdkVars
  <1>23. CASE ServerRejects(p)
    BY <1>a, <1>23 DEF ServerRejects, sdkVars
  <1>24. CASE NetworkFails(p)
    BY <1>a, <1>24 DEF NetworkFails, sdkVars
  <1>25. CASE ServerLogsIn(p)
    BY <1>a, <1>25 DEF ServerLogsIn, sdkVars
  <1>26. CASE LoginFails(p)
    BY <1>b, <1>26 DEF LoginFails, serverVars
  <1> QED BY <1>2, <1>3, <1>4, <1>5, <1>6, <1>7, <1>8, <1>9, <1>10, <1>11, <1>12, <1>13, <1>14,
             <1>15, <1>16, <1>17, <1>18, <1>19, <1>20, <1>21, <1>22, <1>23, <1>24, <1>25, <1>26
             DEF Resume, StoreStep, Server

LEMMA SignOutInvInit == Init => SignOutInv /\ RefreshInv
  BY DEF Init, SignOutInv, RefreshInv, WipeIsSignOut, OneSignOut, FlagCoversWipe, RefreshEpoch,
         SettleIsLater, SingleFlight, Idle, Wiping, SignsOut

LEMMA CallKeepsInvs ==
  ASSUME Typed, SignOutInv, RefreshInv, NEW p \in Ops, Resume(p) \/ StoreStep(p) \/ Server(p)
  PROVE  SignOutInv' /\ RefreshInv'
  <1>1. Shape(p) /\ FlagShape(p)
    BY StepShape, StepFlagShape
  <1>2. /\ \A q \in Ops : TabOf[q] \in Tabs /\ op[q].e0 \in Nat /\ op'[q].e0 \in Nat
        /\ \A u \in Tabs : epoch[u] \in Nat /\ epoch'[u] \in Nat
    <2>1. Typed'
      BY NextType DEF Next
    <2> QED BY <2>1, TabsAssumption, BoundsAssumption DEF Typed, TypeOK, OpState
  <1>3. ASSUME NEW q \in Ops
        PROVE  /\ SignsOut(q)' => SignsOut(q) /\ op'[q].kind = op[q].kind
               /\ op'[q].kind = "refresh" => op[q].kind = "refresh" /\ op'[q].e0 = op[q].e0
    BY <1>1 DEF Shape, SignsOut, Idle
  <1>4. WipeIsSignOut'
    BY <1>1 DEF SignOutInv, WipeIsSignOut, Shape, Wiping, SignsOut, Idle
  <1>5. OneSignOut'
    BY <1>3 DEF SignOutInv, OneSignOut
  <1>6. FlagCoversWipe'
    <2> SUFFICES ASSUME NEW q \in Ops, Wiping(q)' PROVE signingOut'[TabOf[q]]
      BY DEF FlagCoversWipe
    <2>1. CASE q = p
      BY <1>1, <1>2, <2>1 DEF Shape, FlagShape, SignOutInv, FlagCoversWipe
    <2>2. CASE q # p
      <3>1. Wiping(q) /\ signingOut[TabOf[q]]
        BY <1>1, <2>2 DEF Shape, Wiping, SignOutInv, FlagCoversWipe
      <3>2. TabOf[q] = TabOf[p] => ~Wiping(p)
        BY <2>2, <3>1 DEF SignOutInv, WipeIsSignOut, OneSignOut
      <3> QED BY <1>1, <1>2, <3>1, <3>2 DEF FlagShape
    <2> QED BY <2>1, <2>2
  <1>7. RefreshEpoch'
    <2> SUFFICES ASSUME NEW q \in Ops, op'[q].kind = "refresh"
                 PROVE  op'[q].e0 <= epoch'[TabOf[q]]
      BY DEF RefreshEpoch
    <2>1. op[q].e0 <= epoch[TabOf[q]] /\ op'[q].e0 = op[q].e0
      BY <1>3 DEF RefreshInv, RefreshEpoch
    <2>2. epoch[TabOf[q]] <= epoch'[TabOf[q]]
      BY <1>1, <1>2 DEF FlagShape
    <2> QED BY <1>2, <2>1, <2>2
  <1>8. SettleIsLater'
    <2> SUFFICES ASSUME NEW r \in Ops, NEW q \in Ops, TabOf[r] = TabOf[q], op'[r].pc = "settle",
                        op'[q].kind = "refresh"
                 PROVE  op'[q].e0 < epoch'[TabOf[q]]
      BY DEF SettleIsLater
    <2>1. /\ op[q].kind = "refresh" /\ op'[q].e0 = op[q].e0
          /\ op[q].e0 <= epoch[TabOf[q]] /\ epoch[TabOf[q]] <= epoch'[TabOf[q]]
      BY <1>1, <1>2, <1>3 DEF FlagShape, RefreshInv, RefreshEpoch
    <2>2. CASE r = p
      BY <1>1, <1>2, <2>1, <2>2 DEF FlagShape
    <2>3. CASE r # p
      <3>1. op[q].e0 < epoch[TabOf[q]]
        BY <1>1, <2>1, <2>3 DEF Shape, RefreshInv, SettleIsLater
      <3> QED BY <1>2, <2>1, <3>1
    <2> QED BY <2>2, <2>3
  <1>9. SingleFlight'
    <2> SUFFICES ASSUME NEW q \in Ops, op'[q].kind = "refresh", slot'[TabOf[q]] # q
                 PROVE  op'[q].e0 < epoch'[TabOf[q]]
      BY DEF SingleFlight
    <2>1. /\ op[q].kind = "refresh" /\ op'[q].e0 = op[q].e0 /\ op'[q] # Idle
          /\ epoch[TabOf[q]] <= epoch'[TabOf[q]]
      BY <1>1, <1>2, <1>3 DEF FlagShape, Idle
    <2>2. op[q].e0 < epoch[TabOf[q]]
      <3>1. CASE slot[TabOf[q]] # q
        BY <2>1, <3>1 DEF RefreshInv, SingleFlight
      <3>2. CASE slot[TabOf[q]] = q
        <4>1. TabOf[q] = TabOf[p] /\ op[p].pc = "settle"
          BY <1>1, <1>2, <2>1, <3>2 DEF FlagShape
        <4> QED BY <2>1, <4>1 DEF RefreshInv, SettleIsLater
      <3> QED BY <3>1, <3>2
    <2> QED BY <1>2, <2>1, <2>2
  <1> QED BY <1>4, <1>5, <1>6, <1>7, <1>8, <1>9 DEF SignOutInv, RefreshInv

LEMMA StartKeepsInvs ==
  ASSUME ~Overlap, Typed, SignOutInv, RefreshInv, NEW p \in Ops, Start(p)
  PROVE  SignOutInv' /\ RefreshInv'
  <1> DEFINE t == TabOf[p]
  <1>0. /\ op \in [Ops -> OpState] /\ slot \in [Tabs -> Ops \cup {None}] /\ None \notin Ops
        /\ signingOut \in [Tabs -> BOOLEAN] /\ \A u \in Tabs : epoch[u] \in Nat
        /\ \A q \in Ops : TabOf[q] \in Tabs /\ op[q].e0 \in Nat
    BY TabsAssumption, BoundsAssumption, NoneAssumption DEF Typed, TypeOK, OpState
  <1> USE DEF SignOutInv, RefreshInv, WipeIsSignOut, OneSignOut, FlagCoversWipe, RefreshEpoch,
              SettleIsLater, SingleFlight, Wiping, SignsOut
  \* A call that is neither a refresh nor a sign-out disturbs nothing.
  <1>a. ASSUME NEW r, op' = [op EXCEPT ![p] = r], r.kind \in {"restore", "login", "clear"},
               r.pc \in {"load", "login", "clear"}, UNCHANGED <<signingOut, epoch, slot>>
        PROVE  SignOutInv' /\ RefreshInv'
    BY <1>0, <1>a
  <1>1. CASE StartRestore(p)
    BY <1>1, <1>a DEF StartRestore, Idle, sdkVars
  <1>2. CASE StartLogin(p)
    BY <1>2, <1>a DEF StartLogin, Idle, sdkVars
  <1>3. CASE StartClear(p)
    BY <1>3, <1>a DEF StartClear, Idle
  <1>4. CASE StartRefresh(p)
    <2>1. /\ op'[p].kind = "refresh" /\ op'[p].pc = "load" /\ op'[p].e0 = epoch[t]
          /\ \A q \in Ops : q # p => op'[q] = op[q]
          /\ slot[t] = None /\ ~signingOut[t] /\ slot' = [slot EXCEPT ![t] = p]
          /\ signingOut' = signingOut /\ epoch' = epoch
      BY <1>0, <1>4 DEF StartRefresh, Idle
    <2>2. \A q \in Ops : TabOf[q] = t => op[q].pc # "settle"
      BY <2>1
    <2> QED BY <1>0, <2>1, <2>2
  <1>5. CASE StartLogout(p)
    <2>1. /\ op'[p].kind = "logout" /\ op'[p].pc = "settle"
          /\ \A q \in Ops : q # p => op'[q] = op[q]
          /\ \A q \in Ops : TabOf[q] = t => ~SignsOut(q)
          /\ signingOut' = [signingOut EXCEPT ![t] = TRUE]
          /\ \A u \in Tabs : epoch'[u] = IF u = t THEN epoch[u] + 1 ELSE epoch[u]
          /\ slot' = slot
      BY <1>0, <1>5 DEF StartLogout, BeginSignOut, NoOther, Idle, Typed, TypeOK
    <2>2. SignOutInv'
      BY <1>0, <2>1
    <2>3. RefreshEpoch' /\ SingleFlight'
      BY <1>0, <2>1
    <2>4. SettleIsLater'
      BY <1>0, <2>1
    <2> QED BY <2>2, <2>3, <2>4
  <1>6. CASE StartDelete(p)
    <2>1. /\ op'[p].kind = "delete" /\ op'[p].pc = "delete"
          /\ \A q \in Ops : q # p => op'[q] = op[q]
          /\ \A q \in Ops : TabOf[q] = t => ~SignsOut(q)
          /\ signingOut' = signingOut /\ epoch' = epoch /\ slot' = slot
      BY <1>0, <1>6 DEF StartDelete, NoOther, Idle, sdkVars
    <2> QED BY <1>0, <2>1
  <1> QED BY <1>1, <1>2, <1>3, <1>4, <1>5, <1>6 DEF Start

LEMMA TabKeepsInvs ==
  ASSUME Typed, SignOutInv, RefreshInv, NEW t \in Tabs, TabStep(t) \/ Reload(t)
  PROVE  SignOutInv' /\ RefreshInv'
  <1>0. /\ op \in [Ops -> OpState] /\ slot \in [Tabs -> Ops \cup {None}]
        /\ signingOut \in [Tabs -> BOOLEAN] /\ \A u \in Tabs : epoch[u] \in Nat
        /\ \A q \in Ops : TabOf[q] \in Tabs /\ op[q].e0 \in Nat
    BY TabsAssumption, BoundsAssumption DEF Typed, TypeOK, OpState
  <1> USE DEF SignOutInv, RefreshInv, WipeIsSignOut, OneSignOut, FlagCoversWipe, RefreshEpoch,
              SettleIsLater, SingleFlight, Wiping, SignsOut
  <1>1. CASE LateClearLands(t) \/ LateClearFails(t) \/ RunFence(t) \/ RunUnfence(t)
    BY <1>1 DEF LateClearLands, LateClearFails, RunFence, RunUnfence, sdkVars
  <1>2. CASE RemoteSignOut(t)
    <2>1. /\ op' = op /\ signingOut' = signingOut /\ slot' = slot
          /\ \A u \in Tabs : epoch'[u] = IF u = t THEN epoch[u] + 1 ELSE epoch[u]
      BY <1>2 DEF RemoteSignOut, Typed, TypeOK
    <2> QED BY <1>0, <2>1
  <1>3. CASE Reload(t)
    <2>1. /\ \A q \in Ops : op'[q] = IF TabOf[q] = t THEN Idle ELSE op[q]
          /\ \A u \in Tabs : u # t => /\ epoch'[u] = epoch[u] /\ slot'[u] = slot[u]
                                      /\ signingOut'[u] = signingOut[u]
      BY <1>0, <1>3 DEF Reload, Typed, TypeOK
    <2> QED BY <1>0, <2>1 DEF Idle
  <1> QED BY <1>1, <1>2, <1>3 DEF TabStep

LEMMA SafetyStep ==
  ASSUME ~Overlap, Typed, SignOutInv, RefreshInv, [Next]_vars
  PROVE  SignOutInv' /\ RefreshInv'
  <1>1. CASE UNCHANGED vars
    BY <1>1 DEF vars, SignOutInv, RefreshInv, WipeIsSignOut, OneSignOut, FlagCoversWipe,
                RefreshEpoch, SettleIsLater, SingleFlight, Wiping, SignsOut
  <1> QED BY <1>1, CallKeepsInvs, StartKeepsInvs, TabKeepsInvs DEF Next

(* With one sign-out at a time, the fence covers each sign-out from its first *)
(* step to the end of its wipe, whatever else the instance is doing. *)
THEOREM FenceDuringWipeAlways ==
  ASSUME ~Overlap
  PROVE  Spec => []FenceDuringWipe
  <1>1. Typed /\ SignOutInv /\ RefreshInv /\ FenceInv /\ [Next]_vars
        => Typed' /\ SignOutInv' /\ RefreshInv' /\ FenceInv'
    BY NextType, SafetyStep, FenceInvStep
  <1>2. Spec => [](Typed /\ SignOutInv /\ RefreshInv /\ FenceInv)
    BY InitType, SignOutInvInit, FenceInvInit, <1>1, PTL DEF Spec
  <1>3. Typed /\ SignOutInv /\ FenceInv => FenceDuringWipe
    BY TabsAssumption DEF SignOutInv, FlagCoversWipe, FenceInv, FlagNeedsFence, FenceDuringWipe
  <1> QED BY <1>2, <1>3, PTL

(* With one sign-out at a time, a refresh that does not own the slot belongs to *)
(* an epoch that is over, so there is never a second refresh of the same epoch. *)
THEOREM SingleFlightAlways ==
  ASSUME ~Overlap
  PROVE  Spec => []SingleFlight
  <1>1. Typed /\ SignOutInv /\ RefreshInv /\ [Next]_vars => Typed' /\ SignOutInv' /\ RefreshInv'
    BY NextType, SafetyStep
  <1>2. Spec => [](Typed /\ SignOutInv /\ RefreshInv)
    BY InitType, SignOutInvInit, <1>1, PTL DEF Spec
  <1>3. RefreshInv => SingleFlight
    BY DEF RefreshInv
  <1> QED BY <1>2, <1>3, PTL

-----------------------------------------------------------------------------
\* What a sign-out ended comes back through the store alone

\* Of the session s, an instance t holds nothing that a sign-out of t ended, but
\* for what the store gave back or would not give up.
Accounted(t, s) == Logins(s) \cap ended[t] \subseteq strayed[t]

Ends(p) == op[p].pc \in {"settle", "revoke"}

\* The call p still owes its store a clear.
Owes(p) == op[p].pc \in {"wipe", "undo"} \/ (At(p, "saved") /\ op[p].eu # epoch[TabOf[p]])

\* A login that was granted and has not resumed yet.
Fresh(p) == At(p, "granted") /\ op[p].kind = "login"

\* The granted calls whose tokens no epoch guard turns away.
MayInstall(p) == Fresh(p) \/ (At(p, "granted") /\ op[p].kind = "refresh" /\ SameEpoch(p))

\* A refresh that could still install its tokens runs beside no sign-out.
WipeIsLater ==
    \A p, q \in Ops : TabOf[p] = TabOf[q] /\ Wiping(p) /\ op[q].kind = "refresh"
                     => op[q].e0 < epoch[TabOf[q]]

SaveEpoch == \A p \in Ops : op[p].eu <= epoch[TabOf[p]]

TokensCurrent == \A t \in Tabs : ~Ending(t) => Accounted(t, tok[t])

StoreCurrent == \A t \in Tabs : ~Ending(t) /\ ~Unwiped(t) => Accounted(t, store[StoreOf[t]])

SaveCurrent ==
    \A p \in Ops : At(p, "save") /\ op[p].eu = epoch[TabOf[p]] => Accounted(TabOf[p], op[p].got)

RefreshCurrent ==
    \A p \in Ops : op[p].kind = "refresh" /\ op[p].e0 = epoch[TabOf[p]]
                   => /\ Accounted(TabOf[p], op[p].held)
                      /\ At(p, "granted") => Accounted(TabOf[p], op[p].got)

LoginFresh ==
    \A p \in Ops : Fresh(p) =>
        LET l == op[p].got.login  t == TabOf[p] IN
        /\ op[p].got # None /\ Logins(op[p].got) = {l}
        /\ l \notin ended[t] /\ l \notin Logins(tok[t]) /\ l \notin Logins(store[StoreOf[t]])
        /\ \A q \in Ops : q # p /\ TabOf[q] = t => l \notin Logins(op[q].held) /\ l \notin Logins(op[q].got)

Known(s) == Logins(s) \subseteq 1..logins

LoginsKnown ==
    /\ \A t \in Tabs : Known(tok[t]) /\ ended[t] \subseteq 1..logins
    /\ \A s \in Stores : Known(store[s])
    /\ \A p \in Ops : Known(op[p].held) /\ Known(op[p].got)

\* Who talks to the server: refreshes post, logins log in.
CallKinds ==
    \A p \in Ops : /\ op[p].pc \in {"post", "unavailable", "blip"} => op[p].kind = "refresh"
                   /\ At(p, "login") => op[p].kind = "login"

CurrentInv == TokensCurrent /\ StoreCurrent /\ SaveCurrent /\ RefreshCurrent

LoginInv == LoginFresh /\ LoginsKnown

\* The sign-ins a call reads or writes the tokens of.
Around(p) ==
    Logins(tok[TabOf[p]]) \cup Logins(store[StoreOf[TabOf[p]]])
        \cup Logins(op[p].held) \cup Logins(op[p].got)

(* Where the tokens that a call's step moves come from. *)
TokFlow(p) ==
    LET t == TabOf[p]  o == op[p] IN
    /\ \A u \in Tabs : (u # t => tok'[u] = tok[u]) /\ strayed[u] \subseteq strayed'[u]
    /\ \/ tok'[t] \in {tok[t], None}
       \/ o.pc \in {"loaded", "polled"} /\ (Ending(t) \/ Logins(tok'[t]) \cap ended[t] \subseteq strayed'[t])
       \/ tok'[t] = o.got /\ MayInstall(p)

StoreFlow(p) ==
    LET t == TabOf[p]  o == op[p]  n == op'[p]  S == StoreOf[t] IN
    /\ \A s \in Stores : s # S => store'[s] = store[s]
    /\ \A u \in Tabs : (u \in late => u \in late') /\ (u # t => (u \in late' => u \in late))
    /\ \/ store'[S] = None
       \/ store'[S] = store[S] /\ (Owes(p) => \/ Owes(p)' \/ t \in late'
                                              \/ Logins(store[S]) \cap ended[t] \subseteq strayed'[t])
       \/ o.pc = "save" /\ n.pc = "saved" /\ n.eu = o.eu /\ Logins(store'[S]) \subseteq Logins(o.got)

CallFlow(p) ==
    LET t == TabOf[p]  o == op[p]  n == op'[p] IN
    /\ \A q \in Ops : q # p => op'[q] = op[q]
    /\ n.eu \in {o.eu, 0, epoch[t]}
    /\ n.pc = "save" => \/ n.got = o.got /\ MayInstall(p)
                        \/ Logins(n.got) \cap ended[t] \subseteq strayed'[t]
    /\ n.pc = "granted" =>
          \/ o.pc = "post" /\ o.kind = n.kind /\ Logins(n.got) \subseteq Logins(o.held)
          \/ /\ o.pc = "login" /\ n.kind = "login" /\ n.got # None
             /\ logins' = logins + 1 /\ n.got.login = logins' /\ Logins(n.got) = {logins'}
    /\ n.kind = "refresh" =>
          \/ n.held = tok[t] /\ n.e0 = epoch[t] /\ ~signingOut[t] /\ n.pc = "load"
          \/ /\ o.kind = "refresh" /\ n.e0 = o.e0
             /\ \/ n.held \in {o.held, None}
                \/ Ending(t) \/ Logins(n.held) \cap ended[t] \subseteq strayed'[t]
    /\ n.pc \in {"post", "unavailable", "blip"} => n.kind = "refresh"
    /\ n.pc = "login" => n.kind = "login"
    /\ Wiping(p)' => Wiping(p)
    /\ Ends(p) => Ends(p)' \/ (tok'[t] = None /\ n.pc = "wipe")

Flow(p) ==
    /\ TokFlow(p) /\ StoreFlow(p) /\ CallFlow(p)
    /\ UNCHANGED <<ended, epoch>>
    /\ logins' = logins \/ logins' = logins + 1
    /\ \A l : l \in Around(p)' => l \in Around(p) \/ (l = logins + 1 /\ logins' = logins + 1)

LEMMA NoLogins == Logins(None) = {}
  BY DEF Logins

LEMMA RestoredLogins ==
  ASSUME NEW o \in OpState
  PROVE  Logins(Restored(o)) \subseteq Logins(o.held) \cup Logins(o.got)
  <1>1. o.got \in Maybe /\ o.held \in Maybe
    BY DEF OpState
  <1>2. CASE o.got = None \/ o.got.bearer # None \/ o.held = None
    BY <1>1, <1>2 DEF Restored
  <1>3. CASE o.got # None /\ o.got.bearer = None /\ o.held # None
    <2>1. o.got \in Session /\ o.held \in Session
      BY <1>1, <1>3 DEF Maybe
    <2>2. Restored(o) = [o.got EXCEPT !.bearer = o.held.bearer]
      BY <1>3 DEF Restored
    <2>3. Restored(o).login = o.got.login /\ Restored(o).bearer = o.held.bearer
      BY <1>3, <2>1, <2>2, SessionFields, BearerType
    <2> DEFINE r == Restored(o)
    <2> HIDE DEF r
    <2>4. Logins(r) \subseteq {r.login} \cup {b.login : b \in {r.bearer} \ {None}}
      BY DEF Logins
    <2>5. Logins(o.got) = {o.got.login} \cup {b.login : b \in {o.got.bearer} \ {None}}
      BY <1>3 DEF Logins
    <2>6. Logins(o.held) = {o.held.login} \cup {b.login : b \in {o.held.bearer} \ {None}}
      BY <1>3 DEF Logins
    <2> QED BY <2>3, <2>4, <2>5, <2>6 DEF r
  <1> QED BY <1>2, <1>3

LEMMA StoredLogins ==
  ASSUME NEW s \in Maybe
  PROVE  Logins(Stored(s)) \subseteq Logins(s)
  <1>1. CASE ~RefreshOnly \/ s = None
    BY <1>1 DEF Stored
  <1>2. CASE RefreshOnly /\ s \in Session
    <2>1. Stored(s) = [s EXCEPT !.bearer = None]
      BY <1>2, SessionFields DEF Stored
    <2>2. Stored(s).login = s.login /\ Stored(s).bearer = None
      BY <1>2, <2>1, BearerType
    <2>3. Logins(s) = {s.login} \cup {b.login : b \in {s.bearer} \ {None}}
      BY <1>2, SessionFields DEF Logins
    <2> DEFINE r == Stored(s)
    <2> HIDE DEF r
    <2>4. Logins(r) \subseteq {r.login} \cup {b.login : b \in {r.bearer} \ {None}}
      BY DEF Logins
    <2> QED BY <2>2, <2>3, <2>4 DEF r
  <1> QED BY <1>1, <1>2 DEF Maybe

LEMMA StepFlow ==
  ASSUME ~CookieMode, Typed, SignOutInv, CallKinds, NEW p \in Ops,
         \/ Start(p) /\ ~StartLogout(p)
         \/ Resume(p) /\ ~DeleteSucceeds(p)
         \/ StoreStep(p) \/ Server(p)
  PROVE  Flow(p)
  <1> DEFINE t == TabOf[p]
             S == StoreOf[t]
             Old == {None, tok[t], store[S], op[p].held, op[p].got}
  <1>0. /\ t \in Tabs /\ S \in Stores /\ op \in [Ops -> OpState] /\ op[p] \in OpState
        /\ tok \in [Tabs -> Maybe] /\ store \in [Stores -> Maybe] /\ logins \in Nat
        /\ strayed \in [Tabs -> SUBSET (1..MaxLogin)] /\ Logins(None) = {}
        /\ op[p].got \in Maybe
    BY OpFields, BoundsAssumption, NoLogins DEF Typed, TypeOK
  <1>i. /\ Idle.pc = "idle" /\ Idle.kind = "none" /\ Idle.held = None /\ Idle.got = None
        /\ Idle.eu = 0
        /\ DOMAIN Idle = {"pc", "kind", "e0", "eu", "held", "got", "tries", "note"}
    BY DEF Idle
  <1> HIDE DEF Idle
  <1>o. \A x \in Old : Logins(x) \subseteq Around(p)
    BY <1>0 DEF Around
  <1>a. ASSUME Logins(tok'[t]) \subseteq Around(p), Logins(store'[S]) \subseteq Around(p),
               Logins(op'[p].held) \subseteq Around(p), Logins(op'[p].got) \subseteq Around(p)
        PROVE  \A l : l \in Around(p)' => l \in Around(p)
    BY <1>a DEF Around
  <1>s. ASSUME NEW s, Strays(t, s)
        PROVE  /\ Logins(s) \cap ended[t] \subseteq strayed'[t]
               /\ \A u \in Tabs : strayed[u] \subseteq strayed'[u]
    BY <1>0, <1>s DEF Strays
  <1>t. ASSUME Kept(t)
        PROVE  /\ Logins(store[S]) \cap ended[t] \subseteq strayed'[t]
               /\ \A u \in Tabs : strayed[u] \subseteq strayed'[u]
    BY <1>0, <1>t DEF Kept
  \* A call that returns.
  <1>b. ASSUME Return(p), UNCHANGED <<tok, late, ended, epoch, logins>>, ~Ends(p),
               \A u \in Tabs : strayed[u] \subseteq strayed'[u],
               \/ store' = [store EXCEPT ![S] = None]
               \/ store' = store /\ (Owes(p) => Logins(store[S]) \cap ended[t] \subseteq strayed'[t])
        PROVE  Flow(p)
    <2>1. op'[p] = Idle /\ \A q \in Ops : q # p => op'[q] = op[q]
      BY <1>0, <1>b DEF Return
    <2>2. CallFlow(p)
      BY <1>b, <1>i, <2>1 DEF CallFlow, Wiping, Ends
    <2>3. TokFlow(p)
      BY <1>0, <1>b DEF TokFlow
    <2>4. StoreFlow(p)
      BY <1>0, <1>b DEF StoreFlow
    <2>5. tok'[t] \in Old /\ store'[S] \in Old /\ op'[p].held \in Old /\ op'[p].got \in Old
      BY <1>0, <1>b, <1>i, <2>1
    <2> HIDE DEF Old
    <2> QED BY <1>a, <1>b, <1>o, <2>2, <2>3, <2>4, <2>5 DEF Flow
  \* A call that installs what it got and goes on to save it.
  <1>c. ASSUME BeginUpdate(p, op[p].got), UNCHANGED <<store, late, ended, epoch, logins>>,
               \/ MayInstall(p) /\ strayed' = strayed
               \/ At(p, "polled") /\ Strays(t, op[p].got)
        PROVE  Flow(p)
    <2>1. /\ \A q \in Ops : q # p => op'[q] = op[q]
          /\ op'[p].pc = "save" /\ op'[p].kind = op[p].kind /\ op'[p].e0 = op[p].e0
          /\ op'[p].held = None /\ op'[p].got = op[p].got /\ op'[p].eu = epoch[t]
      BY <1>0, <1>c, <1>i DEF BeginUpdate
    <2>2. tok' = [tok EXCEPT ![t] = op[p].got]
      BY <1>c DEF BeginUpdate, SetTokens
    <2>3. op[p].pc \in {"granted", "polled"} /\ ~Ends(p) /\ ~Owes(p)
      BY <1>c DEF MayInstall, Fresh, Ends, Owes
    <2>4. CallFlow(p)
      BY <1>c, <1>s, <2>1, <2>3 DEF CallFlow, Wiping
    <2>5. TokFlow(p)
      BY <1>0, <1>c, <1>s, <2>2 DEF TokFlow
    <2>6. StoreFlow(p)
      BY <1>0, <1>c, <2>3 DEF StoreFlow
    <2>7. tok'[t] \in Old /\ store'[S] \in Old /\ op'[p].held \in Old /\ op'[p].got \in Old
      BY <1>0, <1>c, <2>1, <2>2
    <2> HIDE DEF Old
    <2> QED BY <1>a, <1>c, <1>o, <2>4, <2>5, <2>6, <2>7 DEF Flow
  \* A call that drops the tokens and goes on to clear the store.
  <1>d. ASSUME NEW r, op' = [op EXCEPT ![p] = r], r.pc \in {"clear", "undo"},
               r.held \in {op[p].held, None}, r.got \in {op[p].got, None}, r.eu \in {op[p].eu, 0},
               r.kind = "refresh" => op[p].kind = "refresh" /\ r.e0 = op[p].e0,
               SetTokens(t, None), UNCHANGED <<store, late, ended, epoch, logins, strayed>>,
               ~Ends(p), Owes(p) => r.pc = "undo"
        PROVE  Flow(p)
    <2>1. /\ \A q \in Ops : q # p => op'[q] = op[q]
          /\ op'[p] = r
      BY <1>0, <1>d
    <2>2. tok' = [tok EXCEPT ![t] = None]
      BY <1>d DEF SetTokens
    <2>3. CallFlow(p)
      BY <1>d, <2>1 DEF CallFlow, Wiping, Ends
    <2>4. TokFlow(p)
      BY <1>0, <1>d, <2>2 DEF TokFlow
    <2>5. StoreFlow(p)
      BY <1>0, <1>d, <2>1 DEF StoreFlow, Owes
    <2>6. tok'[t] \in Old /\ store'[S] \in Old /\ op'[p].held \in Old /\ op'[p].got \in Old
      BY <1>0, <1>d, <2>1, <2>2
    <2> HIDE DEF Old
    <2> QED BY <1>a, <1>d, <1>o, <2>3, <2>4, <2>5, <2>6 DEF Flow
  \* A call that only moves on.
  <1>e. ASSUME UNCHANGED <<tok, store, late, ended, epoch, logins, strayed>>,
               TRUE /\ CallFlow(p), ~Owes(p), op'[p].held \in Old, op'[p].got \in Old
        PROVE  Flow(p)
    <2>1. TokFlow(p)
      BY <1>0, <1>e DEF TokFlow
    <2>2. StoreFlow(p)
      BY <1>0, <1>e DEF StoreFlow
    <2>3. tok'[t] \in Old /\ store'[S] \in Old
      BY <1>0, <1>e
    <2> HIDE DEF Old
    <2> QED BY <1>a, <1>e, <1>o, <2>1, <2>2, <2>3 DEF Flow
  <1>f. ASSUME Definitive(p), UNCHANGED <<store, late, ended, epoch, logins, strayed>>,
               ~Ends(p), ~Owes(p)
        PROVE  Flow(p)
    <2>1. CASE SameEpoch(p)
      <3>1. BeginClear(p)
        BY <1>f, <2>1 DEF Definitive
      <3> DEFINE r == [Idle EXCEPT !.pc = "clear", !.kind = op[p].kind, !.e0 = op[p].e0]
      <3>2. /\ r.pc = "clear" /\ r.kind = op[p].kind /\ r.e0 = op[p].e0
            /\ r.held = None /\ r.got = None /\ r.eu = 0
        BY <1>i
      <3>3. op' = [op EXCEPT ![p] = r] /\ SetTokens(t, None)
        BY <3>1 DEF BeginClear
      <3> HIDE DEF r
      <3> QED BY <1>d, <1>f, <3>2, <3>3
    <2>2. CASE ~SameEpoch(p)
      BY <1>b, <1>f, <2>2 DEF Definitive
    <2> QED BY <2>1, <2>2
  <1>1. CASE StartRestore(p)
    <2>1. /\ \A q \in Ops : q # p => op'[q] = op[q]
          /\ op'[p].pc = "load" /\ op'[p].kind = "restore" /\ op'[p].held = tok[t] /\ op'[p].got = None
          /\ op'[p].eu = 0
      BY <1>0, <1>1, <1>i DEF StartRestore
    <2>2. CallFlow(p) /\ ~Owes(p)
      BY <1>1, <2>1 DEF CallFlow, StartRestore, Wiping, Ends, Owes
    <2> QED BY <1>1, <1>e, <2>1, <2>2 DEF StartRestore, sdkVars, serverVars
  <1>2. CASE StartRefresh(p)
    <2>1. /\ \A q \in Ops : q # p => op'[q] = op[q]
          /\ op'[p].pc = "load" /\ op'[p].kind = "refresh" /\ op'[p].held = tok[t] /\ op'[p].got = None
          /\ op'[p].e0 = epoch[t] /\ op'[p].eu = 0
      BY <1>0, <1>2, <1>i DEF StartRefresh
    <2>2. CallFlow(p) /\ ~Owes(p)
      BY <1>2, <2>1 DEF CallFlow, StartRefresh, MayRefresh, Wiping, Ends, Owes
    <2> QED BY <1>2, <1>e, <2>1, <2>2 DEF StartRefresh, serverVars
  <1>3. CASE StartLogin(p)
    <2>1. /\ \A q \in Ops : q # p => op'[q] = op[q]
          /\ op'[p].pc = "login" /\ op'[p].kind = "login" /\ op'[p].held = None /\ op'[p].got = None
          /\ op'[p].eu = 0
      BY <1>0, <1>3, <1>i DEF StartLogin
    <2>2. CallFlow(p) /\ ~Owes(p)
      BY <1>3, <2>1 DEF CallFlow, StartLogin, Wiping, Ends, Owes
    <2> QED BY <1>3, <1>e, <2>1, <2>2 DEF StartLogin, sdkVars, serverVars
  <1>4. CASE StartClear(p)
    <2> DEFINE r == [Idle EXCEPT !.pc = "clear", !.kind = "clear"]
    <2>1. r.pc = "clear" /\ r.kind = "clear" /\ r.held = None /\ r.got = None /\ r.eu = 0
      BY <1>i
    <2>2. op' = [op EXCEPT ![p] = r] /\ At(p, "idle") /\ SetTokens(t, None)
      BY <1>4 DEF StartClear
    <2> HIDE DEF r
    <2> QED BY <1>4, <1>d, <2>1, <2>2 DEF StartClear, serverVars, Ends, Owes
  <1>5. CASE StartDelete(p)
    <2>1. /\ \A q \in Ops : q # p => op'[q] = op[q]
          /\ op'[p].pc = "delete" /\ op'[p].kind = "delete" /\ op'[p].held = tok[t] /\ op'[p].got = None
          /\ op'[p].eu = 0
      BY <1>0, <1>5, <1>i DEF StartDelete
    <2>2. CallFlow(p) /\ ~Owes(p)
      BY <1>5, <2>1 DEF CallFlow, StartDelete, Wiping, Ends, Owes
    <2> QED BY <1>5, <1>e, <2>1, <2>2 DEF StartDelete, sdkVars, serverVars
  <1>6. CASE LoadResume(p)
    <2> DEFINE s == Restored(op[p])
    <2>1. /\ UNCHANGED <<store, late, ended, epoch, logins>> /\ At(p, "loaded") /\ ~Ends(p) /\ ~Owes(p)
      BY <1>6 DEF LoadResume, serverVars, Ends, Owes
    <2>2. Logins(s) \subseteq Around(p)
      BY <1>0, RestoredLogins DEF Around
    <2>3. /\ \/ s # op[p].held /\ tok' = [tok EXCEPT ![t] = s]
             \/ s = op[p].held /\ tok' = tok
          /\ s # op[p].held /\ ~Ending(t) => Strays(t, s)
          /\ ~(s # op[p].held /\ ~Ending(t)) => strayed' = strayed
      BY <1>6 DEF LoadResume, SetTokens
    <2> HIDE DEF s
    <2>4. /\ \A u \in Tabs : strayed[u] \subseteq strayed'[u]
          /\ s = op[p].held \/ Ending(t) \/ Logins(s) \cap ended[t] \subseteq strayed'[t]
      BY <1>s, <2>3
    <2>5. TokFlow(p)
      BY <1>0, <2>1, <2>3, <2>4 DEF TokFlow
    <2>6. StoreFlow(p)
      BY <1>0, <2>1 DEF StoreFlow
    <2>7. Logins(tok'[t]) \subseteq Around(p) /\ Logins(store'[S]) \subseteq Around(p)
      BY <1>0, <1>o, <2>1, <2>2, <2>3
    <2>8. CASE Return(p)
      <3>1. op'[p] = Idle /\ \A q \in Ops : q # p => op'[q] = op[q]
        BY <1>0, <2>8 DEF Return
      <3>2. CallFlow(p)
        BY <1>i, <2>1, <3>1 DEF CallFlow, Wiping, Ends
      <3>3. Logins(op'[p].held) = {} /\ Logins(op'[p].got) = {}
        BY <1>0, <1>i, <3>1
      <3> QED BY <1>a, <2>1, <2>5, <2>6, <2>7, <3>2, <3>3 DEF Flow
    <2>9. CASE /\ op[p].kind = "refresh"
               /\ op' = [op EXCEPT ![p].pc = "post", ![p].held = s, ![p].got = None]
      <3>1. /\ \A q \in Ops : q # p => op'[q] = op[q]
            /\ op'[p].pc = "post" /\ op'[p].kind = op[p].kind /\ op'[p].e0 = op[p].e0
            /\ op'[p].held = s /\ op'[p].got = None /\ op'[p].eu = op[p].eu
        BY <1>0, <2>9 DEF OpState
      <3>2. CallFlow(p)
        BY <2>1, <2>4, <2>9, <3>1 DEF CallFlow, Wiping, Ends
      <3>3. Logins(op'[p].held) \subseteq Around(p) /\ Logins(op'[p].got) = {}
        BY <1>0, <2>2, <3>1
      <3> QED BY <1>a, <2>1, <2>5, <2>6, <2>7, <3>2, <3>3 DEF Flow
    <2> QED BY <1>6, <2>8, <2>9 DEF LoadResume, s
  <1>7. CASE RefreshGranted(p)
    <2>1. /\ UNCHANGED <<store, late, ended, epoch, logins, strayed>> /\ At(p, "granted")
          /\ op[p].kind = "refresh"
      BY <1>7 DEF RefreshGranted, serverVars
    <2>2. CASE SameEpoch(p) /\ BeginUpdate(p, op[p].got)
      BY <1>c, <2>1, <2>2 DEF MayInstall
    <2>3. CASE Return(p) /\ UNCHANGED <<tok, unfencing, installedAt>>
      BY <1>b, <2>1, <2>3 DEF Ends, Owes
    <2> QED BY <1>7, <2>2, <2>3 DEF RefreshGranted
  <1>8. CASE RefreshRetry(p)
    <2>1. /\ \A q \in Ops : q # p => op'[q] = op[q]
          /\ op'[p].pc = "post" /\ op'[p].kind = op[p].kind /\ op'[p].e0 = op[p].e0
          /\ op'[p].held = op[p].held /\ op'[p].got = op[p].got /\ op'[p].eu = op[p].eu
      BY <1>0, <1>8 DEF RefreshRetry, OpState
    <2>2. op[p].kind = "refresh"
      BY <1>8 DEF RefreshRetry, CallKinds
    <2>3. CallFlow(p) /\ ~Owes(p)
      BY <1>8, <2>1, <2>2 DEF CallFlow, RefreshRetry, Wiping, Ends, Owes
    <2> QED BY <1>8, <1>e, <2>1, <2>3 DEF RefreshRetry, sdkVars, serverVars
  <1>9. CASE RefreshGivesUp(p)
    BY <1>9, <1>b DEF RefreshGivesUp, serverVars, Ends, Owes
  <1>10. CASE RefreshRejected(p)
    <2>1. /\ UNCHANGED <<store, late, ended, epoch, logins, strayed>>
          /\ op[p].pc \in {"invalid_grant", "unauthenticated"} /\ ~Owes(p) /\ ~Ends(p)
      BY <1>10 DEF RefreshRejected, serverVars, Owes, Ends
    <2>2. CASE Goto(p, "poll") /\ UNCHANGED tok
      <3>1. /\ \A q \in Ops : q # p => op'[q] = op[q]
            /\ op'[p].pc = "poll" /\ op'[p].kind = op[p].kind /\ op'[p].e0 = op[p].e0
            /\ op'[p].held = op[p].held /\ op'[p].got = op[p].got /\ op'[p].eu = op[p].eu
        BY <1>0, <2>2 DEF Goto, OpState
      <3>2. CallFlow(p)
        BY <2>1, <3>1 DEF CallFlow, Wiping, Ends
      <3> QED BY <1>e, <2>1, <2>2, <3>1, <3>2
    <2>3. CASE Definitive(p)
      BY <1>f, <2>1, <2>3
    <2> QED BY <1>10, <2>2, <2>3 DEF RefreshRejected
  <1>11. CASE PollRead(p)
    <2>1. /\ \A q \in Ops : q # p => op'[q] = op[q]
          /\ op'[p].pc = "polled" /\ op'[p].kind = op[p].kind /\ op'[p].e0 = op[p].e0
          /\ op'[p].held = op[p].held /\ op'[p].got = store[S] /\ op'[p].eu = op[p].eu
          /\ op[p].pc \in {"poll", "sleep"}
      BY <1>0, <1>11 DEF PollRead, OpState
    <2>2. CallFlow(p) /\ ~Owes(p)
      BY <2>1 DEF CallFlow, Wiping, Ends, Owes
    <2> QED BY <1>11, <1>e, <2>1, <2>2 DEF PollRead, sdkVars, serverVars
  <1>12. CASE PollResume(p)
    <2>1. /\ UNCHANGED <<store, late, ended, epoch, logins>>
          /\ At(p, "polled") /\ ~Owes(p) /\ ~Ends(p)
      BY <1>12 DEF PollResume, serverVars, Owes, Ends
    <2>2. CASE BeginUpdate(p, op[p].got) /\ Strays(t, op[p].got)
      BY <1>c, <2>1, <2>2
    <2>3. CASE /\ op' = [op EXCEPT ![p].pc = "sleep", ![p].tries = @ + 1, ![p].got = None]
               /\ UNCHANGED <<tok, strayed>>
      <3>1. /\ \A q \in Ops : q # p => op'[q] = op[q]
            /\ op'[p].pc = "sleep" /\ op'[p].kind = op[p].kind /\ op'[p].e0 = op[p].e0
            /\ op'[p].held = op[p].held /\ op'[p].got = None /\ op'[p].eu = op[p].eu
        BY <1>0, <2>3 DEF OpState
      <3>2. CallFlow(p)
        BY <2>1, <3>1 DEF CallFlow, Wiping, Ends
      <3> QED BY <1>e, <2>1, <2>3, <3>1, <3>2
    <2>4. CASE Definitive(p) /\ UNCHANGED strayed
      BY <1>f, <2>1, <2>4
    <2> QED BY <1>12, <2>2, <2>3, <2>4 DEF PollResume
  <1>13. CASE SaveResume(p)
    <2>1. /\ UNCHANGED <<store, late, ended, epoch, logins, strayed>>
          /\ At(p, "saved") /\ ~Ends(p)
      BY <1>13 DEF SaveResume, serverVars, Ends
    <2>2. CASE SetTokens(t, None) /\ Goto(p, "undo")
      <3> DEFINE r == [op[p] EXCEPT !.pc = "undo"]
      <3>1. /\ r.pc = "undo" /\ r.kind = op[p].kind /\ r.e0 = op[p].e0
            /\ r.held = op[p].held /\ r.got = op[p].got /\ r.eu = op[p].eu
        BY <1>0 DEF OpState
      <3>2. op' = [op EXCEPT ![p] = r]
        BY <1>0, <2>2 DEF Goto
      <3> HIDE DEF r
      <3> QED BY <1>d, <2>1, <2>2, <3>1, <3>2
    <2>3. CASE Return(p) /\ UNCHANGED tok /\ epoch[t] = op[p].eu
      <3>1. ~Owes(p)
        BY <2>1, <2>3 DEF Owes
      <3> QED BY <1>b, <2>1, <2>3, <3>1
    <2> QED BY <1>13, <2>2, <2>3 DEF SaveResume
  <1>14. CASE LoginGranted(p)
    <2>1. UNCHANGED <<store, late, ended, epoch, logins, strayed>> /\ MayInstall(p)
          /\ BeginUpdate(p, op[p].got)
      BY <1>14 DEF LoginGranted, serverVars, Fresh, MayInstall
    <2> QED BY <1>c, <2>1
  <1>15. CASE DeleteFails(p)
    BY <1>15, <1>b DEF DeleteFails, serverVars, Ends, Owes
  <1>16. CASE Settle(p)
    <2>1. /\ UNCHANGED <<store, late, ended, epoch, logins, strayed>>
          /\ At(p, "settle") /\ ~Owes(p)
      BY <1>16 DEF Settle, serverVars, Owes
    <2>2. op[p].kind # "refresh"
      BY <2>1 DEF SignOutInv, WipeIsSignOut, Wiping, SignsOut
    <2>3. CASE /\ op' = [op EXCEPT ![p].pc = "revoke", ![p].held = tok[t]]
               /\ UNCHANGED tok
      <3>1. /\ \A q \in Ops : q # p => op'[q] = op[q]
            /\ op'[p].pc = "revoke" /\ op'[p].kind = op[p].kind
            /\ op'[p].held = tok[t] /\ op'[p].got = op[p].got /\ op'[p].eu = op[p].eu
        BY <1>0, <2>3 DEF OpState
      <3>2. CallFlow(p)
        BY <2>1, <2>2, <3>1 DEF CallFlow, Wiping, Ends
      <3> QED BY <1>e, <2>1, <2>3, <3>1, <3>2
    <2>4. CASE SetTokens(t, None) /\ Goto(p, "wipe")
      <3>1. /\ \A q \in Ops : q # p => op'[q] = op[q]
            /\ op'[p].pc = "wipe" /\ op'[p].kind = op[p].kind
            /\ op'[p].held = op[p].held /\ op'[p].got = op[p].got /\ op'[p].eu = op[p].eu
        BY <1>0, <2>4 DEF Goto, OpState
      <3>2. tok' = [tok EXCEPT ![t] = None]
        BY <2>4 DEF SetTokens
      <3>3. CallFlow(p)
        BY <1>0, <2>1, <2>2, <3>1, <3>2 DEF CallFlow, Wiping, Ends
      <3>4. TokFlow(p)
        BY <1>0, <2>1, <3>2 DEF TokFlow
      <3>5. StoreFlow(p)
        BY <1>0, <2>1 DEF StoreFlow
      <3>6. tok'[t] \in Old /\ store'[S] \in Old /\ op'[p].held \in Old /\ op'[p].got \in Old
        BY <1>0, <2>1, <3>1, <3>2
      <3> HIDE DEF Old
      <3> QED BY <1>a, <1>o, <2>1, <3>3, <3>4, <3>5, <3>6 DEF Flow
    <2> QED BY <1>16, <2>3, <2>4 DEF Settle
  <1>17. CASE Revoke(p)
    <2>1. /\ UNCHANGED <<store, late, ended, epoch, logins, strayed>>
          /\ At(p, "revoke") /\ SetTokens(t, None) /\ Goto(p, "wipe") /\ ~Owes(p)
      BY <1>17 DEF Revoke, Owes
    <2>2. op[p].kind # "refresh"
      BY <2>1 DEF SignOutInv, WipeIsSignOut, Wiping, SignsOut
    <2>3. /\ \A q \in Ops : q # p => op'[q] = op[q]
          /\ op'[p].pc = "wipe" /\ op'[p].kind = op[p].kind
          /\ op'[p].held = op[p].held /\ op'[p].got = op[p].got /\ op'[p].eu = op[p].eu
      BY <1>0, <2>1 DEF Goto, OpState
    <2>4. tok' = [tok EXCEPT ![t] = None]
      BY <2>1 DEF SetTokens
    <2>5. CallFlow(p)
      BY <1>0, <2>1, <2>2, <2>3, <2>4 DEF CallFlow, Wiping, Ends
    <2>6. TokFlow(p)
      BY <1>0, <2>1, <2>4 DEF TokFlow
    <2>7. StoreFlow(p)
      BY <1>0, <2>1 DEF StoreFlow
    <2>8. tok'[t] \in Old /\ store'[S] \in Old /\ op'[p].held \in Old /\ op'[p].got \in Old
      BY <1>0, <2>1, <2>3, <2>4
    <2> HIDE DEF Old
    <2> QED BY <1>a, <1>o, <2>1, <2>5, <2>6, <2>7, <2>8 DEF Flow
  \* A sign-out whose clear landed, was rejected or is still to land.
  <1>w. ASSUME UNCHANGED <<tok, ended, epoch, logins>>, At(p, "wipe"), Goto(p, "wipeCache"),
               store' = [store EXCEPT ![S] = None] \/ store' = store,
               late' = late \cup {t} \/ late' = late,
               \A u \in Tabs : strayed[u] \subseteq strayed'[u],
               \/ store' = [store EXCEPT ![S] = None]
               \/ late' = late \cup {t} \/ Logins(store[S]) \cap ended[t] \subseteq strayed'[t]
        PROVE  Flow(p)
    <2>1. op[p].kind # "refresh"
      BY <1>w DEF SignOutInv, WipeIsSignOut, Wiping, SignsOut
    <2>2. /\ \A q \in Ops : q # p => op'[q] = op[q]
          /\ op'[p].pc = "wipeCache" /\ op'[p].kind = op[p].kind
          /\ op'[p].held = op[p].held /\ op'[p].got = op[p].got /\ op'[p].eu = op[p].eu
      BY <1>0, <1>w DEF Goto, OpState
    <2>3. CallFlow(p)
      BY <1>w, <2>1, <2>2 DEF CallFlow, Wiping, Ends
    <2>4. TokFlow(p)
      BY <1>0, <1>w DEF TokFlow
    <2>5. StoreFlow(p)
      BY <1>0, <1>w DEF StoreFlow
    <2>6. tok'[t] \in Old /\ store'[S] \in Old /\ op'[p].held \in Old /\ op'[p].got \in Old
      BY <1>0, <1>w, <2>2
    <2> HIDE DEF Old
    <2> QED BY <1>a, <1>o, <1>w, <2>3, <2>4, <2>5, <2>6 DEF Flow
  <1>18. CASE WipeCapped(p)
    BY <1>18, <1>w DEF WipeCapped, sdkVars, serverVars
  <1>19. CASE CacheWiped(p)
    BY <1>19, <1>b DEF CacheWiped, serverVars, Ends, Owes
  <1>20. CASE LoadRead(p)
    <2>1. /\ \A q \in Ops : q # p => op'[q] = op[q]
          /\ op'[p].pc = "loaded" /\ op'[p].kind = op[p].kind /\ op'[p].e0 = op[p].e0
          /\ op'[p].held = op[p].held /\ op'[p].got = store[S] /\ op'[p].eu = op[p].eu
          /\ At(p, "load")
      BY <1>0, <1>20 DEF LoadRead, OpState
    <2>2. CallFlow(p) /\ ~Owes(p)
      BY <2>1 DEF CallFlow, Wiping, Ends, Owes
    <2> QED BY <1>20, <1>e, <2>1, <2>2 DEF LoadRead, sdkVars, serverVars
  <1>21. CASE SaveLands(p)
    <2>1. /\ UNCHANGED <<tok, late, ended, epoch, logins, strayed>> /\ At(p, "save")
          /\ store' = [store EXCEPT ![S] = Stored(op[p].got)]
      BY <1>21 DEF SaveLands, sdkVars, serverVars
    <2>2. /\ \A q \in Ops : q # p => op'[q] = op[q]
          /\ op'[p].pc = "saved" /\ op'[p].kind = op[p].kind /\ op'[p].e0 = op[p].e0
          /\ op'[p].held = op[p].held /\ op'[p].got = None /\ op'[p].eu = op[p].eu
      BY <1>0, <1>21 DEF SaveLands, OpState
    <2>3. Logins(store'[S]) \subseteq Logins(op[p].got)
      BY <1>0, <2>1, StoredLogins
    <2>4. CallFlow(p)
      BY <2>1, <2>2 DEF CallFlow, Wiping, Ends
    <2>5. TokFlow(p)
      BY <1>0, <2>1 DEF TokFlow
    <2>6. StoreFlow(p)
      BY <1>0, <2>1, <2>2, <2>3 DEF StoreFlow
    <2>7. /\ Logins(tok'[t]) \subseteq Around(p) /\ Logins(store'[S]) \subseteq Around(p)
          /\ Logins(op'[p].held) \subseteq Around(p) /\ Logins(op'[p].got) \subseteq Around(p)
      BY <1>0, <2>1, <2>2, <2>3 DEF Around
    <2> QED BY <1>a, <2>1, <2>4, <2>5, <2>6, <2>7 DEF Flow
  <1>22. CASE StoreRefuses(p)
    <2>1. /\ UNCHANGED <<store, late, ended, epoch, logins, tok>> /\ Return(p) /\ ~Ends(p)
          /\ op[p].pc \in {"load", "poll", "polled", "save", "undo", "clear"}
      BY <1>22 DEF StoreRefuses, serverVars, Ends
    <2>2. CASE op[p].pc \in {"undo", "clear"}
      BY <1>22, <1>b, <1>t, <2>1, <2>2 DEF StoreRefuses
    <2>3. CASE op[p].pc \in {"load", "poll", "polled", "save"}
      BY <1>22, <1>b, <2>1, <2>3 DEF StoreRefuses, Owes
    <2> QED BY <2>1, <2>2, <2>3
  <1>23. CASE ClearLands(p)
    BY <1>23, <1>b DEF ClearLands, serverVars, Ends
  <1>24. CASE WipeLands(p)
    BY <1>24, <1>w DEF WipeLands, sdkVars, serverVars
  <1>30. CASE WipeFails(p)
    BY <1>30, <1>t, <1>w DEF WipeFails, serverVars
  \* What the server and the network answer leaves the instance and its store alone.
  <1>g. ASSUME NEW c \in {"offline", "invalid_grant", "unauthenticated", "unavailable", "blip"},
               At(p, "post"), Goto(p, c), UNCHANGED <<tok, store, late, ended, epoch, logins, strayed>>
        PROVE  Flow(p)
    <2>1. op[p].kind = "refresh"
      BY <1>g DEF CallKinds
    <2>2. /\ \A q \in Ops : q # p => op'[q] = op[q]
          /\ op'[p].pc = c /\ op'[p].kind = op[p].kind /\ op'[p].e0 = op[p].e0
          /\ op'[p].held = op[p].held /\ op'[p].got = op[p].got /\ op'[p].eu = op[p].eu
      BY <1>0, <1>g DEF Goto, OpState
    <2>3. CallFlow(p) /\ ~Owes(p)
      BY <1>g, <2>1, <2>2 DEF CallFlow, Wiping, Ends, Owes
    <2> QED BY <1>e, <1>g, <2>2, <2>3
  <1>25. CASE ServerRotates(p)
    <2> DEFINE new == Pair(op[p].held.user, op[p].held.login, issued + 1)
    <2>0. Key(p) = op[p].held
      BY DEF Key
    <2>1. /\ UNCHANGED <<tok, store, late, ended, epoch, logins, strayed>> /\ At(p, "post")
          /\ op[p].held # None
      BY <1>25, <2>0 DEF ServerRotates, Valid, sdkVars
    <2>2. CASE op' = [op EXCEPT ![p].pc = "granted", ![p].got = new]
      <3>1. op[p].held \in Session /\ issued + 1 \in 1..MaxGrant
        BY <1>0, <1>25, <2>1, BoundsAssumption DEF ServerRotates, Typed, TypeOK, OpState, Maybe
      <3>2. op[p].held.user \in Users /\ op[p].held.login \in 1..MaxLogin
        BY <3>1, SessionFields
      <3>3. Logins(new) = {op[p].held.login} /\ op[p].kind = "refresh"
        BY <2>1, <3>1, <3>2, PairType DEF CallKinds
      <3>4. Logins(new) \subseteq Logins(op[p].held)
        BY <2>1, <3>3 DEF Logins
      <3> HIDE DEF new
      <3>5. /\ \A q \in Ops : q # p => op'[q] = op[q]
            /\ op'[p].pc = "granted" /\ op'[p].kind = op[p].kind /\ op'[p].e0 = op[p].e0
            /\ op'[p].held = op[p].held /\ op'[p].got = new /\ op'[p].eu = op[p].eu
        BY <1>0, <2>2 DEF OpState
      <3>6. CallFlow(p)
        BY <2>1, <3>3, <3>4, <3>5 DEF CallFlow, Wiping, Ends
      <3>7. TokFlow(p)
        BY <1>0, <2>1 DEF TokFlow
      <3>8. StoreFlow(p)
        BY <1>0, <2>1 DEF StoreFlow, Owes
      <3>9. /\ Logins(tok'[t]) \subseteq Around(p) /\ Logins(store'[S]) \subseteq Around(p)
            /\ Logins(op'[p].held) \subseteq Around(p) /\ Logins(op'[p].got) \subseteq Around(p)
        BY <1>0, <2>1, <3>4, <3>5 DEF Around
      <3> QED BY <1>a, <2>1, <3>6, <3>7, <3>8, <3>9 DEF Flow
    <2>3. ASSUME NEW c \in {"offline", "unavailable", "blip"}, Goto(p, c)
          PROVE  Flow(p)
      BY <1>g, <2>1, <2>3
    <2> QED BY <1>25, <2>0, <2>2, <2>3 DEF ServerRotates
  <1>26. CASE ServerRejects(p)
    BY <1>26, <1>g, RejectionsAssumption DEF ServerRejects, sdkVars, serverVars
  <1>27. CASE NetworkFails(p)
    BY <1>27, <1>g DEF NetworkFails, sdkVars, serverVars
  <1>28. CASE ServerLogsIn(p)
    <2>1. PICK u \in Accounts[t] :
            op' = [op EXCEPT ![p].pc = "granted",
                             ![p].got = Pair(u, logins + 1, issued + 1)]
      BY <1>28 DEF ServerLogsIn
    <2> DEFINE new == Pair(u, logins + 1, issued + 1)
    <2>2. /\ UNCHANGED <<tok, store, late, ended, epoch, strayed>> /\ At(p, "login")
          /\ logins' = logins + 1
      BY <1>28 DEF ServerLogsIn, sdkVars
    <2>3. new.login = logins + 1 /\ new # None /\ Logins(new) = {logins + 1}
      <3>1. logins + 1 \in 1..MaxLogin /\ issued + 1 \in 1..MaxGrant
        BY <1>28, BoundsAssumption DEF ServerLogsIn, Typed, TypeOK
      <3>2. u \in Users
        BY <1>0, AccountsAssumption
      <3>3. new \in Session /\ new.login = logins + 1 /\ Logins(new) = {logins + 1}
        BY <3>1, <3>2, PairType
      <3> QED BY <3>3, SessionFields
    <2>4. op[p].kind = "login"
      BY <2>2 DEF CallKinds
    <2> HIDE DEF new
    <2>5. /\ \A q \in Ops : q # p => op'[q] = op[q]
          /\ op'[p].pc = "granted" /\ op'[p].kind = op[p].kind
          /\ op'[p].held = op[p].held /\ op'[p].got = new /\ op'[p].eu = op[p].eu
      BY <1>0, <2>1 DEF OpState, new
    <2>6. CallFlow(p)
      BY <2>2, <2>3, <2>4, <2>5 DEF CallFlow, Wiping, Ends
    <2>7. TokFlow(p)
      BY <1>0, <2>2 DEF TokFlow
    <2>8. StoreFlow(p)
      BY <1>0, <2>2 DEF StoreFlow, Owes
    <2>9. \A l : l \in Around(p)' => l \in Around(p) \/ l = logins + 1
      <3>1. Around(p)' \subseteq Around(p) \cup Logins(new)
        BY <2>2, <2>5 DEF Around
      <3> QED BY <2>3, <3>1
    <2> QED BY <2>2, <2>6, <2>7, <2>8, <2>9 DEF Flow
  <1>29. CASE LoginFails(p)
    BY <1>29, <1>b DEF LoginFails, serverVars, Ends, Owes
  <1> QED BY <1>1, <1>2, <1>3, <1>4, <1>5, <1>6, <1>7, <1>8, <1>9, <1>10, <1>11, <1>12, <1>13, <1>14,
             <1>15, <1>16, <1>17, <1>18, <1>19, <1>20, <1>21, <1>22, <1>23, <1>24, <1>25, <1>26,
             <1>27, <1>28, <1>29, <1>30 DEF Start, Resume, StoreStep, Server

\* The assumption of the next lemmas: instances that do not share their stores.
OwnStores == \A t, u \in Tabs : StoreOf[t] = StoreOf[u] => t = u

LEMMA FlowKeepsKinds ==
  ASSUME Typed, CallKinds, SaveEpoch, NEW p \in Ops, Flow(p)
  PROVE  CallKinds' /\ SaveEpoch'
  <1>1. CallKinds'
    BY DEF CallKinds, Flow, CallFlow
  <1>2. \A q \in Ops : op[q].eu \in Nat /\ epoch[TabOf[q]] \in Nat
    BY TabsAssumption, BoundsAssumption DEF Typed, TypeOK, OpState
  <1> QED BY <1>1, <1>2 DEF SaveEpoch, Flow, CallFlow

(* A refresh begins only while its instance does not sign out, so with an epoch *)
(* that the next sign-out makes an earlier one.                                 *)
LEMMA FlowKeepsLater ==
  ASSUME Typed, SignOutInv, WipeIsLater, NEW p \in Ops, Flow(p)
  PROVE  WipeIsLater'
  <1> SUFFICES ASSUME NEW r \in Ops, NEW q \in Ops, TabOf[r] = TabOf[q], Wiping(r)', op'[q].kind = "refresh"
               PROVE  op'[q].e0 < epoch'[TabOf[q]]
    BY DEF WipeIsLater
  <1>1. /\ \A c \in Ops : c # p => op'[c] = op[c]
        /\ epoch' = epoch
        /\ Wiping(p)' => Wiping(p)
    BY DEF Flow, CallFlow
  <1>2. Wiping(r) /\ signingOut[TabOf[q]]
    BY <1>1 DEF Wiping, SignOutInv, FlagCoversWipe
  <1>3. op[q].kind = "refresh" /\ op'[q].e0 = op[q].e0
    BY <1>1, <1>2 DEF Flow, CallFlow
  <1> QED BY <1>1, <1>2, <1>3 DEF WipeIsLater

(* Tokens move only from a place that has none of an ended sign-in, or from the *)
(* store, which is noted.                                                       *)
LEMMA FlowKeepsCurrent ==
  ASSUME OwnStores, Typed, SignOutInv, SaveEpoch, WipeIsLater, CurrentInv, LoginInv,
         NEW p \in Ops, Flow(p)
  PROVE  CurrentInv'
  <1> DEFINE t == TabOf[p]
             S == StoreOf[t]
  <1>0. /\ t \in Tabs /\ S \in Stores /\ \A q \in Ops : TabOf[q] \in Tabs
        /\ \A u \in Tabs : StoreOf[u] \in Stores /\ (u # t => StoreOf[u] # S)
        /\ Logins(None) = {}
    BY TabsAssumption, StoresAssumption, NoLogins DEF OwnStores
  <1>1. /\ \A q \in Ops : q # p => op'[q] = op[q]
        /\ \A u \in Tabs : u # t => tok'[u] = tok[u] /\ store'[StoreOf[u]] = store[StoreOf[u]]
        /\ ended' = ended /\ epoch' = epoch
        /\ \A u \in Tabs : u # t => (u \in late' <=> u \in late)
        /\ t \in late => t \in late'
        /\ \A u \in Tabs : strayed[u] \subseteq strayed'[u]
    BY <1>0 DEF Flow, CallFlow, TokFlow, StoreFlow
  <1>2. ASSUME NEW u \in Tabs PROVE u # t => (Ending(u)' <=> Ending(u)) /\ (Unwiped(u)' <=> Unwiped(u))
    BY <1>1, <1>2 DEF Ending, Unwiped
  <1>3. ~Ending(t)' => ~Ending(t) \/ (tok'[t] = None /\ op'[p].pc = "wipe")
    BY <1>1 DEF Ending, Ends, Flow, CallFlow
  <1>4. ASSUME NEW u \in Tabs, NEW s, Accounted(u, s)
        PROVE  Logins(s) \cap ended'[u] \subseteq strayed'[u]
    BY <1>1, <1>4 DEF Accounted
  \* A call that may install has tokens of no ended sign-in.
  <1>5. ASSUME MayInstall(p) PROVE Accounted(t, op[p].got)
    <2>1. CASE Fresh(p)
      BY <2>1 DEF LoginInv, LoginFresh, Accounted
    <2>2. CASE At(p, "granted") /\ op[p].kind = "refresh" /\ SameEpoch(p)
      BY <2>2 DEF CurrentInv, RefreshCurrent, SameEpoch
    <2> QED BY <1>5, <2>1, <2>2 DEF MayInstall
  <1>6. TokensCurrent'
    <2> SUFFICES ASSUME NEW u \in Tabs, ~Ending(u)'
                 PROVE  Logins(tok'[u]) \cap ended'[u] \subseteq strayed'[u]
      BY DEF TokensCurrent, Accounted
    <2>1. CASE u # t
      BY <1>1, <1>2, <1>4, <2>1 DEF CurrentInv, TokensCurrent
    <2>2. CASE u = t /\ tok'[t] = None
      BY <1>0, <2>2
    <2>3. CASE u = t /\ ~Ending(t)
      <3>1. CASE tok'[t] = tok[t]
        BY <1>4, <2>3, <3>1 DEF CurrentInv, TokensCurrent
      <3>2. CASE tok'[t] = op[p].got /\ MayInstall(p)
        BY <1>0, <1>4, <1>5, <2>3, <3>2
      <3>3. CASE Logins(tok'[t]) \cap ended[t] \subseteq strayed'[t]
        BY <1>1, <2>3, <3>3
      <3> QED BY <2>2, <2>3, <3>1, <3>2, <3>3 DEF Flow, TokFlow
    <2> QED BY <1>3, <2>1, <2>2, <2>3
  <1>7. StoreCurrent'
    <2> SUFFICES ASSUME NEW u \in Tabs, ~Ending(u)', ~Unwiped(u)'
                 PROVE  Logins(store'[StoreOf[u]]) \cap ended'[u] \subseteq strayed'[u]
      BY DEF StoreCurrent, Accounted
    <2>1. CASE u # t
      BY <1>1, <1>2, <1>4, <2>1 DEF CurrentInv, StoreCurrent
    <2>2. CASE u = t /\ store'[S] = None
      BY <1>0, <2>2
    <2>3. CASE u = t /\ ~Ending(t)
      <3>1. CASE store'[S] = store[S] /\ (Owes(p) => \/ Owes(p)' \/ t \in late'
                                                     \/ Logins(store[S]) \cap ended[t] \subseteq strayed'[t])
        <4>1. CASE Logins(store[S]) \cap ended[t] \subseteq strayed'[t]
          BY <1>1, <2>3, <3>1, <4>1
        <4>2. CASE Owes(p) => Owes(p)' \/ t \in late'
          <5>1. ~Owes(p)' /\ t \notin late'
            BY <1>1, <2>3 DEF Unwiped, Owes
          <5>2. ~Unwiped(t)
            <6> SUFFICES ASSUME Unwiped(t) PROVE FALSE
              OBVIOUS
            <6>1. PICK q \in Ops : /\ TabOf[q] = t
                                   /\ \/ op[q].pc \in {"wipe", "undo"}
                                      \/ At(q, "saved") /\ op[q].eu # epoch[t]
              BY <1>1, <5>1 DEF Unwiped
            <6>2. q # p
              BY <4>2, <5>1, <6>1 DEF Owes
            <6>3. Unwiped(t)'
              BY <1>1, <6>1, <6>2 DEF Unwiped
            <6> QED BY <2>3, <6>3
          <5> QED BY <1>0, <1>4, <2>3, <3>1, <5>2 DEF CurrentInv, StoreCurrent
        <4> QED BY <3>1, <4>1, <4>2
      <3>2. CASE op[p].pc = "save" /\ op'[p].pc = "saved" /\ op'[p].eu = op[p].eu
                 /\ Logins(store'[S]) \subseteq Logins(op[p].got)
        <4>1. op'[p].eu = epoch'[t]
          BY <1>0, <2>3, <3>2 DEF Unwiped
        <4>2. Accounted(t, op[p].got)
          BY <1>1, <3>2, <4>1 DEF CurrentInv, SaveCurrent
        <4>3. Logins(op[p].got) \cap ended'[t] \subseteq strayed'[t]
          BY <1>0, <1>4, <4>2
        <4> QED BY <2>3, <3>2, <4>3
      <3> QED BY <2>2, <2>3, <3>1, <3>2 DEF Flow, StoreFlow
    <2>4. CASE u = t /\ op'[p].pc = "wipe"
      BY <2>4 DEF Unwiped
    <2> QED BY <1>3, <2>1, <2>3, <2>4
  <1>8. SaveCurrent'
    <2> SUFFICES ASSUME NEW q \in Ops, op'[q].pc = "save", op'[q].eu = epoch'[TabOf[q]]
                 PROVE  Logins(op'[q].got) \cap ended'[TabOf[q]] \subseteq strayed'[TabOf[q]]
      BY DEF SaveCurrent, Accounted
    <2>1. CASE q # p
      BY <1>0, <1>1, <1>4, <2>1 DEF CurrentInv, SaveCurrent
    <2>2. CASE q = p /\ op'[p].got = op[p].got /\ MayInstall(p)
      BY <1>0, <1>4, <1>5, <2>2
    <2>3. CASE q = p /\ Logins(op'[p].got) \cap ended[t] \subseteq strayed'[t]
      BY <1>1, <2>3
    <2> QED BY <2>1, <2>2, <2>3 DEF Flow, CallFlow
  <1>9. RefreshCurrent'
    <2> SUFFICES ASSUME NEW q \in Ops, op'[q].kind = "refresh", op'[q].e0 = epoch'[TabOf[q]]
                 PROVE  /\ Logins(op'[q].held) \cap ended'[TabOf[q]] \subseteq strayed'[TabOf[q]]
                        /\ op'[q].pc = "granted" =>
                              Logins(op'[q].got) \cap ended'[TabOf[q]] \subseteq strayed'[TabOf[q]]
      BY DEF RefreshCurrent, Accounted
    <2>1. CASE q # p
      BY <1>0, <1>1, <1>4, <2>1 DEF CurrentInv, RefreshCurrent
    <2>2. CASE q = p /\ op'[p].held = tok[t] /\ ~signingOut[t] /\ op'[p].pc = "load"
      <3>1. ~Ending(t)
        BY <2>2 DEF SignOutInv, FlagCoversWipe, Ending, Wiping
      <3> QED BY <1>0, <1>4, <2>2, <3>1 DEF CurrentInv, TokensCurrent
    <2>3. CASE /\ q = p /\ op[p].kind = "refresh" /\ op[p].e0 = op'[p].e0
               /\ \/ op'[p].held \in {op[p].held, None}
                  \/ Ending(t) \/ Logins(op'[p].held) \cap ended[t] \subseteq strayed'[t]
      <3>1. op[p].e0 = epoch[t]
        BY <1>1, <2>3
      <3>2. ~Ending(t)
        BY <1>0, <2>3, <3>1, BoundsAssumption DEF WipeIsLater, Ending, Wiping, Typed, TypeOK
      <3>3. Accounted(t, op[p].held)
        BY <2>3, <3>1 DEF CurrentInv, RefreshCurrent
      <3>4. Logins(op[p].held) \cap ended'[t] \subseteq strayed'[t]
        BY <1>0, <1>4, <3>3
      <3>5. Logins(op'[p].held) \cap ended'[t] \subseteq strayed'[t]
        BY <1>0, <1>1, <2>3, <3>2, <3>4
      <3>6. op'[p].pc = "granted" => Logins(op'[p].got) \subseteq Logins(op[p].held)
        BY <2>3 DEF Flow, CallFlow
      <3> QED BY <2>3, <3>4, <3>5, <3>6
    <2> QED BY <2>1, <2>2, <2>3 DEF Flow, CallFlow
  <1> QED BY <1>6, <1>7, <1>8, <1>9 DEF CurrentInv

(* What a login was granted is nowhere else until the login resumes. *)
LEMMA FlowKeepsLogins ==
  ASSUME OwnStores, Typed, CallKinds, LoginInv, NEW p \in Ops, Flow(p)
  PROVE  LoginInv'
  <1> DEFINE t == TabOf[p]
             S == StoreOf[t]
  <1>0. /\ t \in Tabs /\ S \in Stores /\ \A q \in Ops : TabOf[q] \in Tabs
        /\ \A u \in Tabs : StoreOf[u] \in Stores /\ (u # t => StoreOf[u] # S)
        /\ logins \in Nat /\ logins' \in {logins, logins + 1} /\ Logins(None) = {}
    BY TabsAssumption, StoresAssumption, BoundsAssumption, NoLogins DEF OwnStores, Typed, TypeOK, Flow
  <1>1. /\ \A q \in Ops : q # p => op'[q] = op[q]
        /\ \A u \in Tabs : u # t => tok'[u] = tok[u]
        /\ \A s \in Stores : s # S => store'[s] = store[s]
        /\ ended' = ended
    BY <1>0 DEF Flow, CallFlow, TokFlow, StoreFlow
  <1>2. /\ Logins(tok[t]) \subseteq Around(p) /\ Logins(store[S]) \subseteq Around(p)
        /\ Logins(op[p].held) \subseteq Around(p) /\ Logins(op[p].got) \subseteq Around(p)
        /\ Logins(tok'[t]) \subseteq Around(p)' /\ Logins(store'[S]) \subseteq Around(p)'
        /\ Logins(op'[p].held) \subseteq Around(p)' /\ Logins(op'[p].got) \subseteq Around(p)'
    BY DEF Around
  <1>3. Around(p) \subseteq 1..logins
    BY <1>0 DEF Around, LoginInv, LoginsKnown, Known
  <1>4. \A l : l \in Around(p)' => l \in Around(p) \/ (l = logins + 1 /\ logins' = logins + 1)
    BY DEF Flow
  <1>5. 1..logins \subseteq 1..logins' /\ Around(p)' \subseteq 1..logins'
    BY <1>0, <1>3, <1>4
  <1>6. LoginsKnown'
    <2>1. ASSUME NEW u \in Tabs PROVE Logins(tok'[u]) \subseteq 1..logins' /\ ended'[u] \subseteq 1..logins'
      BY <1>1, <1>2, <1>5, <2>1 DEF Known, LoginInv, LoginsKnown
    <2>2. ASSUME NEW s \in Stores PROVE Logins(store'[s]) \subseteq 1..logins'
      BY <1>1, <1>2, <1>5, <2>2 DEF Known, LoginInv, LoginsKnown
    <2>3. ASSUME NEW q \in Ops PROVE Logins(op'[q].held) \subseteq 1..logins' /\ Logins(op'[q].got) \subseteq 1..logins'
      BY <1>1, <1>2, <1>5, <2>3 DEF Known, LoginInv, LoginsKnown
    <2> QED BY <2>1, <2>2, <2>3 DEF LoginsKnown, Known
  <1>7. LoginFresh'
    <2> SUFFICES ASSUME NEW r \in Ops, Fresh(r)', NEW l, l = op'[r].got.login
                 PROVE  /\ op'[r].got # None /\ Logins(op'[r].got) = {l}
                        /\ l \notin ended'[TabOf[r]] /\ l \notin Logins(tok'[TabOf[r]])
                        /\ l \notin Logins(store'[StoreOf[TabOf[r]]])
                        /\ \A q \in Ops : q # r /\ TabOf[q] = TabOf[r] =>
                              l \notin Logins(op'[q].held) /\ l \notin Logins(op'[q].got)
      BY DEF LoginFresh
    <2>1. CASE r = p
      <3>1. /\ op[p].pc = "login" /\ op'[p].got # None /\ l = logins + 1 /\ Logins(op'[p].got) = {l}
        BY <2>1 DEF Fresh, CallKinds, Flow, CallFlow
      <3>2. ~MayInstall(p)
        BY <3>1 DEF MayInstall, Fresh
      <3>3. /\ tok'[t] \in {tok[t], None} /\ store'[S] \in {store[S], None}
        BY <3>1, <3>2 DEF Flow, TokFlow, StoreFlow
      <3>4. l \notin 1..logins
        BY <1>0, <3>1
      <3>5. l \notin ended'[t]
        BY <1>0, <1>1, <3>4 DEF LoginInv, LoginsKnown
      <3>6. l \notin Logins(tok'[t]) /\ l \notin Logins(store'[S])
        BY <1>0, <3>3, <3>4 DEF LoginInv, LoginsKnown, Known
      <3>7. \A q \in Ops : q # p => l \notin Logins(op'[q].held) /\ l \notin Logins(op'[q].got)
        BY <1>1, <3>4 DEF LoginInv, LoginsKnown, Known
      <3> QED BY <2>1, <3>1, <3>5, <3>6, <3>7
    <2>2. CASE r # p
      <3>1. Fresh(r) /\ op'[r] = op[r]
        BY <1>1, <2>2 DEF Fresh
      <3>2. /\ op[r].got # None /\ Logins(op[r].got) = {l} /\ l \notin ended[TabOf[r]]
            /\ l \notin Logins(tok[TabOf[r]]) /\ l \notin Logins(store[StoreOf[TabOf[r]]])
            /\ \A q \in Ops : q # r /\ TabOf[q] = TabOf[r] =>
                  l \notin Logins(op[q].held) /\ l \notin Logins(op[q].got)
        BY <3>1 DEF LoginInv, LoginFresh
      <3>3. CASE TabOf[r] # t
        BY <1>0, <1>1, <2>2, <3>1, <3>2, <3>3
      <3>4. CASE TabOf[r] = t
        <4>1. l \notin Around(p)
          BY <2>2, <3>2, <3>4 DEF Around
        <4>2. l \in 1..logins
          BY <3>1, <3>2 DEF LoginInv, LoginsKnown, Known
        <4>3. l \notin Around(p)'
          BY <1>0, <1>4, <4>1, <4>2
        <4> QED BY <1>1, <1>2, <2>2, <3>1, <3>2, <3>4, <4>3
      <3> QED BY <3>3, <3>4
    <2> QED BY <2>1, <2>2
  <1> QED BY <1>6, <1>7 DEF LoginInv

\* The invariant of a sign-out that only the store takes back.
EndedInv ==
    /\ Typed /\ SignOutInv /\ RefreshInv
    /\ CallKinds /\ SaveEpoch /\ WipeIsLater /\ CurrentInv /\ LoginInv

LEMMA EndedInit == Init => EndedInv
  <1> SUFFICES ASSUME Init PROVE EndedInv
    OBVIOUS
  <1>1. Typed /\ SignOutInv /\ RefreshInv
    BY InitType, SignOutInvInit
  <1>2. /\ \A p \in Ops : op[p] = Idle /\ TabOf[p] \in Tabs
        /\ \A t \in Tabs : tok[t] = None /\ ended[t] = {} /\ epoch[t] = 0
        /\ \A s \in Stores : store[s] = None
        /\ Logins(None) = {} /\ logins = 0
    BY StoresAssumption, TabsAssumption, NoLogins DEF Init
  <1>3. CallKinds /\ WipeIsLater /\ SaveEpoch
    BY <1>2 DEF Idle, CallKinds, WipeIsLater, Wiping, SaveEpoch
  <1>4. CurrentInv
    BY <1>2 DEF Idle, CurrentInv, TokensCurrent, StoreCurrent, SaveCurrent, RefreshCurrent, Accounted
  <1>5. LoginInv
    BY <1>2 DEF Idle, LoginInv, LoginFresh, LoginsKnown, Known, Fresh
  <1> QED BY <1>1, <1>3, <1>4, <1>5 DEF EndedInv

(* When a sign-out of one instance begins, by its host or by a broadcast, every *)
(* refresh and every save under way there is of an earlier epoch, and no login  *)
(* that is still to resume is among those that end.                             *)
LEMMA EpochTurns ==
  ASSUME EndedInv, NEW t \in Tabs, NEW p,
         \A q \in Ops : q # p => op'[q] = op[q],
         p \in Ops => op'[p].pc \notin {"save", "granted"} /\ op'[p].kind # "refresh"
                      /\ op'[p].eu \in {op[p].eu, 0} /\ op'[p].held \in {op[p].held, None}
                      /\ op'[p].got \in {op[p].got, None},
         \A u \in Tabs : epoch'[u] = IF u = t THEN epoch[u] + 1 ELSE epoch[u],
         \A u \in Tabs : ended'[u] = IF u = t THEN ended[u] \cup Logins(tok[t]) ELSE ended[u],
         \A u \in Tabs : tok'[u] \in {tok[u], None},
         UNCHANGED <<store, logins, strayed>>
  PROVE  SaveEpoch' /\ SaveCurrent' /\ RefreshCurrent' /\ LoginInv'
  <1>0. /\ \A q \in Ops : TabOf[q] \in Tabs /\ op[q].eu \in Nat /\ op[q].e0 \in Nat
        /\ \A u \in Tabs : epoch[u] \in Nat /\ StoreOf[u] \in Stores
        /\ Logins(None) = {}
    BY TabsAssumption, StoresAssumption, BoundsAssumption, NoLogins DEF EndedInv, Typed, TypeOK, OpState
  <1>1. SaveEpoch'
    BY <1>0 DEF EndedInv, SaveEpoch
  <1>2. SaveCurrent'
    <2> SUFFICES ASSUME NEW q \in Ops, op'[q].pc = "save", op'[q].eu = epoch'[TabOf[q]]
                 PROVE  Logins(op'[q].got) \cap ended'[TabOf[q]] \subseteq strayed'[TabOf[q]]
      BY DEF SaveCurrent, Accounted
    <2>1. op'[q] = op[q] /\ op[q].eu <= epoch[TabOf[q]]
      BY DEF EndedInv, SaveEpoch
    <2>2. TabOf[q] # t
      BY <1>0, <2>1
    <2> QED BY <1>0, <2>1, <2>2 DEF EndedInv, CurrentInv, SaveCurrent, Accounted
  <1>3. RefreshCurrent'
    <2> SUFFICES ASSUME NEW q \in Ops, op'[q].kind = "refresh", op'[q].e0 = epoch'[TabOf[q]]
                 PROVE  /\ Logins(op'[q].held) \cap ended'[TabOf[q]] \subseteq strayed'[TabOf[q]]
                        /\ op'[q].pc = "granted" =>
                              Logins(op'[q].got) \cap ended'[TabOf[q]] \subseteq strayed'[TabOf[q]]
      BY DEF RefreshCurrent, Accounted
    <2>1. op'[q] = op[q] /\ op[q].e0 <= epoch[TabOf[q]]
      BY DEF EndedInv, RefreshInv, RefreshEpoch
    <2>2. TabOf[q] # t
      BY <1>0, <2>1
    <2> QED BY <1>0, <2>1, <2>2 DEF EndedInv, CurrentInv, RefreshCurrent, Accounted
  <1>4. LoginFresh'
    <2> SUFFICES ASSUME NEW r \in Ops, Fresh(r)', NEW l, l = op'[r].got.login
                 PROVE  /\ op'[r].got # None /\ Logins(op'[r].got) = {l}
                        /\ l \notin ended'[TabOf[r]] /\ l \notin Logins(tok'[TabOf[r]])
                        /\ l \notin Logins(store'[StoreOf[TabOf[r]]])
                        /\ \A q \in Ops : q # r /\ TabOf[q] = TabOf[r] =>
                              l \notin Logins(op'[q].held) /\ l \notin Logins(op'[q].got)
      BY DEF LoginFresh
    <2>1. r # p /\ op'[r] = op[r] /\ Fresh(r)
      BY DEF Fresh
    <2>2. /\ op[r].got # None /\ Logins(op[r].got) = {l} /\ l \notin ended[TabOf[r]]
          /\ l \notin Logins(tok[TabOf[r]]) /\ l \notin Logins(store[StoreOf[TabOf[r]]])
          /\ \A q \in Ops : q # r /\ TabOf[q] = TabOf[r] =>
                l \notin Logins(op[q].held) /\ l \notin Logins(op[q].got)
      BY <2>1 DEF EndedInv, LoginInv, LoginFresh
    <2>3. l \notin ended'[TabOf[r]]
      BY <1>0, <2>2
    <2>4. l \notin Logins(tok'[TabOf[r]])
      BY <1>0, <2>2
    <2>5. \A q \in Ops : op'[q].held \in {op[q].held, None} /\ op'[q].got \in {op[q].got, None}
      OBVIOUS
    <2> QED BY <1>0, <2>1, <2>2, <2>3, <2>4, <2>5
  <1>5. LoginsKnown'
    <2>1. \A u \in Tabs : Logins(tok'[u]) \subseteq 1..logins' /\ ended'[u] \subseteq 1..logins'
      BY <1>0 DEF EndedInv, LoginInv, LoginsKnown, Known
    <2>2. \A q \in Ops : op'[q].held \in {op[q].held, None} /\ op'[q].got \in {op[q].got, None}
      OBVIOUS
    <2>3. \A q \in Ops : Logins(op'[q].held) \subseteq 1..logins' /\ Logins(op'[q].got) \subseteq 1..logins'
      BY <1>0, <2>2 DEF EndedInv, LoginInv, LoginsKnown, Known
    <2> QED BY <2>1, <2>3 DEF EndedInv, LoginInv, LoginsKnown, Known
  <1> QED BY <1>1, <1>2, <1>3, <1>4, <1>5 DEF LoginInv

(* The steps by which a sign-out begins. *)
LEMMA SignOutKeeps ==
  ASSUME OwnStores, EndedInv, NEW p \in Ops, StartLogout(p) \/ DeleteSucceeds(p)
  PROVE  CallKinds' /\ SaveEpoch' /\ WipeIsLater' /\ CurrentInv' /\ LoginInv'
  <1> DEFINE t == TabOf[p]
  <1>0. /\ t \in Tabs /\ op \in [Ops -> OpState] /\ op[p] \in OpState
        /\ \A q \in Ops : TabOf[q] \in Tabs /\ op[q].e0 \in Nat
        /\ \A u \in Tabs : epoch[u] \in Nat
        /\ epoch \in [Tabs -> 0..MaxEpoch] /\ ended \in [Tabs -> SUBSET (1..MaxLogin)]
    BY OpFields, TabsAssumption, BoundsAssumption DEF EndedInv, Typed, TypeOK, OpState
  <1>1. /\ UNCHANGED <<tok, store, late, logins, strayed>> /\ BeginSignOut(p)
        /\ op'[p].pc = "settle" /\ \A q \in Ops : q # p => op'[q] = op[q]
        /\ op'[p].kind \in {"logout", "delete"} /\ op'[p].eu \in {op[p].eu, 0}
        /\ op'[p].held \in {op[p].held, None} /\ op'[p].got \in {op[p].got, None}
        /\ op[p].pc \in {"idle", "delete"}
    <2>1. CASE StartLogout(p)
      BY <1>0, <2>1 DEF StartLogout, BeginSignOut, Idle, serverVars
    <2>2. CASE DeleteSucceeds(p)
      <3>1. op[p].kind \in {"logout", "delete"}
        BY <2>2 DEF DeleteSucceeds, EndedInv, SignOutInv, WipeIsSignOut, SignsOut
      <3> QED BY <1>0, <2>2, <3>1 DEF DeleteSucceeds, BeginSignOut, Goto, OpState
    <2> QED BY <2>1, <2>2
  <1>2. /\ \A u \in Tabs : epoch'[u] = IF u = t THEN epoch[u] + 1 ELSE epoch[u]
        /\ \A u \in Tabs : ended'[u] = IF u = t THEN ended[u] \cup Logins(tok[t]) ELSE ended[u]
    BY <1>0, <1>1 DEF BeginSignOut
  <1>3. SaveEpoch' /\ SaveCurrent' /\ RefreshCurrent' /\ LoginInv'
    <2>1. \A u \in Tabs : tok'[u] \in {tok[u], None}
      BY <1>1
    <2>2. \A q \in Ops : q # p => op'[q] = op[q]
      BY <1>1
    <2>3. /\ op'[p].pc \notin {"save", "granted"} /\ op'[p].kind # "refresh"
          /\ op'[p].eu \in {op[p].eu, 0} /\ op'[p].held \in {op[p].held, None}
          /\ op'[p].got \in {op[p].got, None}
      BY <1>1
    <2>4. UNCHANGED <<store, logins, strayed>>
      BY <1>1
    <2> HIDE DEF t
    <2> QED BY <1>0, <1>2, <2>1, <2>2, <2>3, <2>4, EpochTurns
  <1>4. CallKinds'
    BY <1>1 DEF EndedInv, CallKinds
  <1>5. WipeIsLater'
    <2> SUFFICES ASSUME NEW r \in Ops, NEW q \in Ops, TabOf[r] = TabOf[q], Wiping(r)', op'[q].kind = "refresh"
                 PROVE  op'[q].e0 < epoch'[TabOf[q]]
      BY DEF WipeIsLater
    <2>1. op'[q] = op[q] /\ op[q].e0 <= epoch[TabOf[q]]
      BY <1>1 DEF EndedInv, RefreshInv, RefreshEpoch
    <2>2. CASE TabOf[q] = t
      BY <1>0, <1>2, <2>1, <2>2
    <2>3. CASE TabOf[q] # t
      <3>1. Wiping(r)
        BY <1>1, <2>3 DEF Wiping
      <3> QED BY <1>2, <1>0, <2>1, <2>3, <3>1 DEF EndedInv, WipeIsLater
    <2> QED BY <2>2, <2>3
  <1>6. Ending(t)'
    BY <1>1 DEF Ending
  <1>7. ASSUME NEW u \in Tabs, u # t
        PROVE  /\ Ending(u)' <=> Ending(u)
               /\ Unwiped(u)' <=> Unwiped(u)
               /\ ended'[u] = ended[u] /\ epoch'[u] = epoch[u]
    BY <1>1, <1>2, <1>7 DEF Ending, Unwiped
  <1>8. TokensCurrent' /\ StoreCurrent'
    BY <1>1, <1>6, <1>7 DEF EndedInv, CurrentInv, TokensCurrent, StoreCurrent, Accounted
  <1> QED BY <1>3, <1>4, <1>5, <1>8 DEF CurrentInv

(* Broadcasts, owed callbacks, clears that land late or not at all, and reloads. *)
LEMMA TabKeepsEnded ==
  ASSUME OwnStores, EndedInv, NEW t \in Tabs, TabStep(t) \/ Reload(t)
  PROVE  CallKinds' /\ SaveEpoch' /\ WipeIsLater' /\ CurrentInv' /\ LoginInv'
  <1>0. /\ op \in [Ops -> OpState]
        /\ \A q \in Ops : TabOf[q] \in Tabs /\ op[q].e0 \in Nat
        /\ \A u \in Tabs : epoch[u] \in Nat /\ StoreOf[u] \in Stores /\ (u # t => StoreOf[u] # StoreOf[t])
        /\ epoch \in [Tabs -> 0..MaxEpoch] /\ ended \in [Tabs -> SUBSET (1..MaxLogin)]
        /\ strayed \in [Tabs -> SUBSET (1..MaxLogin)]
        /\ tok \in [Tabs -> Maybe] /\ store \in [Stores -> Maybe] /\ Logins(None) = {}
    BY TabsAssumption, StoresAssumption, BoundsAssumption, NoLogins
       DEF EndedInv, Typed, TypeOK, OpState, OwnStores
  <1>1. CASE RunFence(t) \/ RunUnfence(t)
    <2>1. UNCHANGED <<tok, store, late, op, logins, epoch, ended, strayed>>
      BY <1>1 DEF RunFence, RunUnfence, serverVars
    <2> QED BY <2>1 DEF EndedInv, CallKinds, SaveEpoch, WipeIsLater, Wiping, CurrentInv, TokensCurrent,
               StoreCurrent, SaveCurrent, RefreshCurrent, LoginInv, LoginFresh, LoginsKnown, Known,
               Accounted, Ending, Unwiped, Fresh
  <1>2. CASE LateClearLands(t) \/ LateClearFails(t)
    <2>1. /\ UNCHANGED <<tok, op, logins, epoch, ended>> /\ late' = late \ {t}
          /\ \A u \in Tabs : strayed[u] \subseteq strayed'[u]
          /\ \A s \in Stores : store'[s] \in {store[s], None}
          /\ \A u \in Tabs : u # t => store'[StoreOf[u]] = store[StoreOf[u]]
          /\ Logins(store'[StoreOf[t]]) \cap ended[t] \subseteq strayed'[t]
      <3>1. CASE LateClearLands(t)
        BY <1>0, <3>1 DEF LateClearLands, sdkVars, serverVars
      <3>2. CASE LateClearFails(t)
        BY <1>0, <3>2 DEF LateClearFails, Kept, serverVars
      <3> QED BY <1>2, <3>1, <3>2
    <2>2. CallKinds' /\ SaveEpoch' /\ WipeIsLater'
      BY <2>1 DEF EndedInv, CallKinds, SaveEpoch, WipeIsLater, Wiping
    <2>3. ASSUME NEW u \in Tabs, NEW s, Accounted(u, s)
          PROVE  Logins(s) \cap ended'[u] \subseteq strayed'[u]
      BY <2>1, <2>3 DEF Accounted
    <2>4. \A u \in Tabs : Ending(u)' <=> Ending(u)
      BY <2>1 DEF Ending
    <2>5. TokensCurrent'
      <3> SUFFICES ASSUME NEW u \in Tabs, ~Ending(u)
                   PROVE  Logins(tok'[u]) \cap ended'[u] \subseteq strayed'[u]
        BY <2>4 DEF TokensCurrent, Accounted
      <3> QED BY <2>1, <2>3 DEF EndedInv, CurrentInv, TokensCurrent
    <2>6. SaveCurrent'
      <3> SUFFICES ASSUME NEW q \in Ops, op'[q].pc = "save", op'[q].eu = epoch'[TabOf[q]]
                   PROVE  Logins(op'[q].got) \cap ended'[TabOf[q]] \subseteq strayed'[TabOf[q]]
        BY DEF SaveCurrent, Accounted
      <3> QED BY <1>0, <2>1, <2>3 DEF EndedInv, CurrentInv, SaveCurrent
    <2>7. RefreshCurrent'
      <3> SUFFICES ASSUME NEW q \in Ops, op'[q].kind = "refresh", op'[q].e0 = epoch'[TabOf[q]]
                   PROVE  /\ Logins(op'[q].held) \cap ended'[TabOf[q]] \subseteq strayed'[TabOf[q]]
                          /\ op'[q].pc = "granted" =>
                                Logins(op'[q].got) \cap ended'[TabOf[q]] \subseteq strayed'[TabOf[q]]
        BY DEF RefreshCurrent, Accounted
      <3> QED BY <1>0, <2>1, <2>3 DEF EndedInv, CurrentInv, RefreshCurrent
    <2>8. StoreCurrent'
      <3> SUFFICES ASSUME NEW u \in Tabs, ~Ending(u)', ~Unwiped(u)'
                   PROVE  Logins(store'[StoreOf[u]]) \cap ended'[u] \subseteq strayed'[u]
        BY DEF StoreCurrent, Accounted
      <3>1. CASE u = t
        BY <2>1, <3>1
      <3>2. CASE u # t
        <4>1. ~Ending(u) /\ ~Unwiped(u)
          BY <2>1, <2>4, <3>2 DEF Unwiped
        <4> QED BY <2>1, <2>3, <3>2, <4>1 DEF EndedInv, CurrentInv, StoreCurrent
      <3> QED BY <3>1, <3>2
    <2>9. LoginFresh'
      <3>1. \A s \in Stores : Logins(store'[s]) \subseteq Logins(store[s])
        BY <1>0, <2>1
      <3>2. \A r \in Ops : Fresh(r)' <=> Fresh(r)
        BY <2>1 DEF Fresh
      <3> QED BY <1>0, <2>1, <3>1, <3>2 DEF EndedInv, LoginInv, LoginFresh
    <2>10. LoginsKnown'
      <3>1. \A s \in Stores : Logins(store'[s]) \subseteq 1..logins'
        BY <1>0, <2>1 DEF EndedInv, LoginInv, LoginsKnown, Known
      <3> QED BY <2>1, <3>1 DEF EndedInv, LoginInv, LoginsKnown, Known
    <2> QED BY <2>2, <2>5, <2>6, <2>7, <2>8, <2>9, <2>10 DEF CurrentInv, LoginInv
  <1>3. CASE RemoteSignOut(t)
    <2>1. /\ UNCHANGED <<store, op, logins, strayed>> /\ late' = late \cup {t}
          /\ tok' = [tok EXCEPT ![t] = None]
          /\ \A u \in Tabs : epoch'[u] = IF u = t THEN epoch[u] + 1 ELSE epoch[u]
          /\ \A u \in Tabs : ended'[u] = IF u = t THEN ended[u] \cup Logins(tok[t]) ELSE ended[u]
      BY <1>0, <1>3 DEF RemoteSignOut, serverVars
    <2>2. SaveEpoch' /\ SaveCurrent' /\ RefreshCurrent' /\ LoginInv'
      <3>1. /\ \A u \in Tabs : tok'[u] \in {tok[u], None}
            /\ \A q \in Ops : op'[q] = op[q]
        BY <1>0, <2>1
      <3> QED BY <2>1, <3>1, NoneAssumption, EpochTurns
    <2>3. CallKinds'
      BY <2>1 DEF EndedInv, CallKinds
    <2>4. WipeIsLater'
      BY <1>0, <2>1 DEF EndedInv, WipeIsLater, Wiping
    <2>5. ASSUME NEW u \in Tabs, u # t
          PROVE  /\ Ending(u)' <=> Ending(u)
                 /\ Unwiped(u)' <=> Unwiped(u)
                 /\ ended'[u] = ended[u] /\ tok'[u] = tok[u]
      BY <1>0, <2>1, <2>5 DEF Ending, Unwiped
    <2>6. Unwiped(t)' /\ tok'[t] = None
      BY <1>0, <2>1 DEF Unwiped
    <2>7. TokensCurrent'
      BY <1>0, <2>1, <2>5, <2>6 DEF EndedInv, CurrentInv, TokensCurrent, Accounted
    <2>8. StoreCurrent'
      BY <1>0, <2>1, <2>5, <2>6 DEF EndedInv, CurrentInv, StoreCurrent, Accounted
    <2> QED BY <2>2, <2>3, <2>4, <2>7, <2>8 DEF CurrentInv
  <1>4. CASE Reload(t)
    <2>1. /\ UNCHANGED <<store, logins>> /\ (\A u \in Tabs : u # t => (u \in late' <=> u \in late))
          /\ \A u \in Tabs : tok'[u] = IF u = t THEN None ELSE tok[u]
          /\ \A u \in Tabs : ended'[u] = IF u = t THEN {} ELSE ended[u]
          /\ \A u \in Tabs : u # t => epoch'[u] = epoch[u] /\ strayed'[u] = strayed[u]
          /\ epoch'[t] = 0
          /\ \A q \in Ops : op'[q] = IF TabOf[q] = t THEN Idle ELSE op[q]
      BY <1>0, <1>4 DEF Reload, serverVars
    <2>2. ASSUME NEW q \in Ops, TabOf[q] = t
          PROVE  /\ op'[q].pc = "idle" /\ op'[q].kind = "none" /\ op'[q].held = None /\ op'[q].got = None
                 /\ op'[q].eu = 0
      BY <2>1, <2>2 DEF Idle
    <2>3. ASSUME NEW u \in Tabs, u # t
          PROVE  /\ Ending(u)' <=> Ending(u)
                 /\ Unwiped(u)' <=> Unwiped(u)
      BY <2>1, <2>3 DEF Ending, Unwiped
    <2>4. CallKinds' /\ WipeIsLater'
      BY <1>0, <2>1, <2>2 DEF EndedInv, CallKinds, WipeIsLater, Wiping
    <2>5. SaveEpoch'
      BY <1>0, <2>1, <2>2 DEF EndedInv, SaveEpoch
    <2>6. TokensCurrent' /\ StoreCurrent'
      BY <1>0, <2>1, <2>3 DEF EndedInv, CurrentInv, TokensCurrent, StoreCurrent, Accounted
    <2>7. SaveCurrent'
      BY <1>0, <2>1, <2>2 DEF EndedInv, CurrentInv, SaveCurrent, Accounted
    <2>8. RefreshCurrent'
      BY <1>0, <2>1, <2>2 DEF EndedInv, CurrentInv, RefreshCurrent, Accounted
    <2>9. LoginFresh'
      <3> SUFFICES ASSUME NEW r \in Ops, Fresh(r)', NEW l, l = op'[r].got.login
                   PROVE  /\ op'[r].got # None /\ Logins(op'[r].got) = {l}
                          /\ l \notin ended'[TabOf[r]] /\ l \notin Logins(tok'[TabOf[r]])
                          /\ l \notin Logins(store'[StoreOf[TabOf[r]]])
                          /\ \A q \in Ops : q # r /\ TabOf[q] = TabOf[r] =>
                                l \notin Logins(op'[q].held) /\ l \notin Logins(op'[q].got)
        BY DEF LoginFresh
      <3>1. TabOf[r] # t /\ op'[r] = op[r] /\ Fresh(r)
        BY <1>0, <2>1, <2>2 DEF Fresh
      <3>2. \A q \in Ops : TabOf[q] = TabOf[r] => op'[q] = op[q]
        BY <1>0, <2>1, <3>1
      <3>3. /\ op[r].got # None /\ Logins(op[r].got) = {l} /\ l \notin ended[TabOf[r]]
            /\ l \notin Logins(tok[TabOf[r]]) /\ l \notin Logins(store[StoreOf[TabOf[r]]])
            /\ \A q \in Ops : q # r /\ TabOf[q] = TabOf[r] =>
                  l \notin Logins(op[q].held) /\ l \notin Logins(op[q].got)
        BY <3>1 DEF EndedInv, LoginInv, LoginFresh
      <3> QED BY <1>0, <2>1, <3>1, <3>2, <3>3
    <2>10. LoginsKnown'
      BY <1>0, <2>1, <2>2 DEF EndedInv, LoginInv, LoginsKnown, Known
    <2> QED BY <2>4, <2>5, <2>6, <2>7, <2>8, <2>9, <2>10 DEF CurrentInv, LoginInv
  <1> QED BY <1>1, <1>2, <1>3, <1>4 DEF TabStep

LEMMA EndedStep ==
  ASSUME ~CookieMode, ~Overlap, OwnStores, EndedInv, [Next]_vars
  PROVE  EndedInv'
  <1>0. Typed' /\ SignOutInv' /\ RefreshInv'
    BY NextType, SafetyStep DEF EndedInv
  <1>1. CASE UNCHANGED vars
    BY <1>0, <1>1 DEF vars, EndedInv, CallKinds, SaveEpoch, WipeIsLater, Wiping, CurrentInv,
                TokensCurrent, StoreCurrent, SaveCurrent, RefreshCurrent, LoginInv, LoginFresh, LoginsKnown,
                Known, Accounted, Ending, Unwiped, Fresh
  <1>2. ASSUME NEW p \in Ops, Flow(p) PROVE EndedInv'
    BY <1>0, <1>2, FlowKeepsKinds, FlowKeepsLater, FlowKeepsCurrent, FlowKeepsLogins
       DEF EndedInv
  <1>3. ASSUME NEW p \in Ops, StartLogout(p) \/ DeleteSucceeds(p) PROVE EndedInv'
    BY <1>0, <1>3, SignOutKeeps DEF EndedInv
  <1>4. ASSUME NEW p \in Ops, Start(p) \/ Resume(p) \/ StoreStep(p) \/ Server(p) PROVE EndedInv'
    BY <1>2, <1>3, <1>4, StepFlow DEF EndedInv
  <1>5. ASSUME NEW t \in Tabs, TabStep(t) \/ Reload(t) PROVE EndedInv'
    BY <1>0, <1>5, TabKeepsEnded DEF EndedInv
  <1> QED BY <1>1, <1>4, <1>5 DEF Next

(* What a sign-out ended comes back through the store alone: once the sign-out  *)
(* has dropped the tokens, its instance holds none of an ended sign-in and, once *)
(* its clears have landed, its store has none, but for what a read of the store  *)
(* gave back or a rejected clear left there.  Stores may take any time and fail, *)
(* waits may be given up, replies may be lost and pages reloaded; the instances  *)
(* have stores of their own, no refresh cookie, and one sign-out at a time.      *)
THEOREM OnlyTheStoreRevivesAlways ==
  ASSUME ~CookieMode, ~Overlap, OwnStores
  PROVE  Spec => []OnlyTheStoreRevives
  <1>1. EndedInv /\ [Next]_vars => EndedInv'
    BY EndedStep
  <1>2. Spec => []EndedInv
    BY EndedInit, <1>1, PTL DEF Spec
  <1>3. EndedInv => OnlyTheStoreRevives
    BY DEF EndedInv, CurrentInv, TokensCurrent, StoreCurrent, OnlyTheStoreRevives, Accounted
  <1> QED BY <1>2, <1>3, PTL

-----------------------------------------------------------------------------
\* A session that instances share

\* The assumption of the next lemmas: one page's instances on one store that
\* answers and keeps what it is given, a server whose replies arrive, and nobody
\* who signs out, clears or reloads.
SharedStore ==
    /\ \A t, u \in Tabs : StoreOf[t] = StoreOf[u] /\ Threads[t] = Threads[u]
    /\ ~SlowStore /\ ~StoreMayFail /\ ~RefreshOnly /\ ~CookieMode /\ ~LostReplies
    /\ \A p \in Ops : Kinds[p] \subseteq {"refresh", "restore", "login"}
    /\ Rejections \subseteq {"invalid_grant"}
    /\ MaxReload = 0

InStore(p) == op[p].pc \in StorePCs

\* With a store that answers in a microtask, a thread has at most one call on
\* its way through the store, and none while a clear nobody awaits is pending.
OneAtStore ==
    \A p \in Ops : InStore(p) =>
        /\ \A q \in Ops : Threads[TabOf[q]] = Threads[TabOf[p]] /\ InStore(q) => p = q
        /\ \A u \in late : Threads[u] # Threads[TabOf[p]]

HasGrant(s, g) == s # None /\ s.grant = g

\* No sign-out ever begins: what its actions lead to is never reached.
NoSignOuts ==
    /\ \A t \in Tabs : epoch[t] = 0 /\ mail[t] = 0
    /\ late = {}
    /\ \A p \in Ops :
          /\ op[p].e0 = 0 /\ op[p].eu = 0 /\ ~SignsOut(p)
          /\ op[p].pc \notin {"undo", "delete", "settle", "revoke", "wipe", "wipeCache", "unauthenticated"}

\* A refresh posts tokens it has; what the server rejects stays dead.
PostsHeld ==
    \A p \in Ops :
        /\ op[p].pc \in {"post", "unavailable", "blip", "invalid_grant", "poll", "polled", "sleep"}
           => op[p].held # None
        /\ op[p].pc \in {"invalid_grant", "poll", "polled", "sleep"} => ~Valid(op[p].held)
        /\ At(p, "granted") /\ op[p].kind = "refresh" => SameSubject(op[p].held, op[p].got)

\* What a call just read is still what the store holds, and a clear under way
\* clears nothing alive.
ReadsStore ==
    \A p \in Ops :
        /\ op[p].pc \in {"loaded", "polled"} => op[p].got = store[StoreOf[TabOf[p]]]
        /\ At(p, "clear") => ~Valid(store[StoreOf[TabOf[p]]])

GrantKnown(s) == s # None => s.grant \in 1..issued

GrantsKnown ==
    /\ live \subseteq 1..issued
    /\ \A t \in Tabs : GrantKnown(tok[t])
    /\ \A s \in Stores : GrantKnown(store[s])
    /\ \A p \in Ops : GrantKnown(op[p].held) /\ GrantKnown(op[p].got)

\* A pair on its way to the store that the store does not hold yet.
Carries(p) == At(p, "granted") \/ (At(p, "save") /\ op[p].got # store[StoreOf[TabOf[p]]])

\* It is alive and nobody else can post it before the store has it.
CarriesAlone ==
    \A p \in Ops : Carries(p) =>
        /\ Valid(op[p].got)
        /\ \A q \in Ops : q # p => ~HasGrant(op[q].held, op[p].got.grant)
                                   /\ ~HasGrant(op[q].got, op[p].got.grant)
        /\ At(p, "granted") =>
              /\ \A t \in Tabs : ~HasGrant(tok[t], op[p].got.grant)
              /\ \A s \in Stores : ~HasGrant(store[s], op[p].got.grant)

\* While anything is alive, the store holds a live pair or is about to get one.
SomeoneHolds ==
    live # {} => \A t \in Tabs :
        \/ Valid(store[StoreOf[t]])
        \/ \E p \in Ops : op[p].pc \in {"granted", "save"} /\ Valid(op[p].got)

SharedInv ==
    /\ Typed /\ OneAtStore /\ CallKinds /\ NoSignOuts /\ PostsHeld /\ ReadsStore
    /\ GrantsKnown /\ CarriesAlone /\ SomeoneHolds

\* The grant g is somewhere the call p reads or writes.
Near(p, g) ==
    \/ HasGrant(tok[TabOf[p]], g) \/ HasGrant(store[StoreOf[TabOf[p]]], g)
    \/ HasGrant(op[p].held, g) \/ HasGrant(op[p].got, g)

(* What a call's step does to the pairs it holds, and to what is alive. *)
ServerFlow(p) ==
    LET o == op[p]  n == op'[p] IN
    \/ n.pc # "granted" /\ live' = live /\ issued' = issued
    \/ /\ n.pc = "granted" /\ o.pc \in {"post", "login"} /\ n.held = o.held
       /\ issued' = issued + 1 /\ HasGrant(n.got, issued + 1)
       /\ issued + 1 \in live' /\ live' \subseteq live \cup {issued + 1}
       /\ \A g \in live : g \notin live' => HasGrant(o.held, g)
       /\ n.kind = "refresh" => SameSubject(o.held, n.got)

PairFlow(p) ==
    LET t == TabOf[p]  S == StoreOf[t]  o == op[p]  n == op'[p] IN
    /\ o.pc = "granted" => n.pc = "save" /\ n.got = o.got
    /\ \/ store'[S] = store[S] /\ o.pc # "save"
       \/ store'[S] = o.got /\ o.pc = "save" /\ n.pc = "saved"
       \/ store'[S] = None /\ o.pc = "clear" /\ n.pc = "idle"
    /\ n.pc \in {"loaded", "polled"} => n.got = store[S] /\ store'[S] = store[S]
    /\ n.pc = "save" => o.pc \in {"granted", "polled"} /\ n.got = o.got
    /\ n.pc = "clear" => o.pc = "polled" /\ (o.got = None \/ HasGrant(o.held, o.got.grant))
    /\ n.pc \in {"post", "unavailable", "blip", "invalid_grant", "poll", "polled", "sleep"} => n.held # None
    /\ n.pc \in {"invalid_grant", "poll", "polled", "sleep"} => n.held = o.held /\ ~Valid(o.held)
    /\ InStore(p) \/ Free(t) \/ n.pc \notin StorePCs
    /\ InStore(p) \/ Free(t) \/ (n.held \in {o.held, None} /\ (n.got \in {o.got, None} \/ n.pc = "granted"))
    /\ n.e0 = 0 /\ n.eu = 0 /\ n.kind \notin {"logout", "delete"}
    /\ n.pc \notin {"undo", "delete", "settle", "revoke", "wipe", "wipeCache", "unauthenticated"}
    /\ UNCHANGED <<epoch, mail, late>>

\* No pair but the server's newest comes from elsewhere.
NearFlow(p) ==
    \A g : \/ HasGrant(tok[TabOf[p]], g)' \/ HasGrant(store[StoreOf[TabOf[p]]], g)'
           \/ HasGrant(op[p].held, g)' \/ (HasGrant(op[p].got, g)' /\ op'[p].pc # "granted")
           => Near(p, g)

OthersStay(p) ==
    /\ \A q \in Ops : q # p => op'[q] = op[q]
    /\ \A u \in Tabs : u # TabOf[p] => tok'[u] = tok[u]
    /\ \A s \in Stores : s # StoreOf[TabOf[p]] => store'[s] = store[s]

LEMMA PairStep ==
  ASSUME SharedStore, SharedInv, NEW p \in Ops,
         Start(p) \/ Resume(p) \/ StoreStep(p) \/ Server(p)
  PROVE  OthersStay(p) /\ ServerFlow(p) /\ PairFlow(p) /\ NearFlow(p)
  <1> DEFINE t == TabOf[p]
             S == StoreOf[t]
             Old == {None, tok[t], store[S], op[p].held, op[p].got}
             Keep == UNCHANGED <<live, issued, epoch, mail, late>>
  <1>0. /\ t \in Tabs /\ S \in Stores /\ op \in [Ops -> OpState] /\ op[p] \in OpState
        /\ tok \in [Tabs -> Maybe] /\ store \in [Stores -> Maybe]
    BY OpFields DEF Typed, TypeOK, SharedInv
  <1>i. /\ Idle.pc = "idle" /\ Idle.kind = "none" /\ Idle.held = None /\ Idle.got = None
        /\ Idle.e0 = 0 /\ Idle.eu = 0
        /\ DOMAIN Idle = {"pc", "kind", "e0", "eu", "held", "got", "tries", "note"}
    BY DEF Idle
  <1> HIDE DEF Idle
  <1>n. /\ epoch[t] = 0 /\ op[p].e0 = 0 /\ op[p].eu = 0 /\ op[p].kind \notin {"logout", "delete"}
        /\ op[p].pc \notin {"undo", "delete", "settle", "revoke", "wipe", "wipeCache", "unauthenticated"}
    BY <1>0 DEF SharedInv, NoSignOuts, SignsOut
  <1>k. \A c \in StorePCs : c \notin {"idle", "granted", "post", "login", "unavailable", "blip", "offline",
                                      "invalid_grant", "sleep"}
    BY DEF StorePCs
  <1>a. ASSUME tok'[t] \in Old, store'[S] \in Old, op'[p].held \in Old,
               op'[p].got \in Old \/ op'[p].pc = "granted"
        PROVE  NearFlow(p)
    BY <1>a DEF NearFlow, Near, HasGrant
  <1>s. ASSUME NEW r, op' = [op EXCEPT ![p] = r],
               tok' = tok \/ \E x : tok' = [tok EXCEPT ![t] = x],
               store' = store \/ \E x : store' = [store EXCEPT ![S] = x]
        PROVE  OthersStay(p) /\ op'[p] = r
    BY <1>0, <1>s DEF OthersStay
  \* A call that returns.
  <1>b. ASSUME Return(p), UNCHANGED <<tok, store>>, Keep, op[p].pc \notin {"granted", "save"}
        PROVE  OthersStay(p) /\ ServerFlow(p) /\ PairFlow(p) /\ NearFlow(p)
    <2>1. OthersStay(p) /\ op'[p] = Idle
      BY <1>b, <1>s DEF Return
    <2>2. NearFlow(p)
      BY <1>0, <1>a, <1>b, <1>i, <2>1
    <2>3. ServerFlow(p)
      BY <1>b, <1>i, <2>1 DEF ServerFlow
    <2>4. PairFlow(p)
      BY <1>b, <1>i, <1>k, <2>1 DEF PairFlow
    <2> QED BY <2>1, <2>2, <2>3, <2>4
  \* A call that installs what it got and goes on to save it.
  <1>c. ASSUME BeginUpdate(p, op[p].got), UNCHANGED store, Keep,
               op[p].pc \in {"granted", "polled"}, InStore(p) \/ Free(t)
        PROVE  OthersStay(p) /\ ServerFlow(p) /\ PairFlow(p) /\ NearFlow(p)
    <2> DEFINE r == [Idle EXCEPT !.pc = "save", !.kind = op[p].kind, !.e0 = op[p].e0,
                                 !.eu = epoch[t], !.got = op[p].got]
    <2>1. /\ r.pc = "save" /\ r.kind = op[p].kind /\ r.e0 = 0 /\ r.eu = 0
          /\ r.held = None /\ r.got = op[p].got
      BY <1>i, <1>n
    <2>2. op' = [op EXCEPT ![p] = r] /\ tok' = [tok EXCEPT ![t] = op[p].got]
      BY <1>c DEF BeginUpdate, SetTokens
    <2> HIDE DEF r
    <2>3. OthersStay(p) /\ op'[p] = r
      BY <1>c, <1>s, <2>2
    <2>4. NearFlow(p)
      BY <1>0, <1>a, <1>c, <2>1, <2>2, <2>3
    <2>5. ServerFlow(p)
      BY <1>c, <2>1, <2>3 DEF ServerFlow
    <2>6. PairFlow(p)
      BY <1>c, <1>n, <2>1, <2>3 DEF PairFlow
    <2> QED BY <2>3, <2>4, <2>5, <2>6
  \* A call that only moves on.
  <1>e. ASSUME NEW r, op' = [op EXCEPT ![p] = r], UNCHANGED store, Keep,
               tok' = tok \/ tok' = [tok EXCEPT ![t] = op[p].got],
               r.held \in Old, r.got \in Old, r.e0 = 0, r.eu = 0, r.kind \notin {"logout", "delete"},
               op[p].pc \notin {"granted", "save"},
               InStore(p) \/ Free(t)
                  \/ (r.pc \notin StorePCs /\ r.held = op[p].held /\ r.got \in {op[p].got, None}),
               \/ r.pc \in {"loaded", "polled"} /\ r.got = store[S]
                  /\ (r.pc = "polled" => r.held = op[p].held /\ r.held # None /\ ~Valid(r.held))
               \/ r.pc \in {"load", "login", "offline"}
               \/ r.pc \in {"post", "unavailable", "blip"} /\ r.held # None
               \/ r.pc \in {"invalid_grant", "poll", "sleep"} /\ r.held = op[p].held
                  /\ r.held # None /\ ~Valid(r.held)
        PROVE  OthersStay(p) /\ ServerFlow(p) /\ PairFlow(p) /\ NearFlow(p)
    <2>1. OthersStay(p) /\ op'[p] = r
      BY <1>e, <1>s
    <2>2. NearFlow(p)
      BY <1>0, <1>a, <1>e, <2>1
    <2>3. ServerFlow(p)
      BY <1>e, <2>1 DEF ServerFlow
    <2>4. PairFlow(p)
      BY <1>e, <2>1 DEF PairFlow
    <2> QED BY <2>1, <2>2, <2>3, <2>4
  <1>1. CASE StartRestore(p)
    <2> DEFINE r == [Idle EXCEPT !.pc = "load", !.kind = "restore", !.held = tok[t]]
    <2>1. r.pc = "load" /\ r.kind = "restore" /\ r.held = tok[t] /\ r.got = None /\ r.e0 = 0 /\ r.eu = 0
      BY <1>i
    <2>2. op' = [op EXCEPT ![p] = r] /\ Free(t) /\ At(p, "idle") /\ UNCHANGED <<tok, store>> /\ Keep
      BY <1>1 DEF StartRestore, sdkVars, serverVars
    <2> HIDE DEF r
    <2> QED BY <1>e, <2>1, <2>2
  <1>2. CASE StartRefresh(p)
    <2> DEFINE r == [Idle EXCEPT !.pc = "load", !.kind = "refresh", !.e0 = epoch[t], !.held = tok[t]]
    <2>1. r.pc = "load" /\ r.kind = "refresh" /\ r.held = tok[t] /\ r.got = None /\ r.e0 = 0 /\ r.eu = 0
      BY <1>i, <1>n
    <2>2. op' = [op EXCEPT ![p] = r] /\ Free(t) /\ At(p, "idle") /\ UNCHANGED <<tok, store>> /\ Keep
      BY <1>2 DEF StartRefresh, serverVars
    <2> HIDE DEF r
    <2> QED BY <1>e, <2>1, <2>2
  <1>3. CASE StartLogin(p)
    <2> DEFINE r == [Idle EXCEPT !.pc = "login", !.kind = "login"]
    <2>1. r.pc = "login" /\ r.kind = "login" /\ r.held = None /\ r.got = None /\ r.e0 = 0 /\ r.eu = 0
      BY <1>i
    <2>2. op' = [op EXCEPT ![p] = r] /\ Free(t) /\ At(p, "idle") /\ UNCHANGED <<tok, store>> /\ Keep
      BY <1>3 DEF StartLogin, sdkVars, serverVars
    <2> HIDE DEF r
    <2> QED BY <1>e, <2>1, <2>2
  <1>4. CASE LoadResume(p)
    <2> DEFINE s == Restored(op[p])
    <2>2. s = IF op[p].got = None THEN op[p].held ELSE op[p].got
      BY <1>0, SessionFields DEF Restored, SharedStore, OpState, Maybe
    <2>1. /\ tok' = tok \/ tok' = [tok EXCEPT ![t] = op[p].got]
          /\ UNCHANGED store /\ Keep /\ At(p, "loaded") /\ InStore(p)
      BY <1>4, <2>2 DEF LoadResume, SetTokens, serverVars, InStore, StorePCs
    <2>3. CASE Return(p)
      <3>1. OthersStay(p) /\ op'[p] = Idle
        BY <1>s, <2>1, <2>3 DEF Return
      <3>2. NearFlow(p)
        BY <1>0, <1>a, <1>i, <2>1, <3>1
      <3>3. ServerFlow(p) /\ PairFlow(p)
        BY <1>i, <2>1, <3>1 DEF ServerFlow, PairFlow
      <3> QED BY <3>1, <3>2, <3>3
    <2>4. CASE s # None /\ op' = [op EXCEPT ![p].pc = "post", ![p].held = s, ![p].got = None]
      <3> HIDE DEF s
      <3> DEFINE r == [op[p] EXCEPT !.pc = "post", !.held = s, !.got = None]
      <3>1. r.pc = "post" /\ r.kind = op[p].kind /\ r.held = s /\ r.got = None /\ r.e0 = 0 /\ r.eu = 0
        BY <1>0, <1>n DEF OpState
      <3>2. op' = [op EXCEPT ![p] = r]
        BY <1>0, <2>4 DEF OpState
      <3> HIDE DEF r
      <3> QED BY <1>e, <1>n, <2>1, <2>2, <2>4, <3>1, <3>2
    <2> QED BY <1>4, <2>3, <2>4 DEF LoadResume, SharedStore
  <1>5. CASE RefreshGranted(p)
    <2>1. Free(t) /\ UNCHANGED store /\ Keep /\ At(p, "granted") /\ op[p].kind = "refresh"
      BY <1>5 DEF RefreshGranted, serverVars
    <2>2. SameEpoch(p) /\ SameSubject(op[p].held, op[p].got)
      BY <1>n, <2>1 DEF SharedInv, PostsHeld
    <2>3. BeginUpdate(p, op[p].got)
      BY <1>5, <2>2 DEF RefreshGranted
    <2> QED BY <1>c, <2>1, <2>3
  <1>6. CASE RefreshRetry(p)
    <2> DEFINE m == IF At(p, "blip") THEN "retriedBlip" ELSE "retried5xx"
               r == [op[p] EXCEPT !.pc = "post", !.note = m]
    <2>1. r.pc = "post" /\ r.kind = op[p].kind /\ r.held = op[p].held /\ r.got = op[p].got /\ r.e0 = 0 /\ r.eu = 0
      BY <1>0, <1>n DEF OpState
    <2>2. /\ op' = [op EXCEPT ![p] = r] /\ Free(t) /\ UNCHANGED <<tok, store>> /\ Keep
          /\ op[p].pc \in {"unavailable", "blip"} /\ op[p].held # None
      BY <1>0, <1>6 DEF RefreshRetry, sdkVars, serverVars, SharedInv, PostsHeld
    <2> HIDE DEF r
    <2> QED BY <1>e, <1>n, <2>1, <2>2
  <1>7. CASE RefreshGivesUp(p)
    BY <1>7, <1>b DEF RefreshGivesUp, serverVars
  <1>8. CASE RefreshRejected(p)
    <2>1. /\ Free(t) /\ UNCHANGED store /\ Keep /\ At(p, "invalid_grant")
          /\ op[p].held # None /\ ~Valid(op[p].held) /\ SameEpoch(p)
      BY <1>8, <1>n DEF RefreshRejected, serverVars, SharedInv, PostsHeld
    <2> DEFINE r == [op[p] EXCEPT !.pc = "poll"]
    <2>2. r.pc = "poll" /\ r.kind = op[p].kind /\ r.held = op[p].held /\ r.got = op[p].got /\ r.e0 = 0 /\ r.eu = 0
      BY <1>0, <1>n DEF OpState
    <2>3. op' = [op EXCEPT ![p] = r] /\ tok' = tok
      BY <1>0, <1>8, <2>1 DEF RefreshRejected, Goto
    <2> HIDE DEF r
    <2> QED BY <1>e, <1>n, <2>1, <2>2, <2>3
  <1>9. CASE PollRead(p)
    <2> DEFINE r == [op[p] EXCEPT !.pc = "polled", !.got = store[S]]
    <2>1. r.pc = "polled" /\ r.kind = op[p].kind /\ r.held = op[p].held /\ r.got = store[S] /\ r.e0 = 0 /\ r.eu = 0
      BY <1>0, <1>n DEF OpState
    <2>2. /\ op' = [op EXCEPT ![p] = r] /\ UNCHANGED <<tok, store>> /\ Keep
          /\ op[p].pc \in {"poll", "sleep"} /\ (InStore(p) \/ Free(t))
      BY <1>0, <1>9 DEF PollRead, sdkVars, serverVars, InStore, StorePCs
    <2>3. op[p].held # None /\ ~Valid(op[p].held)
      BY <2>2 DEF SharedInv, PostsHeld
    <2> HIDE DEF r
    <2> QED BY <1>e, <1>n, <2>1, <2>2, <2>3
  <1>10. CASE PollResume(p)
    <2>1. /\ UNCHANGED store /\ Keep /\ At(p, "polled") /\ InStore(p)
          /\ op[p].held # None /\ ~Valid(op[p].held) /\ SameEpoch(p)
      BY <1>10, <1>n DEF PollResume, serverVars, InStore, StorePCs, SharedInv, PostsHeld
    <2>2. CASE BeginUpdate(p, op[p].got)
      BY <1>c, <2>1, <2>2
    <2>3. CASE /\ op' = [op EXCEPT ![p].pc = "sleep", ![p].tries = @ + 1, ![p].got = None]
               /\ UNCHANGED tok
      <3> DEFINE r == [op[p] EXCEPT !.pc = "sleep", !.tries = @ + 1, !.got = None]
      <3>1. r.pc = "sleep" /\ r.kind = op[p].kind /\ r.held = op[p].held /\ r.got = None /\ r.e0 = 0 /\ r.eu = 0
        BY <1>0, <1>n DEF OpState
      <3>2. op' = [op EXCEPT ![p] = r]
        BY <1>0, <2>3 DEF OpState
      <3> HIDE DEF r
      <3> QED BY <1>e, <1>n, <2>1, <2>3, <3>1, <3>2
    <2>4. CASE ~Adoptable(op[p]) /\ Definitive(p)
      <3> DEFINE r == [Idle EXCEPT !.pc = "clear", !.kind = op[p].kind, !.e0 = op[p].e0]
      <3>1. r.pc = "clear" /\ r.kind = op[p].kind /\ r.e0 = 0 /\ r.eu = 0 /\ r.held = None /\ r.got = None
        BY <1>i, <1>n
      <3>2. op' = [op EXCEPT ![p] = r] /\ tok' = [tok EXCEPT ![t] = None]
        BY <2>1, <2>4 DEF Definitive, BeginClear, SetTokens
      <3> HIDE DEF r
      <3>3. OthersStay(p) /\ op'[p] = r
        BY <1>s, <2>1, <3>2
      <3>4. NearFlow(p)
        BY <1>0, <1>a, <2>1, <3>1, <3>2, <3>3
      <3>5. ServerFlow(p)
        BY <2>1, <3>1, <3>3 DEF ServerFlow
      <3>6. op[p].got = None \/ HasGrant(op[p].held, op[p].got.grant)
        BY <1>0, <2>1, <2>4, SessionFields DEF HasGrant, Adoptable, SharedStore, OpState, Maybe
      <3>7. PairFlow(p)
        BY <1>n, <2>1, <3>1, <3>3, <3>6 DEF PairFlow
      <3> QED BY <3>3, <3>4, <3>5, <3>7
    <2> QED BY <1>10, <2>2, <2>3, <2>4 DEF PollResume
  <1>11. CASE SaveResume(p)
    <2>1. /\ UNCHANGED <<store, tok>> /\ Keep /\ At(p, "saved") /\ InStore(p) /\ Return(p)
      BY <1>11, <1>n DEF SaveResume, serverVars, InStore, StorePCs
    <2> QED BY <1>b, <2>1
  <1>12. CASE LoginGranted(p)
    BY <1>12, <1>c DEF LoginGranted, serverVars
  <1>13. CASE LoadRead(p)
    <2> DEFINE r == [op[p] EXCEPT !.pc = "loaded", !.got = store[S]]
    <2>1. r.pc = "loaded" /\ r.kind = op[p].kind /\ r.held = op[p].held /\ r.got = store[S] /\ r.e0 = 0 /\ r.eu = 0
      BY <1>0, <1>n DEF OpState
    <2>2. /\ op' = [op EXCEPT ![p] = r] /\ UNCHANGED <<tok, store>> /\ Keep
          /\ At(p, "load") /\ InStore(p)
      BY <1>0, <1>13 DEF LoadRead, sdkVars, serverVars, InStore, StorePCs
    <2> HIDE DEF r
    <2> QED BY <1>e, <1>n, <2>1, <2>2
  <1>14. CASE SaveLands(p)
    <2> DEFINE r == [op[p] EXCEPT !.pc = "saved", !.got = None]
    <2>1. r.pc = "saved" /\ r.kind = op[p].kind /\ r.held = op[p].held /\ r.got = None /\ r.e0 = 0 /\ r.eu = 0
      BY <1>0, <1>n DEF OpState
    <2>2. /\ op' = [op EXCEPT ![p] = r] /\ store' = [store EXCEPT ![S] = op[p].got]
          /\ UNCHANGED tok /\ Keep /\ At(p, "save") /\ InStore(p)
      BY <1>0, <1>14 DEF SaveLands, Stored, SharedStore, sdkVars, serverVars, InStore, StorePCs
    <2> HIDE DEF r
    <2>3. OthersStay(p) /\ op'[p] = r
      BY <1>s, <2>2
    <2>4. store'[S] = op[p].got
      BY <1>0, <2>2
    <2>5. NearFlow(p)
      BY <1>0, <1>a, <2>1, <2>2, <2>3, <2>4
    <2>6. ServerFlow(p) /\ PairFlow(p)
      BY <1>n, <2>1, <2>2, <2>3, <2>4 DEF ServerFlow, PairFlow
    <2> QED BY <2>3, <2>5, <2>6
  <1>15. CASE ClearLands(p)
    <2>1. /\ op' = [op EXCEPT ![p] = Idle] /\ store' = [store EXCEPT ![S] = None]
          /\ UNCHANGED tok /\ Keep /\ At(p, "clear") /\ InStore(p)
      BY <1>15, <1>n DEF ClearLands, Return, serverVars, InStore, StorePCs
    <2>2. OthersStay(p) /\ op'[p] = Idle
      BY <1>s, <2>1
    <2>3. store'[S] = None
      BY <1>0, <2>1
    <2>4. NearFlow(p)
      BY <1>0, <1>a, <1>i, <2>1, <2>2, <2>3
    <2>5. ServerFlow(p) /\ PairFlow(p)
      BY <1>i, <2>1, <2>2, <2>3 DEF ServerFlow, PairFlow
    <2> QED BY <2>2, <2>4, <2>5
  <1>16. CASE ServerRotates(p)
    <2> DEFINE new == Pair(op[p].held.user, op[p].held.login, issued + 1)
    <2>1. /\ UNCHANGED <<tok, store, epoch, mail, late>> /\ At(p, "post") /\ Key(p) = op[p].held
          /\ op[p].held # None
      BY <1>16 DEF ServerRotates, Key, Valid, sdkVars, SharedStore
    <2>2. op[p].held \in Session
      BY <1>0, <2>1 DEF OpState, Maybe
    <2>3. new.grant = issued + 1 /\ new # None /\ new.bearer.user = op[p].held.bearer.user
      <3>1. issued + 1 \in 1..MaxGrant
        BY <1>16, BoundsAssumption DEF ServerRotates, Typed, TypeOK, SharedInv
      <3>2. /\ op[p].held.user \in Users /\ op[p].held.login \in 1..MaxLogin
            /\ op[p].held.bearer = [user |-> op[p].held.user, login |-> op[p].held.login]
        BY <2>2, SessionFields DEF SharedStore
      <3>3. new \in Session /\ new.grant = issued + 1
        BY <3>1, <3>2, PairType
      <3>4. new # None
        BY <3>3, SessionFields
      <3>5. new.bearer.user = op[p].held.user
        BY DEF Pair
      <3> QED BY <3>2, <3>3, <3>4, <3>5
    <2>4. live' = (live \ {op[p].held.grant}) \cup {issued + 1} /\ issued' = issued + 1
      BY <1>16, <2>1, <2>3 DEF ServerRotates
    <2>5. op' = [op EXCEPT ![p].pc = "granted", ![p].got = new]
      BY <1>16, <2>1 DEF ServerRotates, SharedStore
    <2> HIDE DEF new
    <2> DEFINE r == [op[p] EXCEPT !.pc = "granted", !.got = new]
    <2>6. r.pc = "granted" /\ r.kind = op[p].kind /\ r.held = op[p].held /\ r.got = new /\ r.e0 = 0 /\ r.eu = 0
      BY <1>0, <1>n DEF OpState
    <2>7. op' = [op EXCEPT ![p] = r]
      BY <1>0, <2>5 DEF OpState
    <2> HIDE DEF r
    <2>8. OthersStay(p) /\ op'[p] = r
      BY <1>s, <2>1, <2>7
    <2>9. NearFlow(p)
      BY <1>0, <1>a, <2>1, <2>6, <2>8
    <2>10. ServerFlow(p)
      BY <2>1, <2>3, <2>4, <2>6, <2>8 DEF ServerFlow, HasGrant, SameSubject
    <2>11. PairFlow(p)
      BY <1>k, <1>n, <2>1, <2>6, <2>8 DEF PairFlow
    <2> QED BY <2>8, <2>9, <2>10, <2>11
  <1>17. CASE ServerRejects(p)
    <2> DEFINE r == [op[p] EXCEPT !.pc = "invalid_grant"]
    <2>1. /\ r.pc = "invalid_grant" /\ r.kind = op[p].kind /\ r.held = op[p].held /\ r.got = op[p].got
          /\ r.e0 = 0 /\ r.eu = 0
      BY <1>0, <1>n DEF OpState
    <2>2. /\ op' = [op EXCEPT ![p] = r] /\ UNCHANGED <<tok, store>> /\ Keep
          /\ At(p, "post") /\ ~Valid(op[p].held)
      BY <1>0, <1>17 DEF ServerRejects, Goto, Key, SharedStore, sdkVars, serverVars
    <2>3. op[p].held # None
      BY <2>2 DEF SharedInv, PostsHeld
    <2> HIDE DEF r
    <2> QED BY <1>e, <1>k, <1>n, <2>1, <2>2, <2>3
  <1>18. CASE NetworkFails(p)
    <2>1. PICK c \in {"unavailable", "blip", "offline"} : Goto(p, c)
      BY <1>18 DEF NetworkFails
    <2> DEFINE r == [op[p] EXCEPT !.pc = c]
    <2>2. /\ r.pc = c /\ r.kind = op[p].kind /\ r.held = op[p].held /\ r.got = op[p].got
          /\ r.e0 = 0 /\ r.eu = 0
      BY <1>0, <1>n DEF OpState
    <2>3. /\ op' = [op EXCEPT ![p] = r] /\ UNCHANGED <<tok, store>> /\ Keep /\ At(p, "post")
      BY <1>0, <1>18, <2>1 DEF NetworkFails, Goto, sdkVars, serverVars
    <2>4. op[p].held # None
      BY <2>3 DEF SharedInv, PostsHeld
    <2> HIDE DEF r
    <2> QED BY <1>e, <1>k, <1>n, <2>1, <2>2, <2>3, <2>4
  <1>19. CASE ServerLogsIn(p)
    <2>1. PICK u \in Accounts[t] :
            op' = [op EXCEPT ![p].pc = "granted",
                             ![p].got = Pair(u, logins + 1, issued + 1)]
      BY <1>19 DEF ServerLogsIn
    <2> DEFINE new == Pair(u, logins + 1, issued + 1)
    <2>2. /\ UNCHANGED <<tok, store, epoch, mail, late>> /\ At(p, "login")
          /\ issued' = issued + 1 /\ live' = live \cup {issued + 1}
      BY <1>19 DEF ServerLogsIn, sdkVars
    <2>3. new.grant = issued + 1 /\ new # None
      <3>1. logins + 1 \in 1..MaxLogin /\ issued + 1 \in 1..MaxGrant
        BY <1>19, BoundsAssumption DEF ServerLogsIn, SharedInv, Typed, TypeOK
      <3>2. u \in Users
        BY <1>0, <2>1, AccountsAssumption
      <3>3. new \in Session /\ new.grant = issued + 1
        BY <3>1, <3>2, PairType
      <3> QED BY <3>3, SessionFields
    <2>4. op[p].kind = "login"
      BY <2>2 DEF SharedInv, CallKinds
    <2>5. op' = [op EXCEPT ![p].pc = "granted", ![p].got = new]
      BY <2>1
    <2> HIDE DEF new
    <2> DEFINE r == [op[p] EXCEPT !.pc = "granted", !.got = new]
    <2>6. r.pc = "granted" /\ r.kind = op[p].kind /\ r.held = op[p].held /\ r.got = new /\ r.e0 = 0 /\ r.eu = 0
      BY <1>0, <1>n DEF OpState
    <2>7. op' = [op EXCEPT ![p] = r]
      BY <1>0, <2>5 DEF OpState
    <2> HIDE DEF r
    <2>8. OthersStay(p) /\ op'[p] = r
      BY <1>s, <2>2, <2>7
    <2>9. NearFlow(p)
      BY <1>0, <1>a, <2>2, <2>6, <2>8
    <2>10. ServerFlow(p)
      BY <2>2, <2>3, <2>4, <2>6, <2>8 DEF ServerFlow, HasGrant
    <2>11. PairFlow(p)
      BY <1>k, <1>n, <2>2, <2>6, <2>8 DEF PairFlow
    <2> QED BY <2>8, <2>9, <2>10, <2>11
  <1>20. CASE LoginFails(p)
    BY <1>20, <1>b DEF LoginFails, serverVars
  <1>21. ~(StartClear(p) \/ StartLogout(p) \/ StartDelete(p))
    BY DEF StartClear, StartLogout, StartDelete, SharedStore
  <1>22. ~(DeleteSucceeds(p) \/ DeleteFails(p) \/ Settle(p) \/ Revoke(p) \/ WipeCapped(p) \/ CacheWiped(p)
           \/ WipeLands(p) \/ WipeFails(p) \/ StoreRefuses(p))
    BY <1>n DEF DeleteSucceeds, DeleteFails, Settle, Revoke, WipeCapped, CacheWiped, WipeLands, WipeFails,
             StoreRefuses, SharedStore
  <1> QED BY <1>1, <1>2, <1>3, <1>4, <1>5, <1>6, <1>7, <1>8, <1>9, <1>10, <1>11, <1>12, <1>13, <1>14,
             <1>15, <1>16, <1>17, <1>18, <1>19, <1>20, <1>21, <1>22 DEF Start, Resume, StoreStep, Server

LEMMA SharedInit == SharedStore /\ Init => SharedInv
  <1> SUFFICES ASSUME SharedStore, Init PROVE SharedInv
    OBVIOUS
  <1>1. Typed
    BY InitType
  <1>2. /\ \A p \in Ops : op[p] = Idle
        /\ \A t \in Tabs : tok[t] = None /\ epoch[t] = 0 /\ mail[t] = 0
        /\ \A s \in Stores : store[s] = None
        /\ late = {} /\ live = {}
    BY DEF Init
  <1>3. OneAtStore /\ CallKinds /\ NoSignOuts
    BY <1>2 DEF Idle, OneAtStore, InStore, StorePCs, CallKinds, NoSignOuts, SignsOut
  <1>4. PostsHeld /\ ReadsStore /\ GrantsKnown /\ CarriesAlone /\ SomeoneHolds
    BY <1>2 DEF Idle, PostsHeld, ReadsStore, GrantsKnown, GrantKnown, CarriesAlone, Carries, SomeoneHolds
  <1> QED BY <1>1, <1>3, <1>4 DEF SharedInv

(* A step into the store starts from a free thread, so calls go through it one   *)
(* by one.                                                                       *)
LEMMA SharedTurn ==
  ASSUME SharedStore, SharedInv, NEW p \in Ops, Start(p) \/ Resume(p) \/ StoreStep(p) \/ Server(p)
  PROVE  OneAtStore' /\ CallKinds'
  <1>1. \A q \in Ops : ~SignsOut(q) /\ ~Wiping(q) /\ op[q].pc # "delete"
    BY DEF SharedInv, NoSignOuts, Wiping
  <1>2. SignOutInv
    BY <1>1 DEF SignOutInv, WipeIsSignOut, OneSignOut, FlagCoversWipe
  <1>3. ~StartLogout(p) /\ ~DeleteSucceeds(p)
    BY <1>1 DEF StartLogout, DeleteSucceeds, SharedStore
  <1>4. Flow(p)
    BY <1>2, <1>3, StepFlow DEF SharedStore, SharedInv
  <1>5. CallKinds'
    BY <1>4 DEF SharedInv, CallKinds, Flow, CallFlow
  <1>6. /\ PairFlow(p) /\ OthersStay(p)
    BY PairStep
  <1>7. ASSUME NEW q \in Ops, q # p, InStore(q)
        PROVE  ~InStore(p)'
    <2>1. ~InStore(p) /\ ~Free(TabOf[p])
      BY <1>7, TabsAssumption DEF SharedInv, OneAtStore, Free, SharedStore, InStore
    <2> QED BY <1>6, <2>1 DEF PairFlow, InStore
  <1>8. late = {} /\ late' = {}
    BY <1>6 DEF SharedInv, NoSignOuts, PairFlow
  <1>9. \A q \in Ops : q # p => (InStore(q)' <=> InStore(q))
    BY <1>6 DEF OthersStay, InStore
  <1>10. \A q, r \in Ops : InStore(q)' /\ InStore(r)' => q = r
    BY <1>7, <1>9, TabsAssumption DEF SharedInv, OneAtStore, SharedStore
  <1> QED BY <1>5, <1>8, <1>10 DEF OneAtStore

(* Which pair is alive, and who holds it, survives every step of a call. *)
LEMMA PairsKeep ==
  ASSUME SharedStore, SharedInv, NEW p \in Ops, Start(p) \/ Resume(p) \/ StoreStep(p) \/ Server(p)
  PROVE  /\ NoSignOuts' /\ PostsHeld' /\ ReadsStore'
         /\ GrantsKnown' /\ CarriesAlone' /\ SomeoneHolds'
  <1> DEFINE t == TabOf[p]
             S == StoreOf[t]
             o == op[p]
             n == op'[p]
  <1> USE DEF SharedInv
  <1>0. /\ t \in Tabs /\ S \in Stores /\ issued \in Nat
        /\ \A q \in Ops : TabOf[q] \in Tabs
        /\ \A u \in Tabs : StoreOf[u] = S /\ Threads[u] = Threads[t]
    BY TabsAssumption, StoresAssumption, BoundsAssumption DEF SharedStore, Typed, TypeOK
  <1>1. OthersStay(p) /\ ServerFlow(p) /\ PairFlow(p) /\ NearFlow(p)
    BY PairStep
  <1>2. /\ \A q \in Ops : q # p => op'[q] = op[q]
        /\ \A u \in Tabs : u # t => tok'[u] = tok[u]
        /\ \A s \in Stores : s # S => store'[s] = store[s]
    BY <1>1 DEF OthersStay
  <1>3. ASSUME NEW q \in Ops, q # p, InStore(q)
        PROVE  ~InStore(p) /\ ~Free(t) /\ store'[S] = store[S]
    <2>1. ~InStore(p) /\ ~Free(t)
      BY <1>0, <1>3 DEF OneAtStore, Free, SharedStore, InStore
    <2> QED BY <1>1, <2>1 DEF PairFlow, InStore, StorePCs
  <1>4. /\ issued' \in {issued, issued + 1} /\ live' \subseteq live \cup {issued + 1}
        /\ issued + 1 \in live' => issued' = issued + 1
    BY <1>0, <1>1 DEF ServerFlow, GrantsKnown
  <1>5. ASSUME NEW s, GrantKnown(s), ~Valid(s) PROVE ~(s # None /\ s.grant \in live')
    BY <1>0, <1>4, <1>5 DEF GrantKnown, Valid
  <1>6. NoSignOuts'
    <2>1. UNCHANGED <<epoch, mail, late>>
      BY <1>1 DEF PairFlow
    <2>2. ASSUME NEW q \in Ops
          PROVE  /\ op'[q].e0 = 0 /\ op'[q].eu = 0 /\ op'[q].kind \notin {"logout", "delete"}
                 /\ op'[q].pc \notin {"undo", "delete", "settle", "revoke", "wipe", "wipeCache", "unauthenticated"}
      BY <1>1, <1>2 DEF PairFlow, NoSignOuts, SignsOut
    <2> QED BY <2>1, <2>2 DEF NoSignOuts, SignsOut
  <1>7. PostsHeld'
    <2> SUFFICES ASSUME NEW q \in Ops
                 PROVE  /\ op'[q].pc \in {"post", "unavailable", "blip", "invalid_grant", "poll", "polled", "sleep"}
                           => op'[q].held # None
                        /\ op'[q].pc \in {"invalid_grant", "poll", "polled", "sleep"}
                           => ~(op'[q].held # None /\ op'[q].held.grant \in live')
                        /\ op'[q].pc = "granted" /\ op'[q].kind = "refresh"
                           => SameSubject(op'[q].held, op'[q].got)
      BY DEF PostsHeld, Valid, SameSubject
    <2>1. CASE q = p
      <3>1. GrantKnown(o.held)
        BY DEF GrantsKnown
      <3>2. n.pc \in {"invalid_grant", "poll", "polled", "sleep"} => ~(n.held # None /\ n.held.grant \in live')
        BY <1>1, <1>5, <3>1 DEF PairFlow
      <3>3. n.pc = "granted" /\ n.kind = "refresh" => SameSubject(n.held, n.got)
        BY <1>1 DEF ServerFlow
      <3> QED BY <1>1, <2>1, <3>2, <3>3 DEF PairFlow
    <2>2. CASE q # p
      BY <1>2, <1>5, <2>2 DEF PostsHeld, GrantsKnown
    <2> QED BY <2>1, <2>2
  <1>8. ReadsStore'
    <2> SUFFICES ASSUME NEW q \in Ops
                 PROVE  /\ op'[q].pc \in {"loaded", "polled"} => op'[q].got = store'[S]
                        /\ op'[q].pc = "clear" => ~(store'[S] # None /\ store'[S].grant \in live')
      BY <1>0 DEF ReadsStore, Valid
    <2>1. GrantKnown(store[S])
      BY <1>0 DEF GrantsKnown
    <2>2. CASE q = p
      <3>1. ASSUME n.pc = "clear" PROVE ~(store'[S] # None /\ store'[S].grant \in live')
        <4>1. o.pc = "polled" /\ (o.got = None \/ HasGrant(o.held, o.got.grant)) /\ store'[S] = store[S]
          BY <1>1, <3>1 DEF PairFlow
        <4>2. o.got = store[S] /\ ~Valid(o.held)
          BY <4>1 DEF ReadsStore, PostsHeld
        <4>3. ~Valid(store[S])
          BY <4>1, <4>2 DEF Valid, HasGrant
        <4> QED BY <1>5, <2>1, <4>1, <4>3
      <3> QED BY <1>1, <2>2, <3>1 DEF PairFlow
    <2>3. CASE q # p
      <3>1. ASSUME op[q].pc \in {"loaded", "polled", "clear"} PROVE store'[S] = store[S]
        BY <1>3, <2>3, <3>1 DEF InStore, StorePCs
      <3>2. /\ op[q].pc \in {"loaded", "polled"} => op[q].got = store[S]
            /\ op[q].pc = "clear" => ~Valid(store[S])
        BY <1>0 DEF ReadsStore
      <3> QED BY <1>2, <1>5, <2>1, <2>3, <3>1, <3>2
    <2> QED BY <2>2, <2>3
  <1>9. \A g : Near(p, g) => g \in 1..issued
    BY <1>0 DEF Near, HasGrant, GrantsKnown, GrantKnown
  <1>10. GrantsKnown'
    <2>1. 1..issued \subseteq 1..issued' /\ live' \subseteq 1..issued'
      BY <1>0, <1>4 DEF GrantsKnown
    <2>2. \A g : Near(p, g) => g \in 1..issued'
      BY <1>9, <2>1
    <2>3. ASSUME NEW u \in Tabs PROVE GrantKnown(tok[u])'
      <3>1. CASE u = t
        BY <1>1, <2>2, <3>1 DEF NearFlow, HasGrant, GrantKnown
      <3>2. CASE u # t
        BY <1>2, <2>1, <3>2 DEF GrantsKnown, GrantKnown
      <3> QED BY <3>1, <3>2
    <2>4. ASSUME NEW s \in Stores PROVE GrantKnown(store[s])'
      <3>1. CASE s = S
        BY <1>1, <2>2, <3>1 DEF NearFlow, HasGrant, GrantKnown
      <3>2. CASE s # S
        BY <1>2, <2>1, <3>2 DEF GrantsKnown, GrantKnown
      <3> QED BY <3>1, <3>2
    <2>5. ASSUME NEW q \in Ops PROVE GrantKnown(op[q].held)' /\ GrantKnown(op[q].got)'
      <3>1. CASE q = p
        <4>1. GrantKnown(op[p].held)'
          BY <1>1, <2>2 DEF NearFlow, HasGrant, GrantKnown
        <4>2. CASE n.pc # "granted"
          BY <1>1, <2>2, <3>1, <4>1, <4>2 DEF NearFlow, HasGrant, GrantKnown
        <4>3. CASE n.pc = "granted"
          <5>1. n.got.grant = issued + 1 /\ issued' = issued + 1
            BY <1>1, <4>3 DEF ServerFlow, HasGrant
          <5>2. n.got.grant \in 1..issued'
            BY <1>0, <5>1
          <5> QED BY <3>1, <4>1, <5>2 DEF GrantKnown
        <4> QED BY <4>2, <4>3
      <3>2. CASE q # p
        BY <1>2, <2>1, <3>2 DEF GrantsKnown, GrantKnown
      <3> QED BY <3>1, <3>2
    <2> QED BY <2>1, <2>3, <2>4, <2>5 DEF GrantsKnown
  <1>11. CarriesAlone'
    <2> SUFFICES ASSUME NEW r \in Ops, Carries(r)', NEW g, g = op'[r].got.grant
                 PROVE  /\ op'[r].got # None /\ g \in live'
                        /\ \A q \in Ops : q # r => ~HasGrant(op'[q].held, g) /\ ~HasGrant(op'[q].got, g)
                        /\ op'[r].pc = "granted" =>
                              /\ \A u \in Tabs : ~HasGrant(tok'[u], g)
                              /\ \A s \in Stores : ~HasGrant(store'[s], g)
      BY DEF CarriesAlone, Valid, HasGrant
    <2>1. CASE r = p /\ n.pc = "granted"
      <3>1. n.got # None /\ g = issued + 1 /\ g \in live' /\ g \notin 1..issued
        BY <1>0, <1>1, <2>1 DEF ServerFlow, HasGrant
      <3>2. \A q \in Ops : q # p => ~HasGrant(op'[q].held, g) /\ ~HasGrant(op'[q].got, g)
        BY <1>2, <3>1 DEF GrantsKnown, GrantKnown, HasGrant
      <3>3. \A u \in Tabs : ~HasGrant(tok'[u], g)
        <4>1. ~HasGrant(tok[t], g)'
          BY <1>1, <1>9, <3>1 DEF NearFlow
        <4> QED BY <1>2, <3>1, <4>1 DEF GrantsKnown, GrantKnown, HasGrant
      <3>4. \A s \in Stores : ~HasGrant(store'[s], g)
        <4>1. ~HasGrant(store[S], g)'
          BY <1>1, <1>9, <3>1 DEF NearFlow
        <4> QED BY <1>2, <3>1, <4>1 DEF GrantsKnown, GrantKnown, HasGrant
      <3> QED BY <2>1, <3>1, <3>2, <3>3, <3>4
    <2>2. CASE r = p /\ n.pc # "granted"
      <3>1. n.pc = "save" /\ n.got # store'[S]
        BY <2>2 DEF Carries
      <3>2. o.pc \in {"granted", "polled"} /\ n.got = o.got /\ live' = live
        BY <1>1, <3>1 DEF PairFlow, ServerFlow
      <3>3. o.pc # "polled"
        <4>1. o.pc = "polled" => o.got = store[S] /\ store'[S] = store[S]
          BY <1>1 DEF ReadsStore, PairFlow
        <4> QED BY <3>1, <3>2, <4>1
      <3>4. Carries(p)
        BY <3>2, <3>3 DEF Carries
      <3> QED BY <1>2, <2>2, <3>1, <3>2, <3>4 DEF CarriesAlone, Valid
    <2>3. CASE r # p
      <3>1. op'[r] = op[r]
        BY <1>2, <2>3
      <3>2. ~At(r, "granted") => At(r, "save") /\ ~InStore(p) /\ ~Free(t) /\ store'[S] = store[S]
        BY <1>3, <2>3, <3>1 DEF Carries, InStore, StorePCs
      <3>3. Carries(r)
        BY <1>0, <3>1, <3>2 DEF Carries
      <3>4. /\ op[r].got # None /\ g \in live
            /\ \A q \in Ops : q # r => ~HasGrant(op[q].held, g) /\ ~HasGrant(op[q].got, g)
            /\ At(r, "granted") => /\ \A u \in Tabs : ~HasGrant(tok[u], g)
                                   /\ \A s \in Stores : ~HasGrant(store[s], g)
        BY <3>1, <3>3 DEF CarriesAlone, Valid
      <3>5. g # issued + 1
        BY <1>0, <3>4 DEF GrantsKnown
      <3>6. g \in live'
        BY <1>1, <2>3, <3>4 DEF ServerFlow
      <3>7. At(r, "granted") => ~Near(p, g)
        BY <1>0, <2>3, <3>4 DEF Near
      <3>8. ~HasGrant(n.held, g) /\ ~HasGrant(n.got, g)
        <4>1. n.pc = "granted" => ~HasGrant(n.got, g)
          BY <1>1, <3>5 DEF ServerFlow, HasGrant
        <4>2. CASE At(r, "granted")
          BY <1>1, <3>7, <4>1, <4>2 DEF NearFlow, HasGrant
        <4>3. CASE ~At(r, "granted")
          <5>1. n.held \in {o.held, None} /\ (n.got \in {o.got, None} \/ n.pc = "granted")
            BY <1>1, <3>2, <4>3 DEF PairFlow
          <5> QED BY <2>3, <3>4, <4>1, <5>1 DEF HasGrant
        <4> QED BY <4>2, <4>3
      <3>9. ASSUME At(r, "granted")
            PROVE  /\ \A u \in Tabs : ~HasGrant(tok'[u], g)
                   /\ \A s \in Stores : ~HasGrant(store'[s], g)
        <4>1. ~HasGrant(tok[t], g)' /\ ~HasGrant(store[S], g)'
          BY <1>1, <3>7, <3>9 DEF NearFlow
        <4> QED BY <1>2, <3>4, <3>9, <4>1 DEF HasGrant
      <3> QED BY <1>2, <3>1, <3>4, <3>6, <3>8, <3>9
    <2> QED BY <2>1, <2>2, <2>3
  <1>12. SomeoneHolds'
    <2> SUFFICES ASSUME live' # {}
                 PROVE  \/ store'[S] # None /\ store'[S].grant \in live'
                        \/ \E q \in Ops : /\ op'[q].pc \in {"granted", "save"}
                                          /\ op'[q].got # None /\ op'[q].got.grant \in live'
      BY <1>0 DEF SomeoneHolds, Valid
    <2>1. CASE n.pc = "granted"
      BY <1>1, <2>1 DEF ServerFlow, HasGrant
    <2>2. CASE n.pc # "granted"
      <3>1. live' = live
        BY <1>1, <2>2 DEF ServerFlow
      <3>2. CASE Valid(store[S])
        <4>1. CASE store'[S] = store[S]
          BY <3>1, <3>2, <4>1 DEF Valid
        <4>2. CASE store'[S] = o.got /\ o.pc = "save"
          <5>1. Valid(o.got)
            BY <3>2, <4>2 DEF CarriesAlone, Carries
          <5> QED BY <3>1, <4>2, <5>1 DEF Valid
        <4>3. o.pc # "clear"
          BY <3>2 DEF ReadsStore
        <4> QED BY <1>1, <4>1, <4>2, <4>3 DEF PairFlow
      <3>3. ASSUME NEW r \in Ops, op[r].pc \in {"granted", "save"}, Valid(op[r].got)
            PROVE  \/ store'[S] # None /\ store'[S].grant \in live'
                   \/ \E q \in Ops : /\ op'[q].pc \in {"granted", "save"}
                                     /\ op'[q].got # None /\ op'[q].got.grant \in live'
        <4>1. CASE r # p
          BY <1>2, <3>1, <3>3, <4>1 DEF Valid
        <4>2. CASE r = p /\ o.pc = "granted"
          BY <1>1, <3>1, <3>3, <4>2 DEF Valid, PairFlow
        <4>3. CASE r = p /\ o.pc = "save"
          BY <1>1, <3>1, <3>3, <4>3 DEF Valid, PairFlow
        <4> QED BY <3>3, <4>1, <4>2, <4>3
      <3> QED BY <1>0, <3>1, <3>2, <3>3 DEF SomeoneHolds
    <2> QED BY <2>1, <2>2
  <1> QED BY <1>6, <1>7, <1>8, <1>10, <1>11, <1>12

LEMMA SharedStep ==
  ASSUME SharedStore, SharedInv, [Next]_vars
  PROVE  SharedInv'
  <1>1. Typed'
    BY NextType DEF SharedInv
  <1>2. ASSUME UNCHANGED <<tok, store, epoch, late, mail, op, live, issued>> PROVE SharedInv'
    BY <1>1, <1>2 DEF SharedInv, OneAtStore, InStore, CallKinds, NoSignOuts, SignsOut, PostsHeld, ReadsStore,
       GrantsKnown, GrantKnown, CarriesAlone, Carries, SomeoneHolds, Valid, HasGrant, SameSubject
  <1>3. ASSUME NEW p \in Ops, Start(p) \/ Resume(p) \/ StoreStep(p) \/ Server(p) PROVE SharedInv'
    BY <1>1, <1>3, SharedTurn, PairsKeep DEF SharedInv
  <1>4. ASSUME NEW t \in Tabs, TabStep(t) \/ Reload(t) PROVE SharedInv'
    <2>1. ~LateClearLands(t) /\ ~LateClearFails(t) /\ ~RemoteSignOut(t)
      BY DEF LateClearLands, LateClearFails, RemoteSignOut, SharedInv, NoSignOuts
    <2>2. ~Reload(t)
      BY DEF Reload, SharedStore, SharedInv, Typed, TypeOK
    <2>3. RunFence(t) \/ RunUnfence(t)
      BY <1>4, <2>1, <2>2 DEF TabStep
    <2> QED BY <1>2, <2>3 DEF RunFence, RunUnfence, serverVars
  <1> QED BY <1>2, <1>3, <1>4 DEF Next, vars

(* A rotation race never loses the session: on a store that one page's instances *)
(* share, that answers before the next task runs and keeps what it is given,     *)
(* whatever refreshes, restores and logins race, however many and in whatever    *)
(* order, when all have returned the store holds a live pair if any is alive.    *)
THEOREM SharedSessionSurvivesAlways ==
  ASSUME SharedStore
  PROVE  Spec => []SharedSessionSurvives
  <1>1. SharedInv /\ [Next]_vars => SharedInv'
    BY SharedStep
  <1>2. Spec => []SharedInv
    BY SharedInit, <1>1, PTL DEF Spec
  <1>3. SharedInv => SharedSessionSurvives
    BY DEF SharedInv, SomeoneHolds, SharedSessionSurvives, Quiet
  <1> QED BY <1>2, <1>3, PTL

=============================================================================
