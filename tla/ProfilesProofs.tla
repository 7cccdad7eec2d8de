--------------------------- MODULE ProfilesProofs ---------------------------
(***************************************************************************)
(* What is proved of Profiles: its types for every instance, and, when the *)
(* tabs keep out of each other's way (OneAtATime), that their lists and    *)
(* the registry stay sound.                                                *)
(*                                                                         *)
(* ListInv is inductive.  The calls of the host are in one tab, which no   *)
(* sync changes meanwhile (OneTab), and on profiles of their own           *)
(* (OwnsOne), so what each has found in the list stays so (FoundInv) while *)
(* the others save it; hence no account is twice in a list and its active  *)
(* one is there (HealthInv), and a list that differs from the registry's   *)
(* is one that a message, a sync or a removal's save will bring in line    *)
(* (SharedInv).                                                            *)
(***************************************************************************)
EXTENDS Profiles, TLAPS

-----------------------------------------------------------------------------
\* Types.

\* A call that has got to a profile has one; a sync that loaded a list has it.
PlacedCall ==
    {x \in Call : /\ x.pc \notin {"idle", "loaded", "queued", "staging"} => x.user \in Users
                  /\ x.pc = "loaded" => x.snap \in Book}

BooksOK == registry \in Book /\ book \in [Managers -> Book]
SessionsOK ==
    /\ sdk \in [Managers -> [Users -> {"none", "new", "up"}]]
    /\ tok \in [Managers -> [Users -> Tokens]] /\ store \in [Users -> Tokens]
    /\ cookie \in Users \cup {None}
CallsOK == call \in [Calls -> PlacedCall]
RestOK ==
    /\ booting \in [Managers -> Users \cup {None}] /\ mail \subseteq Managers
    /\ gone \subseteq Users /\ begun \in 0..MaxCalls

TypeInv == BooksOK /\ SessionsOK /\ CallsOK /\ RestOK

LEMMA TypesAreOK == TypeInv => TypeOK
BY DEF TypeInv, TypeOK, BooksOK, SessionsOK, CallsOK, RestOK, PlacedCall

LEMMA ManagersOfCalls == \A c \in Calls : M(c) \in Managers
BY CallsAssumption DEF M

\* Tokens.
LEMMA TokenTypes ==
    /\ NoToken \in Tokens
    /\ \A u \in Users : [owner |-> u, bearer |-> "live"] \in Tokens
    /\ \A t \in Tokens : Stored(t) \in Tokens /\ Aged(t) \in Tokens
    /\ \A t \in Tokens : t # NoToken => t.owner \in Users
    /\ \A t \in Tokens : t.bearer # "none" => t # NoToken
    /\ \A u \in Users \cup {None} : Cookie(u) \in Users \cup {None}
<1>1. \A t \in Tokens : Stored(t) \in Tokens
  BY DEF Tokens, Token, NoToken, Stored
<1>2. \A t \in Tokens : Aged(t) \in Tokens
  BY DEF Tokens, Token, NoToken, Aged
<1> QED
  BY <1>1, <1>2 DEF Tokens, Token, NoToken, Cookie

LEMMA MergedTypes == SessionsOK => \A t \in Tokens, u \in Users : Merged(t, u) \in Tokens
BY TokenTypes DEF SessionsOK, Merged

LEMMA RestoredTypes ==
    ASSUME SessionsOK, NEW t \in Tokens, NEW u \in Users, NEW n \in Restored(t, u)
    PROVE  n \in Tokens
<1> DEFINE x == Merged(t, u)
<1>1. x \in Tokens
  BY MergedTypes
<1>2. CASE x.bearer \notin {"stale", "hollow"}
  BY <1>1, <1>2 DEF Restored
<1>3. CASE x.bearer \in {"stale", "hollow"}
  <2>1. x.owner \in Users
    BY <1>1, <1>3, TokenTypes DEF NoToken
  <2>2. (IF SharedCookie /\ cookie # None THEN cookie ELSE x.owner) \in Users
    BY <2>1 DEF SessionsOK
  <2> HIDE DEF x
  <2>3. n \in Refreshed(x)
    BY <1>3 DEF Restored, x
  <2> QED
    BY <1>1, <2>2, <2>3, TokenTypes DEF Refreshed
<1> QED
  BY <1>2, <1>3

LEMMA KeepTypes ==
    ASSUME SessionsOK, NEW u \in Users, NEW old \in Tokens, NEW t \in Tokens, Keep(u, old, t)
    PROVE  store' \in [Users -> Tokens] /\ cookie' \in Users \cup {None}
<1>1. Stored(t) \in Tokens /\ (t # NoToken => Cookie(t.owner) \in Users \cup {None})
  BY TokenTypes
<1> QED
  BY <1>1 DEF Keep, SessionsOK

-----------------------------------------------------------------------------
\* Calls.

Refs == {"none", "attached", "detached", "revoked"}

LEMMA RefTypes == \A b, u : Ref(b, u) \in Refs
BY DEF Ref, Refs

LEMMA PlacedIs ==
    ASSUME NEW pc \in PCs, NEW kind \in CallKinds \cup {"none"}, NEW u \in Users \cup {None},
           NEW out \in Users \cup {None}, NEW ref \in Refs, NEW kept \in BOOLEAN,
           NEW before \in Tokens, NEW got \in Tokens, NEW snap \in Book \cup {None},
           pc \in {"idle", "loaded", "queued", "staging"} \/ u \in Users, pc = "loaded" => snap \in Book
    PROVE  [pc |-> pc, kind |-> kind, user |-> u, out |-> out, ref |-> ref, kept |-> kept,
            before |-> before, got |-> got, snap |-> snap] \in PlacedCall
BY DEF PlacedCall, Call, Refs

LEMMA IdleTypes ==
    /\ Idle \in PlacedCall
    /\ \A b \in Book : [Idle EXCEPT !.pc = "loaded", !.kind = "sync", !.snap = b] \in PlacedCall
    /\ \A pc \in PCs, kind \in CallKinds, u \in Users \cup {None}, b \in Book :
          pc # "loaded" /\ (pc = "queued" \/ u \in Users) =>
              [Idle EXCEPT !.pc = pc, !.kind = kind, !.user = u, !.ref = Ref(b, u)] \in PlacedCall
<1>1. Idle \in PlacedCall
  BY TokenTypes, PlacedIs DEF Idle, PCs, Refs
<1>2. ASSUME NEW x \in Call, NEW pc \in PCs, NEW kind \in CallKinds, NEW u \in Users \cup {None}, NEW ref \in Refs,
             pc # "loaded", pc = "queued" \/ u \in Users
      PROVE  [x EXCEPT !.pc = pc, !.kind = kind, !.user = u, !.ref = ref] \in PlacedCall
  BY <1>2 DEF PlacedCall, Call, Refs
<1>3. ASSUME NEW x \in Call, NEW b \in Book
      PROVE  [x EXCEPT !.pc = "loaded", !.kind = "sync", !.snap = b] \in PlacedCall
  BY DEF PlacedCall, Call, PCs, CallKinds
<1> QED
  BY <1>1, <1>2, <1>3, RefTypes DEF PlacedCall

LEMMA ReturnTypes == ASSUME CallsOK, NEW c \in Calls, Return(c) PROVE CallsOK'
BY IdleTypes DEF CallsOK, Return

LEMMA GotoTypes ==
    ASSUME CallsOK, NEW c \in Calls, NEW pc \in PCs \ {"loaded"}, pc = "staging" \/ U(c) \in Users, Goto(c, pc)
    PROVE  CallsOK'
<1>1. [call[c] EXCEPT !.pc = pc] \in PlacedCall
  BY DEF CallsOK, PlacedCall, Call, U
<1> QED
  BY <1>1 DEF CallsOK, Goto

LEMMA LetGoTypes ==
    ASSUME CallsOK, SessionsOK, NEW m \in Managers, NEW S, NEW T \in SUBSET Users
    PROVE  LetGo(m, S, T) \in [Calls -> PlacedCall]
<1> SUFFICES ASSUME NEW c \in Calls
             PROVE  LetGo(m, S, T)[c] \in PlacedCall
  BY DEF LetGo
<1>1. call[c] \in PlacedCall
  BY DEF CallsOK
<1>2. CASE M(c) # m
  BY <1>1, <1>2 DEF LetGo
<1>3. CASE M(c) = m
  <2> DEFINE ref == IF U(c) \in S /\ call[c].ref = "attached" THEN "detached" ELSE call[c].ref
             kept == call[c].kept /\ U(c) \notin T
             got == IF U(c) \in T /\ call[c].kept THEN tok[m][U(c)] ELSE call[c].got
  <2>1. ref \in {"none", "attached", "detached", "revoked"}
    BY <1>1 DEF PlacedCall, Call
  <2>2. kept \in BOOLEAN
    BY <1>1 DEF PlacedCall, Call
  <2>3. got \in Tokens
    BY <1>1 DEF PlacedCall, Call, SessionsOK
  <2>4. LetGo(m, S, T)[c] = [call[c] EXCEPT !.ref = ref, !.kept = kept, !.got = got]
    BY <1>3 DEF LetGo
  <2> HIDE DEF ref, kept, got
  <2> QED
    BY <1>1, <2>1, <2>2, <2>3, <2>4 DEF PlacedCall, Call
<1> QED
  BY <1>2, <1>3

LEMMA HydratingTypes ==
    ASSUME NEW cs \in [Calls -> PlacedCall], NEW c \in Calls, NEW u \in Users, NEW b \in Book
    PROVE  Hydrating(cs, c, u, b) \in [Calls -> PlacedCall]
<1>1. ASSUME NEW x \in Call, NEW ref \in Refs, NEW kept \in BOOLEAN, NEW t \in Tokens
      PROVE  [x EXCEPT !.pc = "ready", !.user = u, !.ref = ref, !.kept = kept, !.before = t, !.got = t,
                       !.snap = None] \in PlacedCall
  BY DEF PlacedCall, Call, Refs, PCs
<1>2. cs[c] \in Call
  BY DEF PlacedCall
<1>3. [cs[c] EXCEPT !.pc = "ready", !.user = u, !.ref = Ref(b, u),
                    !.kept = TRUE, !.before = NoToken, !.got = NoToken, !.snap = None] \in PlacedCall
  BY <1>1, <1>2, RefTypes, TokenTypes
<1> QED
  BY <1>3 DEF Hydrating

-----------------------------------------------------------------------------
\* Sessions.

LEMMA HoldTypes ==
    ASSUME SessionsOK, CallsOK, NEW c \in Calls, U(c) \in Users
    PROVE  /\ Held(c) \in Tokens
           /\ \A t \in Tokens : Hold(c, t) => tok' \in [Managers -> [Users -> Tokens]]
<1>1. M(c) \in Managers /\ call[c].got \in Tokens
  BY ManagersOfCalls DEF CallsOK, PlacedCall, Call
<1>2. Held(c) \in Tokens
  BY <1>1 DEF Held, SessionsOK
<1>3. ASSUME NEW t \in Tokens, Hold(c, t) PROVE tok' \in [Managers -> [Users -> Tokens]]
  <2> DEFINE m == M(c)  u == U(c)
  <2>1. tok' = [tok EXCEPT ![m][u] = t] \/ tok' = tok
    BY <1>3 DEF Hold
  <2>2. m \in Managers /\ u \in Users /\ tok \in [Managers -> [Users -> Tokens]]
    BY <1>1 DEF SessionsOK
  <2> HIDE DEF m, u
  <2> QED
    BY <2>1, <2>2
<1> QED
  BY <1>2, <1>3

\* A restore of the instance of a call, or none.
LEMMA RestoresTypes ==
    ASSUME SessionsOK, CallsOK, NEW c \in Calls, U(c) \in Users, NEW t,
           Restores(c, t) \/ Holds(c, t)
    PROVE  /\ t \in Tokens /\ tok' \in [Managers -> [Users -> Tokens]]
           /\ store' \in [Users -> Tokens] /\ cookie' \in Users \cup {None}
<1>1. Held(c) \in Tokens
  BY HoldTypes
<1>2. CASE Restores(c, t)
  <2>1. t \in Tokens
    BY <1>1, <1>2, RestoredTypes DEF Restores
  <2> QED
    BY <1>1, <1>2, <2>1, HoldTypes, KeepTypes DEF Restores
<1>3. CASE Holds(c, t)
  BY <1>1, <1>3 DEF Holds, SessionsOK
<1> QED
  BY <1>2, <1>3

LEMMA SetSessionTypes ==
    ASSUME SessionsOK, CallsOK, NEW c \in Calls, U(c) \in Users, NEW t \in Tokens, SetSession(c, t)
    PROVE  tok' \in [Managers -> [Users -> Tokens]] /\ store' \in [Users -> Tokens]
<1>1. Stored(t) \in Tokens
  BY TokenTypes
<1> QED
  BY <1>1, HoldTypes DEF SetSession, SessionsOK

LEMMA InstanceTypes ==
    ASSUME SessionsOK, NEW m \in Managers, NEW u \in Users, InstanceFor(m, u)
    PROVE  sdk' \in [Managers -> [Users -> {"none", "new", "up"}]]
BY DEF InstanceFor, SessionsOK

LEMMA PersistTypes ==
    ASSUME BooksOK, RestOK, NEW m \in Managers, NEW b \in Book, Persist(m, b)
    PROVE  BooksOK' /\ mail' \subseteq Managers
BY DEF Persist, BooksOK, RestOK

LEMMA HostActsTypes ==
    ASSUME RestOK, HostActs
    PROVE  begun' \in 0..MaxCalls
BY BoundAssumption DEF RestOK, HostActs

LEMMA BeginTypes ==
    ASSUME TypeInv, NEW c \in Calls, NEW kind \in CallKinds, NEW u \in Users \cup {None}, NEW pc \in PCs,
           pc # "loaded", pc = "queued" \/ u \in Users, Begin(c, kind, u, pc)
    PROVE  CallsOK' /\ begun' \in 0..MaxCalls
<1>1. book[M(c)] \in Book
  BY ManagersOfCalls DEF TypeInv, BooksOK
<1>2. [Idle EXCEPT !.pc = pc, !.kind = kind, !.user = u, !.ref = Ref(book[M(c)], u)] \in PlacedCall
  BY <1>1, IdleTypes
<1> QED
  BY <1>2, HostActsTypes DEF Begin, TypeInv, CallsOK

\* The steps of a call that has a profile.
LEMMA UsersOfCalls ==
    ASSUME CallsOK, NEW c \in Calls, call[c].pc \notin {"idle", "loaded", "queued", "staging"}
    PROVE  U(c) \in Users
BY DEF CallsOK, PlacedCall, U

LEMMA AddTypes ==
    ASSUME TypeInv, NEW c \in Calls,
           StartAdd(c) \/ StageLogin(c) \/ LoginFails(c) \/ \E u \in Users : LoginAs(c, u)
    PROVE  TypeInv'
<1> USE DEF TypeInv
<1>1. CASE StartAdd(c)
  BY <1>1, BeginTypes DEF StartAdd, sessions, BooksOK, SessionsOK, RestOK, PCs, CallKinds
<1>2. CASE StageLogin(c)
  <2>1. CallsOK'
    BY <1>2, GotoTypes DEF StageLogin, PCs
  <2> QED
    BY <1>2, <2>1 DEF StageLogin, sessions, BooksOK, SessionsOK, RestOK
<1>3. CASE LoginFails(c)
  BY <1>3, ReturnTypes DEF LoginFails, sessions, BooksOK, SessionsOK, RestOK
<1>4. ASSUME NEW u \in Users, LoginAs(c, u) PROVE TypeInv'
  <2> DEFINE t == [owner |-> u, bearer |-> "live"]
             calls == [d \in Calls |->
                 IF d = c THEN [call[c] EXCEPT !.pc = "install", !.user = u, !.ref = Ref(book[M(c)], u)]
                 ELSE [call[d] EXCEPT !.out = IF @ = u THEN None ELSE @]]
  <2>1. t \in Tokens /\ Stored(t) \in Tokens
    BY TokenTypes
  <2>2. ASSUME NEW x \in Call, NEW ref \in Refs
        PROVE  [x EXCEPT !.pc = "install", !.user = u, !.ref = ref] \in PlacedCall
    BY DEF PlacedCall, Call, Refs, PCs
  <2>3. ASSUME NEW x \in PlacedCall
        PROVE  [x EXCEPT !.out = IF @ = u THEN None ELSE @] \in PlacedCall
    BY DEF PlacedCall, Call
  <2>4. \A d \in Calls : call[d] \in PlacedCall /\ call[d] \in Call
    BY DEF CallsOK, PlacedCall
  <2>5. calls \in [Calls -> PlacedCall]
    BY <2>2, <2>3, <2>4, RefTypes
  <2>6. CallsOK'
    BY <1>4, <2>5 DEF LoginAs, CallsOK
  <2>7. SessionsOK'
    <3>1. sdk' \in [Managers -> [Users -> {"none", "new", "up"}]]
      BY <1>4, ManagersOfCalls, InstanceTypes DEF LoginAs
    <3>2. tok' \in [Managers -> [Users -> Tokens]] /\ store' \in [Users -> Tokens]
      BY <1>4, <2>1, ManagersOfCalls DEF LoginAs, SessionsOK
    <3>3. cookie' \in Users \cup {None}
      BY <1>4, TokenTypes DEF LoginAs
    <3> QED
      BY <3>1, <3>2, <3>3 DEF SessionsOK
  <2>8. BooksOK' /\ RestOK'
    BY <1>4 DEF LoginAs, BooksOK, RestOK
  <2> QED
    BY <2>6, <2>7, <2>8
<1> QED
  BY <1>1, <1>2, <1>3, <1>4

LEMMA InstallTypes ==
    ASSUME TypeInv, NEW c \in Calls, InstallProfile(c)
    PROVE  TypeInv'
<1> USE DEF TypeInv
<1> DEFINE b == book[M(c)]
           next == [count |-> [b.count EXCEPT ![U(c)] = IF call[c].ref = "none" /\ @ < 2 THEN @ + 1 ELSE @],
                    reauth |-> IF call[c].ref = "attached" THEN b.reauth \ {U(c)} ELSE b.reauth,
                    active |-> U(c)]
<1>1. U(c) \in Users /\ M(c) \in Managers
  BY UsersOfCalls, ManagersOfCalls DEF InstallProfile, At
<1>2. next \in Book
  <2>1. b.count \in [Users -> 0..2] /\ b.reauth \in SUBSET Users
    BY <1>1 DEF BooksOK, Book
  <2>2. [b.count EXCEPT ![U(c)] = IF call[c].ref = "none" /\ @ < 2 THEN @ + 1 ELSE @] \in [Users -> 0..2]
    BY <1>1, <2>1
  <2> QED
    BY <1>1, <2>1, <2>2 DEF Book
<1>3. BooksOK' /\ mail' \subseteq Managers
  <2>1. CASE Persist(M(c), next)
    BY <1>1, <1>2, <2>1, PersistTypes
  <2>2. CASE UNCHANGED <<book, registry, mail>>
    BY <2>2 DEF BooksOK, RestOK
  <2> QED
    BY <2>1, <2>2 DEF InstallProfile
<1>4. SessionsOK'
  BY <1>1, SetSessionTypes, TokenTypes DEF InstallProfile, SessionsOK
<1>5. CallsOK'
  BY ReturnTypes DEF InstallProfile
<1>6. RestOK'
  BY <1>3 DEF InstallProfile, RestOK
<1> QED
  BY <1>3, <1>4, <1>5, <1>6

LEMMA HydrateTypes ==
    ASSUME TypeInv, NEW c \in Calls, AwaitReady(c) \/ EnsureLive(c) \/ OwnsSession(c)
    PROVE  TypeInv'
<1> USE DEF TypeInv
<1>1. U(c) \in Users /\ M(c) \in Managers
  BY UsersOfCalls, ManagersOfCalls DEF AwaitReady, EnsureLive, OwnsSession, At
<1>2. BooksOK' /\ RestOK'
  BY DEF AwaitReady, EnsureLive, OwnsSession, BooksOK, RestOK
<1>3. ASSUME NEW t \in Tokens, NEW pc \in {"live", "owns", "settle"}
      PROVE  /\ [call[c] EXCEPT !.pc = pc, !.before = t, !.got = t] \in PlacedCall
             /\ [call[c] EXCEPT !.pc = pc, !.got = t] \in PlacedCall
  <2>1. ASSUME NEW x \in Call, x.user \in Users
        PROVE  /\ [x EXCEPT !.pc = pc, !.before = t, !.got = t] \in PlacedCall
               /\ [x EXCEPT !.pc = pc, !.got = t] \in PlacedCall
    BY <2>1 DEF PlacedCall, Call, PCs
  <2>2. call[c] \in Call /\ call[c].user \in Users
    BY <1>1 DEF CallsOK, PlacedCall, U
  <2> QED
    BY <2>1, <2>2
<1>4. CASE AwaitReady(c)
  <2> DEFINE first == call[c].kept /\ sdk[M(c)][U(c)] = "new"
  <2>1. PICK t \in Tokens :
          /\ IF first THEN Restores(c, t) ELSE Holds(c, t)
          /\ call' = [call EXCEPT ![c].pc = "live", ![c].before = t, ![c].got = t]
    BY <1>4 DEF AwaitReady
  <2>2. /\ tok' \in [Managers -> [Users -> Tokens]]
        /\ store' \in [Users -> Tokens] /\ cookie' \in Users \cup {None}
    BY <1>1, <2>1, RestoresTypes
  <2>3. sdk' \in [Managers -> [Users -> {"none", "new", "up"}]]
    BY <1>1, <1>4 DEF AwaitReady, SessionsOK
  <2>4. CallsOK'
    BY <1>3, <2>1 DEF CallsOK
  <2> QED
    BY <1>2, <2>2, <2>3, <2>4 DEF SessionsOK
<1>5. CASE EnsureLive(c)
  <2>1. PICK t \in Tokens :
          /\ IF Held(c).bearer = "live" THEN Holds(c, t) ELSE Restores(c, t)
          /\ call' = [call EXCEPT ![c].got = t,
                      ![c].pc = IF t.bearer = "live" /\ Foreign(c, t) THEN "owns" ELSE "settle"]
    BY <1>5 DEF EnsureLive
  <2>2. /\ tok' \in [Managers -> [Users -> Tokens]]
        /\ store' \in [Users -> Tokens] /\ cookie' \in Users \cup {None}
    BY <1>1, <2>1, RestoresTypes
  <2>3. CallsOK'
    <3> DEFINE pc == IF t.bearer = "live" /\ Foreign(c, t) THEN "owns" ELSE "settle"
    <3>1. pc \in {"live", "owns", "settle"}
      OBVIOUS
    <3>2. call' = [call EXCEPT ![c] = [call[c] EXCEPT !.pc = pc, !.got = t]]
      BY <2>1 DEF CallsOK, PlacedCall, Call
    <3> HIDE DEF pc
    <3> QED
      BY <1>3, <3>1, <3>2 DEF CallsOK
  <2> QED
    BY <1>2, <1>5, <2>2, <2>3 DEF EnsureLive, SessionsOK
<1>6. CASE OwnsSession(c)
  <2>1. CallsOK'
    <3>1. CASE Goto(c, "settle")
      BY <1>1, <3>1, GotoTypes DEF PCs
    <3>2. CASE call' = [call EXCEPT ![c].pc = "settle", ![c].got = NoToken]
      BY <1>3, <3>2, TokenTypes DEF CallsOK
    <3> QED
      BY <1>6, <3>1, <3>2 DEF OwnsSession
  <2>2. SessionsOK'
    BY <1>1, <1>6, SetSessionTypes, TokenTypes DEF OwnsSession, SessionsOK
  <2> QED
    BY <1>2, <2>1, <2>2
<1> QED
  BY <1>4, <1>5, <1>6

LEMMA ReconciledTypes ==
    ASSUME NEW c \in Calls, U(c) \in Users, NEW b \in Book
    PROVE  /\ Reconciled(c, b) \in Book
           /\ Reconciled(c, b).count = b.count /\ Reconciled(c, b).active = b.active
           /\ [Reconciled(c, b) EXCEPT !.active = U(c)] \in Book
BY DEF Reconciled, Book

LEMMA SettleTypes ==
    ASSUME TypeInv, NEW c \in Calls, SettleHydrate(c)
    PROVE  TypeInv'
<1> USE DEF TypeInv
<1> DEFINE b == Reconciled(c, book[M(c)])
           act == [b EXCEPT !.active = U(c)]
<1>1. U(c) \in Users /\ M(c) \in Managers
  BY UsersOfCalls, ManagersOfCalls DEF SettleHydrate, At
<1>2. b \in Book /\ act \in Book
  BY <1>1, ReconciledTypes DEF BooksOK
<1>3. \/ Persist(M(c), act) \/ Persist(M(c), b)
      \/ book' = [book EXCEPT ![M(c)] = b] /\ UNCHANGED <<registry, mail>>
  BY DEF SettleHydrate
<1>4. BooksOK' /\ mail' \subseteq Managers
  <2> HIDE DEF b, act
  <2>1. CASE Persist(M(c), act) \/ Persist(M(c), b)
    BY <1>1, <1>2, <2>1, PersistTypes
  <2>2. CASE book' = [book EXCEPT ![M(c)] = b] /\ UNCHANGED <<registry, mail>>
    BY <1>1, <1>2, <2>2 DEF BooksOK, RestOK
  <2> QED
    BY <1>3, <2>1, <2>2
<1>5. gone' \subseteq Users
  BY DEF SettleHydrate, RestOK, CallsOK, PlacedCall, Call
<1>6. CallsOK'
  BY ReturnTypes DEF SettleHydrate
<1> QED
  BY <1>4, <1>5, <1>6 DEF SettleHydrate, RestOK, SessionsOK, sessions

LEMMA StartTypes ==
    ASSUME TypeInv, NEW c \in Calls, NEW u \in Users,
           StartSwitch(c, u) \/ StartRemove(c, u) \/ SessionExpired(c, u)
    PROVE  TypeInv'
<1> USE DEF TypeInv
<1>1. CallsOK' /\ begun' \in 0..MaxCalls
  BY BeginTypes DEF StartSwitch, StartRemove, SessionExpired, PCs, CallKinds
<1>2. SessionsOK'
  <2>1. M(c) \in Managers /\ NoToken \in Tokens
    BY ManagersOfCalls, TokenTypes
  <2>2. CASE StartSwitch(c, u) \/ StartRemove(c, u)
    BY <2>1, <2>2, InstanceTypes DEF StartSwitch, StartRemove, SessionsOK
  <2>3. CASE SessionExpired(c, u)
    BY <2>1, <2>3 DEF SessionExpired, SessionsOK
  <2> QED
    BY <2>2, <2>3
<1> QED
  BY <1>1, <1>2 DEF StartSwitch, StartRemove, SessionExpired, BooksOK, RestOK

LEMMA SignOutTypes ==
    ASSUME TypeInv, NEW c \in Calls, SignOutProfile(c)
    PROVE  TypeInv'
<1> USE DEF TypeInv
<1>1. U(c) \in Users /\ M(c) \in Managers
  BY UsersOfCalls, ManagersOfCalls DEF SignOutProfile, At
<1>2. ASSUME NEW x \in PlacedCall
      PROVE  /\ x.user \in Users => [x EXCEPT !.pc = "torn"] \in PlacedCall
             /\ [x EXCEPT !.ref = "revoked"] \in PlacedCall
  BY DEF PlacedCall, Call, PCs
<1>3. \A d \in Calls : call[d] \in PlacedCall
  BY DEF CallsOK
<1>4. CallsOK'
  BY <1>1, <1>2, <1>3 DEF SignOutProfile, CallsOK, U
<1>5. SessionsOK'
  <2>1. tok' \in [Managers -> [Users -> Tokens]]
    BY <1>1, TokenTypes DEF SignOutProfile, SessionsOK
  <2>2. store' \in [Users -> Tokens] /\ cookie' \in Users \cup {None}
    BY <1>1, TokenTypes DEF SignOutProfile, SessionsOK
  <2>3. sdk' \in [Managers -> [Users -> {"none", "new", "up"}]]
    BY <1>1 DEF SignOutProfile, SessionsOK
  <2> QED
    BY <2>1, <2>2, <2>3 DEF SessionsOK
<1> QED
  BY <1>4, <1>5 DEF SignOutProfile, BooksOK, RestOK

LEMMA SplicedTypes ==
    ASSUME NEW b \in Book, NEW u \in Users
    PROVE  /\ Spliced(b, u) \in [Users -> 0..2]
           /\ Listed([b EXCEPT !.count = Spliced(b, u)]) \subseteq Users
           /\ \A a \in Users \cup {None} : /\ [[b EXCEPT !.count = Spliced(b, u)] EXCEPT !.active = a] \in Book
                                        /\ [b EXCEPT !.count = Spliced(b, u)] \in Book
<1>1. b.count \in [Users -> 0..2]
  BY DEF Book
<1>2. Spliced(b, u) \in [Users -> 0..2]
  BY <1>1 DEF Spliced
<1> QED
  BY <1>2 DEF Book, Listed

LEMMA DropTypes ==
    ASSUME TypeInv, NEW c \in Calls, DropProfile(c)
    PROVE  TypeInv'
<1> USE DEF TypeInv
<1> DEFINE m == M(c)
           u == U(c)
           b == [book[m] EXCEPT !.count = Spliced(book[m], u)]
           cs == LetGo(m, {u}, {u})
           rest == [sdk EXCEPT ![m][u] = "none"]
<1>1. u \in Users /\ m \in Managers /\ book[m] \in Book
  BY UsersOfCalls, ManagersOfCalls DEF DropProfile, At, BooksOK
<1>2. b \in Book /\ Listed(b) \subseteq Users /\ b.active \in Users \cup {None}
      /\ \A a \in Users \cup {None} : [b EXCEPT !.active = a] \in Book
  <2>1. Users # {}
    BY <1>1
  <2> QED
    BY <1>1, <2>1, SplicedTypes DEF Book
<1>3. cs \in [Calls -> PlacedCall] /\ rest \in [Managers -> [Users -> {"none", "new", "up"}]]
  BY <1>1, LetGoTypes DEF SessionsOK
<1>4. tok' \in [Managers -> [Users -> Tokens]] /\ UNCHANGED <<store, cookie, booting, begun>>
  BY <1>1, TokenTypes DEF DropProfile, SessionsOK
<1>5. ASSUME NEW v \in Listed(b),
             book' = [book EXCEPT ![m] = [b EXCEPT !.active = v]],
             call' = [Hydrating(cs, c, v, b) EXCEPT ![c].out = u],
             sdk' = [rest EXCEPT ![m][v] = IF @ = "none" THEN "new" ELSE @],
             UNCHANGED <<registry, mail, gone>>
      PROVE  TypeInv'
  <2> HIDE DEF m, u, b, cs, rest
  <2>1. v \in Users
    BY <1>2
  <2>2. CallsOK'
    <3> DEFINE h == Hydrating(cs, c, v, b)
    <3>1. h \in [Calls -> PlacedCall]
      BY <1>2, <1>3, <2>1, HydratingTypes
    <3> HIDE DEF h
    <3>2. [h[c] EXCEPT !.out = u] \in PlacedCall
      BY <1>1, <3>1 DEF PlacedCall, Call
    <3>3. call' = [h EXCEPT ![c].out = u]
      BY <1>5 DEF h
    <3> QED
      BY <3>1, <3>2, <3>3 DEF CallsOK
  <2>3. BooksOK'
    BY <1>1, <1>2, <1>5, <2>1 DEF BooksOK
  <2>4. sdk' \in [Managers -> [Users -> {"none", "new", "up"}]]
    BY <1>1, <1>3, <1>5, <2>1
  <2> QED
    BY <1>4, <1>5, <2>2, <2>3, <2>4 DEF SessionsOK, RestOK
<1>6. ASSUME Persist(m, [b EXCEPT !.active = IF @ = u THEN None ELSE @]),
             call' = [cs EXCEPT ![c] = Idle], sdk' = rest, gone' = gone \cup {u}
      PROVE  TypeInv'
  <2> HIDE DEF m, u, b, cs, rest
  <2>1. BooksOK' /\ mail' \subseteq Managers
    BY <1>1, <1>2, <1>6, PersistTypes
  <2>2. CallsOK'
    BY <1>3, <1>6, IdleTypes DEF CallsOK
  <2> QED
    BY <1>1, <1>3, <1>4, <1>6, <2>1, <2>2 DEF SessionsOK, RestOK
<1> QED
  BY <1>5, <1>6 DEF DropProfile, Promotable

LEMMA LoadTypes ==
    ASSUME TypeInv, NEW c \in Calls, LoadRegistry(c)
    PROVE  TypeInv'
<1> DEFINE x == [Idle EXCEPT !.pc = "loaded", !.kind = "sync", !.snap = registry]
<1>1. x \in PlacedCall /\ call' = [call EXCEPT ![c] = x]
  BY IdleTypes DEF TypeInv, BooksOK, LoadRegistry
<1> HIDE DEF x
<1>2. CallsOK'
  BY <1>1 DEF TypeInv, CallsOK
<1> QED
  BY <1>2 DEF LoadRegistry, sessions, TypeInv, BooksOK, SessionsOK, RestOK

LEMMA SyncTypes ==
    ASSUME TypeInv, NEW c \in Calls, SyncFromRegistry(c)
    PROVE  TypeInv'
<1> USE DEF TypeInv
<1> DEFINE m == M(c)
           b == call[c].snap
           a == b.active
           lost == Users \ Listed(b)
           cs == LetGo(m, Users, lost)
           rest == [sdk EXCEPT ![m] = [u \in Users |-> IF u \in lost THEN "none" ELSE sdk[m][u]]]
           toks == [u \in Users |-> IF u \in lost THEN NoToken ELSE tok[m][u]]
<1>1. m \in Managers /\ b \in Book /\ a \in Users \cup {None}
  BY ManagersOfCalls DEF SyncFromRegistry, At, CallsOK, PlacedCall, Book
<1>2. cs \in [Calls -> PlacedCall] /\ rest \in [Managers -> [Users -> {"none", "new", "up"}]]
  BY <1>1, LetGoTypes DEF SessionsOK
<1>3. toks \in [Users -> Tokens]
  BY <1>1, TokenTypes DEF SessionsOK
<1>4. /\ tok' = [tok EXCEPT ![m] = toks] /\ UNCHANGED <<registry, store, cookie, booting, mail, gone, begun>>
      /\ book' = [book EXCEPT ![m] = b]
  BY DEF SyncFromRegistry, Taken
<1>5. tok' \in [Managers -> [Users -> Tokens]]
  <2> HIDE DEF toks, m
  <2> QED
    BY <1>1, <1>3, <1>4 DEF SessionsOK
<1>6. BooksOK'
  <2> HIDE DEF m, b
  <2> QED
    BY <1>1, <1>4 DEF BooksOK
<1>7. CallsOK' /\ sdk' \in [Managers -> [Users -> {"none", "new", "up"}]]
  <2>1. CASE a \notin {None, book[m].active}
    <3>1. call' = Hydrating(cs, c, a, b) /\ sdk' = [rest EXCEPT ![m][a] = IF @ = "none" THEN "new" ELSE @]
      BY <2>1 DEF SyncFromRegistry
    <3>2. a \in Users
      BY <1>1, <2>1
    <3> HIDE DEF cs, rest, a, b, m
    <3>3. CallsOK'
      BY <1>1, <1>2, <3>1, <3>2, HydratingTypes DEF CallsOK
    <3>4. sdk' \in [Managers -> [Users -> {"none", "new", "up"}]]
      BY <1>1, <1>2, <3>1, <3>2
    <3> QED
      BY <3>3, <3>4
  <2>2. CASE ~(a \notin {None, book[m].active})
    <3>1. call' = [cs EXCEPT ![c] = Idle] /\ sdk' = rest
      BY <2>2 DEF SyncFromRegistry
    <3> HIDE DEF cs, rest
    <3> QED
      BY <1>2, <3>1, IdleTypes DEF CallsOK
  <2> QED
    BY <2>1, <2>2
<1> QED
  BY <1>4, <1>5, <1>6, <1>7 DEF SessionsOK, RestOK

LEMMA FlagTypes ==
    ASSUME TypeInv, NEW c \in Calls, OnUnauthorized(c)
    PROVE  TypeInv'
<1> USE DEF TypeInv
<1> DEFINE b == [book[M(c)] EXCEPT !.reauth = @ \cup {U(c)}]
<1>1. U(c) \in Users /\ M(c) \in Managers
  BY UsersOfCalls, ManagersOfCalls DEF OnUnauthorized, At
<1>2. b \in Book
  BY <1>1 DEF BooksOK, Book
<1>3. BooksOK' /\ mail' \subseteq Managers
  <2>1. CASE Persist(M(c), b)
    BY <1>1, <1>2, <2>1, PersistTypes
  <2>2. CASE UNCHANGED <<registry, book, mail>>
    BY <2>2 DEF BooksOK, RestOK
  <2> QED
    BY <2>1, <2>2 DEF OnUnauthorized
<1>4. CallsOK'
  BY ReturnTypes DEF OnUnauthorized
<1> QED
  BY <1>3, <1>4 DEF OnUnauthorized, SessionsOK, RestOK, sessions

LEMMA ReloadTypes ==
    ASSUME TypeInv, NEW m \in Managers, Reload(m)
    PROVE  TypeInv'
<1> USE DEF TypeInv
<1>1. PICK a \in Users \cup {None} :
        /\ book' = [book EXCEPT ![m] = [registry EXCEPT !.active = a]]
        /\ sdk' = [sdk EXCEPT ![m] = [u \in Users |-> IF u = a THEN "new" ELSE "none"]]
        /\ booting' = [booting EXCEPT ![m] = a]
  BY DEF Reload, Listed, BooksOK, Book
<1>2. BooksOK'
  <2>1. [registry EXCEPT !.active = a] \in Book
    BY DEF BooksOK, Book
  <2> QED
    BY <1>1, <2>1 DEF Reload, BooksOK
<1>3. SessionsOK'
  BY <1>1, TokenTypes DEF Reload, SessionsOK
<1>4. CallsOK'
  BY IdleTypes DEF Reload, CallsOK
<1>5. RestOK'
  BY <1>1, HostActsTypes DEF Reload, RestOK
<1> QED
  BY <1>2, <1>3, <1>4, <1>5

LEMMA RestoreTypes ==
    ASSUME TypeInv, NEW m \in Managers, Restore(m)
    PROVE  TypeInv'
<1> USE DEF TypeInv
<1> DEFINE u == booting[m]
<1>1. u \in Users
  BY DEF Restore, RestOK
<1>2. SessionsOK'
  <2>1. CASE UNCHANGED sessions
    BY <2>1 DEF sessions, SessionsOK
  <2>2. ASSUME NEW t \in Restored(tok[m][u], u), sdk' = [sdk EXCEPT ![m][u] = "up"],
               tok' = [tok EXCEPT ![m][u] = t], Keep(u, tok[m][u], t)
        PROVE  SessionsOK'
    <3>1. tok[m][u] \in Tokens
      BY <1>1 DEF SessionsOK
    <3>2. t \in Tokens
      BY <1>1, <3>1, RestoredTypes
    <3>3. store' \in [Users -> Tokens] /\ cookie' \in Users \cup {None}
      BY <1>1, <2>2, <3>1, <3>2, KeepTypes
    <3> QED
      BY <1>1, <2>2, <3>2, <3>3 DEF SessionsOK
  <2> QED
    BY <2>1, <2>2 DEF Restore
<1>3. BooksOK'
  <2>1. [book[m] EXCEPT !.reauth = @ \ {u}] \in Book
    BY DEF BooksOK, Book
  <2>2. book' = book \/ book' = [book EXCEPT ![m] = [book[m] EXCEPT !.reauth = @ \ {u}]]
    BY DEF Restore, BooksOK
  <2> HIDE DEF u
  <2> QED
    BY <2>1, <2>2 DEF Restore, BooksOK
<1>4. RestOK' /\ CallsOK'
  BY DEF Restore, RestOK, CallsOK
<1> QED
  BY <1>2, <1>3, <1>4

LEMMA ExpireTypes ==
    ASSUME TypeInv, NEW u \in Users, Expire(u)
    PROVE  TypeInv'
<1>1. SessionsOK'
  BY TokenTypes DEF TypeInv, Expire, SessionsOK
<1> QED
  BY <1>1 DEF TypeInv, Expire, BooksOK, CallsOK, RestOK

LEMMA InitTypes == Init => TypeInv
<1> SUFFICES ASSUME Init PROVE TypeInv
  OBVIOUS
<1>1. PICK S \in SUBSET Users, a \in Users \cup {None} :
        LET b == [count |-> [u \in Users |-> IF u \in S THEN 1 ELSE 0], reauth |-> {}, active |-> a]
            Live(u) == [owner |-> u, bearer |-> "live"] IN
        /\ registry = b /\ book = [m \in Managers |-> b]
        /\ sdk = [m \in Managers |-> [u \in Users |-> IF u = a THEN "up" ELSE "none"]]
        /\ tok = [m \in Managers |-> [u \in Users |-> IF u = a THEN Live(u) ELSE NoToken]]
        /\ store = [u \in Users |-> IF u \in S THEN Stored(Live(u)) ELSE NoToken]
        /\ cookie = Cookie(a)
  BY DEF Init
<1>2. BooksOK
  <2>1. [u \in Users |-> IF u \in S THEN 1 ELSE 0] \in [Users -> 0..2]
    OBVIOUS
  <2>2. registry \in Book
    BY <1>1, <2>1 DEF Book
  <2> QED
    BY <1>1, <2>2 DEF BooksOK
<1>3. SessionsOK
  BY <1>1, TokenTypes DEF SessionsOK
<1>4. CallsOK
  BY IdleTypes DEF Init, CallsOK
<1>5. RestOK
  BY BoundAssumption DEF Init, RestOK
<1> QED
  BY <1>2, <1>3, <1>4, <1>5 DEF TypeInv

LEMMA NextKeepsTypes == TypeInv /\ [Next]_vars => TypeInv'
<1>1. ASSUME TypeInv, UNCHANGED vars PROVE TypeInv'
  BY <1>1 DEF vars, sessions, TypeInv, BooksOK, SessionsOK, CallsOK, RestOK
<1>2. ASSUME TypeInv, NEW c \in Calls, CallStep(c) PROVE TypeInv'
  <2>1. CASE \E u \in Users : LoginAs(c, u) \/ StartSwitch(c, u) \/ StartRemove(c, u) \/ SessionExpired(c, u)
    BY <1>2, <2>1, AddTypes, StartTypes
  <2>2. CASE StartAdd(c) \/ StageLogin(c) \/ LoginFails(c)
    BY <1>2, <2>2, AddTypes
  <2>3. CASE AwaitReady(c) \/ EnsureLive(c) \/ OwnsSession(c)
    BY <1>2, <2>3, HydrateTypes
  <2> QED
    BY <1>2, <2>1, <2>2, <2>3, InstallTypes, SettleTypes, SignOutTypes, DropTypes, LoadTypes, SyncTypes, FlagTypes DEF CallStep
<1> QED
  BY <1>1, <1>2, ReloadTypes, RestoreTypes, ExpireTypes DEF Next

\* The registry, the lists, sessions and calls keep their types, whatever the
\* tabs, calls, accounts and what the host overlaps.
THEOREM ProfilesTypeCorrect == Spec => []TypeOK
  BY InitTypes, NextKeepsTypes, TypesAreOK, PTL DEF Spec

-----------------------------------------------------------------------------
\* The lists, when the tabs keep out of each other's way.

Hydration == {"ready", "live", "owns", "settle"}

\* What a call can be doing, by its kind.
KindInv ==
    \A c \in Calls :
        /\ At(c, "idle") => Is(c, "none")
        /\ call[c].pc \in {"queued", "staging", "install"} => Is(c, "add")
        /\ call[c].pc \in {"leaving", "torn"} => Is(c, "remove")
        /\ call[c].pc \in Hydration => call[c].kind \in {"switch", "remove", "sync"}
        /\ At(c, "flag") => Is(c, "expired")
        /\ At(c, "loaded") => Is(c, "sync")
        /\ call[c].out # None => Is(c, "remove") /\ call[c].pc \in Hydration

\* The calls of the host are in one tab, which no sync is in; a tab has one
\* sync at a time.
Hosted(c) == call[c].kind \in HostKinds
OneTab ==
    /\ \A c, d \in Calls : Hosted(c) /\ Hosted(d) => M(c) = M(d)
    /\ \A c, d \in Calls : Hosted(c) /\ Is(d, "sync") => M(c) # M(d)
    /\ \A c, d \in Calls : Is(c, "sync") /\ Is(d, "sync") /\ M(c) = M(d) => c = d

\* Those that add, switch to or take out a profile are on one of their own.
Owning(c) == call[c].pc \in {"install", "leaving", "torn"} \/ Is(c, "switch")
OwnsOne == \A c, d \in Calls : c # d /\ Owning(c) /\ Owning(d) => U(c) # U(d)

\* What the calls under way have found in the list is still so.
InstallInv(c) ==
    At(c, "install") =>
        /\ call[c].ref \in {"none", "attached", "revoked"}
        /\ call[c].ref = "attached" => U(c) \in Listed(book[M(c)])
        /\ call[c].ref = "none" => U(c) \notin Listed(book[M(c)])
        /\ U(c) \notin gone /\ \A d \in Calls : call[d].out # U(c)
FoundInv ==
    \A c \in Calls :
        /\ InstallInv(c)
        /\ Is(c, "switch") => U(c) \in Listed(book[M(c)])
        /\ call[c].out \notin Listed(book[M(c)])

\* A list: each account once, and the active one in it.
Healthy(b) ==
    /\ \A u \in Users : b.count[u] <= 1
    /\ IF Listed(b) = {} THEN b.active = None ELSE b.active \in Listed(b)
HealthInv == Healthy(registry) /\ \A m \in Managers : Healthy(book[m])

\* A tab lists what the registry does, has a message to read it, a list it
\* loaded, or a removal in it that will save the list.
Unread(m) == m \in mail \/ \E c \in Calls : M(c) = m /\ At(c, "loaded")
SameList(b, r) == Listed(b) = Listed(r) /\ b.active = r.active
Agrees(m) ==
    \/ Unread(m)
    \/ \E c \in Calls : M(c) = m /\ Is(c, "remove") /\ call[c].pc \in Hydration
    \/ SameList(book[m], registry)
\* What a sync loaded is what the registry has, or it will be read again.
SnapInv ==
    \A c \in Calls : At(c, "loaded") =>
        Healthy(call[c].snap) /\ (M(c) \in mail \/ SameList(call[c].snap, registry))
\* Who was removed is not listed where the registry was read, nor where the
\* host calls.
Unhosted(m) == \A c \in Calls : M(c) = m => ~Hosted(c)
GoneInv ==
    \A u \in gone :
        /\ u \notin Listed(registry)
        /\ \A m \in Managers : (Unread(m) /\ Unhosted(m)) \/ u \notin Listed(book[m])
SharedInv == GoneInv /\ SnapInv /\ \A m \in Managers : Agrees(m)

ListInv == KindInv /\ OneTab /\ OwnsOne /\ FoundInv /\ HealthInv /\ SharedInv

\* A call that goes on, or returns.
GoesOn(d) ==
    /\ call'[d].kind = call[d].kind /\ call'[d].user = call[d].user /\ call'[d].out = call[d].out
    /\ \/ call'[d].pc = call[d].pc
       \/ call[d].pc \in Hydration /\ call'[d].pc \in Hydration
       \/ call[d].pc = "leaving" /\ call'[d].pc = "torn"
       \/ call[d].pc = "queued" /\ call'[d].pc = "staging"
    /\ call[d].pc = "install" => call'[d].ref \in {call[d].ref, "revoked"}
    /\ call'[d].snap = call[d].snap \/ call[d].pc # "loaded"
Onward(d) == GoesOn(d) \/ call'[d] = Idle
\* Nothing is left to it that its tab's list waits for.
Ends(d) == ~At(d, "loaded") /\ ~(Is(d, "remove") /\ call[d].pc \in Hydration)

\* For the lemmas, which look at some of the parts.
LEMMA OnwardCalls ==
    ASSUME ListInv, \A d \in Calls : Onward(d)
    PROVE  KindInv' /\ OwnsOne' 
           /\ \A d \in Calls : (Hosted(d)' => Hosted(d)) /\ (Is(d, "sync")' => Is(d, "sync"))
<1>1. KindInv'
  BY DEF ListInv, KindInv, Onward, GoesOn, Idle, At, Is, Hydration
<1>2. \A d \in Calls : Owning(d)' => Owning(d) /\ call'[d].user = call[d].user
  BY DEF Onward, GoesOn, Idle, Owning, Is, Hydration
<1>3. OwnsOne'
  BY <1>2 DEF ListInv, OwnsOne, U
<1>4. \A d \in Calls : (Hosted(d)' => Hosted(d)) /\ (Is(d, "sync")' => Is(d, "sync"))
  BY DEF Onward, GoesOn, Hosted, Idle, HostKinds, Is
<1> QED
  BY <1>1, <1>3, <1>4

\* A step that lists and activates nothing.
LEMMA QuietStep ==
    ASSUME TypeInv, TypeInv', ListInv, UNCHANGED <<registry, mail, gone>>,
           \A m \in Managers : book'[m].count = book[m].count /\ book'[m].active = book[m].active,
           \A d \in Calls : GoesOn(d) \/ (call'[d] = Idle /\ Ends(d))
    PROVE  ListInv'
<1>1. \A d \in Calls : Onward(d)
  BY DEF Onward
<1>2. KindInv' /\ OwnsOne' /\ \A d \in Calls : (Hosted(d)' => Hosted(d)) /\ (Is(d, "sync")' => Is(d, "sync"))
  BY <1>1, OnwardCalls
<1>3. OneTab'
  BY <1>2 DEF ListInv, OneTab, M
<1>4. \A m \in Managers : Listed(book'[m]) = Listed(book[m])
  BY DEF Listed
<1>5. FoundInv'
  <2>1. \A d \in Calls : M(d) \in Managers
    BY ManagersOfCalls
  <2>2. \A d \in Calls : call'[d].out \in {call[d].out, None}
    BY <1>1 DEF Onward, GoesOn, Idle
  <2>3. \A d \in Calls : call'[d].out \notin Listed(book'[M(d)])
    BY <1>4, <2>1, <2>2, NoneAssumption DEF ListInv, FoundInv, Listed
  <2>4. ASSUME NEW d \in Calls, call'[d].kind = "switch" PROVE call'[d].user \in Listed(book'[M(d)])
    BY <1>1, <1>4, <2>1, <2>4 DEF ListInv, FoundInv, Onward, GoesOn, Idle, Is, U
  <2>5. ASSUME NEW d \in Calls PROVE InstallInv(d)'
    <3> SUFFICES ASSUME call'[d].pc = "install" PROVE InstallInv(d)'
      BY DEF InstallInv, At
    <3>1. /\ call[d].pc = "install" /\ call'[d].user = call[d].user
          /\ call'[d].ref \in {call[d].ref, "revoked"}
      BY <1>1 DEF Onward, GoesOn, Idle, Hydration
    <3>2. call[d].user \in Users
      BY <3>1 DEF TypeInv, CallsOK, PlacedCall
    <3> QED
      BY <1>4, <2>1, <2>2, <3>1, <3>2, NoneAssumption DEF ListInv, FoundInv, InstallInv, At, U, M
  <2> QED
    BY <2>3, <2>4, <2>5 DEF FoundInv, Is, U, M
<1>6. HealthInv'
  BY <1>4 DEF ListInv, HealthInv, Healthy
<1>7. SharedInv'
  <2>1. \A d \in Calls : /\ At(d, "loaded") => At(d, "loaded")' /\ call'[d].snap = call[d].snap
                         /\ At(d, "loaded")' => At(d, "loaded")
    BY DEF GoesOn, Ends, At, Idle, Hydration
  <2>2. \A m \in Managers : Unread(m)' <=> Unread(m)
    BY <2>1 DEF Unread, M
  <2>3. GoneInv'
    <3>1. \A m \in Managers : Unhosted(m) => Unhosted(m)'
      BY <1>2 DEF Unhosted, M
    <3> QED
      BY <1>4, <2>2, <3>1 DEF ListInv, SharedInv, GoneInv
  <2>4. SnapInv'
    BY <2>1 DEF ListInv, SharedInv, SnapInv, SameList, Healthy, Listed, M
  <2>5. ASSUME NEW m \in Managers PROVE Agrees(m)'
    <3>1. CASE Unread(m)
      BY <2>2, <3>1 DEF Agrees
    <3>2. CASE SameList(book[m], registry)
      BY <1>4, <3>2 DEF Agrees, SameList
    <3>3. ASSUME NEW d \in Calls, M(d) = m, Is(d, "remove"), call[d].pc \in Hydration PROVE Agrees(m)'
      <4>1. GoesOn(d)
        BY <3>3 DEF Ends
      <4> QED
        BY <3>3, <4>1 DEF Agrees, GoesOn, Is, M, Hydration
    <3> QED
      BY <3>1, <3>2, <3>3 DEF ListInv, SharedInv, Agrees
  <2> QED
    BY <2>3, <2>4, <2>5 DEF SharedInv
<1> QED
  BY <1>2, <1>3, <1>5, <1>6, <1>7 DEF ListInv

\* A call returns with a list to save, in which others find theirs: one of the
\* host, or one in a tab that has read the registry.
Saves(c) == Hosted(c) \/ (~Unread(M(c)) /\ gone' = gone)

LEMMA PersistStep ==
    ASSUME TypeInv, TypeInv', ListInv, NEW c \in Calls, NEW b \in Book, Saves(c),
           Persist(M(c), b), Healthy(b), call'[c] = Idle, \A d \in Calls : Onward(d),
           gone \subseteq gone', \A u \in gone' : u \notin Listed(b),
           \A d \in Calls \ {c} : At(d, "install") => U(d) \notin gone',
           \A d \in Calls \ {c} : At(d, "install") /\ M(d) = M(c) =>
               (U(d) \in Listed(b) <=> U(d) \in Listed(book[M(c)])),
           \A d \in Calls \ {c} : Is(d, "switch") /\ M(d) = M(c) => U(d) \in Listed(b),
           \A d \in Calls \ {c} : M(d) = M(c) => call[d].out \notin Listed(b)
    PROVE  ListInv'
<1> DEFINE m == M(c)
<1>1. m \in Managers /\ book \in [Managers -> Book] /\ \A d \in Calls : M(d) \in Managers
  BY ManagersOfCalls DEF TypeInv, BooksOK
<1>2. /\ registry' = b /\ book'[m] = b /\ mail' = mail \cup (Managers \ {m})
      /\ \A n \in Managers : n # m => book'[n] = book[n]
  BY <1>1 DEF Persist
<1>3. KindInv' /\ OwnsOne' /\ \A d \in Calls : (Hosted(d)' => Hosted(d)) /\ (Is(d, "sync")' => Is(d, "sync"))
  BY OnwardCalls
<1>4. OneTab'
  BY <1>3 DEF ListInv, OneTab, M
<1>5. FoundInv'
  <2>1. \A d \in Calls : call'[d].out \in {call[d].out, None}
    BY DEF Onward, GoesOn, Idle
  <2>2. \A d \in Calls : call'[d].out \notin Listed(book'[M(d)])
    <3>1. call'[c].out = None /\ None \notin Listed(b) /\ \A n \in Managers : None \notin Listed(book[n])
      BY NoneAssumption DEF Idle, Listed
    <3> QED
      BY <1>1, <1>2, <2>1, <3>1 DEF ListInv, FoundInv
  <2>3. ASSUME NEW d \in Calls, call'[d].kind = "switch" PROVE call'[d].user \in Listed(book'[M(d)])
    BY <1>1, <1>2, <2>3 DEF ListInv, FoundInv, Onward, GoesOn, Idle, Is, U
  <2>4. ASSUME NEW d \in Calls PROVE InstallInv(d)'
    <3> SUFFICES ASSUME call'[d].pc = "install" PROVE InstallInv(d)'
      BY DEF InstallInv, At
    <3>1. /\ d # c /\ call[d].pc = "install" /\ call'[d].user = call[d].user
          /\ call'[d].ref \in {call[d].ref, "revoked"}
      BY DEF Onward, GoesOn, Idle, Hydration
    <3>2. call[d].user \in Users
      BY <3>1 DEF TypeInv, CallsOK, PlacedCall
    <3>3. call[d].user \in Listed(book'[M(d)]) <=> call[d].user \in Listed(book[M(d)])
      BY <1>1, <1>2, <3>1 DEF At, U
    <3> QED
      BY <2>1, <3>1, <3>2, <3>3, NoneAssumption DEF ListInv, FoundInv, InstallInv, At, U, M
  <2> QED
    BY <2>2, <2>3, <2>4 DEF FoundInv, Is, U, M
<1>6. HealthInv'
  BY <1>1, <1>2 DEF ListInv, HealthInv, Healthy, Listed
<1>7. SharedInv'
  <2>1. \A n \in Managers : n # m => n \in mail' /\ Unread(n)'
    BY <1>2 DEF Unread
  <2>2. GoneInv'
    <3>1. ASSUME NEW u \in gone', NEW n \in Managers
          PROVE  (Unread(n)' /\ Unhosted(n)') \/ u \notin Listed(book'[n])
      <4>1. CASE n = m
        BY <1>2, <4>1
      <4>2. CASE n # m /\ Unhosted(n)
        BY <1>3, <2>1, <4>2 DEF Unhosted, M
      <4>3. CASE n # m /\ ~Unhosted(n)
        <5>1. gone' = gone
          BY <4>3 DEF Saves, ListInv, OneTab, Unhosted
        <5> QED
          BY <1>2, <4>3, <5>1 DEF ListInv, SharedInv, GoneInv
      <4> QED
        BY <4>1, <4>2, <4>3
    <3> QED
      BY <1>2, <3>1 DEF GoneInv, Listed
  <2>3. SnapInv'
    <3> SUFFICES ASSUME NEW d \in Calls, At(d, "loaded")'
                 PROVE  Healthy(call'[d].snap) /\ M(d) \in mail'
      BY DEF SnapInv, Healthy, Listed, SameList, M
    <3>1. At(d, "loaded") /\ call'[d].snap = call[d].snap
      BY DEF Onward, GoesOn, At, Idle, Hydration
    <3>2. M(d) # m
      <4>1. Is(d, "sync")
        BY <3>1 DEF ListInv, KindInv
      <4> QED
        BY <3>1, <4>1 DEF Saves, Unread, ListInv, OneTab
    <3> QED
      BY <1>1, <2>1, <3>1, <3>2 DEF ListInv, SharedInv, SnapInv
  <2>4. \A n \in Managers : Agrees(n)'
    BY <1>2, <2>1 DEF Agrees, SameList, Listed
  <2> QED
    BY <2>2, <2>3, <2>4 DEF SharedInv
<1> QED
  BY <1>3, <1>4, <1>5, <1>6, <1>7 DEF ListInv

\* Whom the other calls are on.
LEMMA AloneIs ==
    ASSUME OneAtATime, KindInv, NEW c \in Calls, NEW u, Alone(c, u)
    PROVE  /\ ~Unread(M(c)) /\ \A d \in Calls : Is(d, "sync") => M(d) # M(c)
           /\ \A d \in Calls \ {c} : Hosted(d) => M(d) = M(c) /\ (u # None => U(d) # u)
BY DEF Alone, Hosted, Unread, Syncing, KindInv

LEMMA OwningIs == ASSUME KindInv PROVE \A d \in Calls : Owning(d) => Hosted(d)
BY DEF KindInv, Owning, Hosted, HostKinds, At, Is

\* A call of the host, or a session that expired.
LEMMA BeginStep ==
    ASSUME TypeInv, TypeInv', ListInv, OneAtATime, NEW c \in Calls,
           NEW kind \in CallKinds, NEW u \in Users \cup {None}, NEW pc \in PCs,
           Begin(c, kind, u, pc), UNCHANGED <<registry, book, mail, gone>>,
           \/ kind = "expired" /\ pc = "flag"
           \/ /\ Alone(c, u)
              /\ \/ kind = "add" /\ pc = "queued"
                 \/ kind = "switch" /\ pc = "ready" /\ u \in Listed(book[M(c)])
                 \/ kind = "remove" /\ pc = "leaving" /\ u \in Users
    PROVE  ListInv'
<1>1. /\ call'[c].pc = pc /\ call'[c].kind = kind /\ call'[c].user = u /\ call'[c].out = None
      /\ \A d \in Calls : d # c => call'[d] = call[d]
  <2>1. call' = [call EXCEPT ![c] = [Idle EXCEPT !.pc = pc, !.kind = kind, !.user = u, !.ref = Ref(book[M(c)], u)]]
    BY DEF Begin
  <2> QED
    BY <2>1 DEF TypeInv, CallsOK, Idle
<1>2. call[c].pc = "idle" /\ call[c].kind = "none"
  BY DEF Begin, Busy, ListInv, KindInv, At, Is
<1>3. KindInv'
  BY <1>1 DEF ListInv, KindInv, At, Is, Hydration
<1>4. Hosted(c)' => Alone(c, u)
  BY <1>1 DEF Hosted, HostKinds
<1>5. OneTab'
  <2>1. \A d \in Calls : d # c => (Hosted(d)' <=> Hosted(d)) /\ (Is(d, "sync")' <=> Is(d, "sync"))
    BY <1>1 DEF Hosted, Is
  <2>2. ~Is(c, "sync")'
    BY <1>1 DEF Is
  <2>3. Hosted(c)' => /\ \A d \in Calls \ {c} : Hosted(d) => M(d) = M(c)
                      /\ \A d \in Calls : Is(d, "sync") => M(d) # M(c)
    BY <1>4, AloneIs DEF ListInv
  <2> QED
    BY <2>1, <2>2, <2>3 DEF ListInv, OneTab, M
<1>6. OwnsOne'
  <2>1. \A d \in Calls : Owning(d) => Hosted(d)
    BY OwningIs DEF ListInv
  <2>2. \A d \in Calls : d # c /\ Owning(d)' => Owning(d) /\ U(d)' = U(d)
    BY <1>1 DEF Owning, Is, U
  <2>3. Owning(c)' => u # None /\ U(c)' = u /\ Alone(c, u)
    BY <1>1, NoneAssumption DEF Owning, Is, U, Listed
  <2>4. Alone(c, u) /\ u # None => \A d \in Calls \ {c} : Hosted(d) => U(d) # u
    BY AloneIs DEF ListInv
  <2> QED
    BY <2>1, <2>2, <2>3, <2>4 DEF ListInv, OwnsOne
<1>7. FoundInv'
  <2>1. None \notin Listed(book[M(c)])
    BY NoneAssumption DEF Listed
  <2>2. \A d \in Calls : call'[d].out = call[d].out \/ call'[d].out = None
    BY <1>1
  <2>3. ASSUME NEW d \in Calls PROVE InstallInv(d)'
    <3> SUFFICES ASSUME call'[d].pc = "install" PROVE InstallInv(d)'
      BY DEF InstallInv, At
    <3>1. d # c /\ call'[d] = call[d]
      BY <1>1
    <3>2. call[d].user \in Users
      BY <3>1 DEF TypeInv, CallsOK, PlacedCall
    <3> QED
      BY <2>2, <3>1, <3>2, NoneAssumption DEF ListInv, FoundInv, InstallInv, At, U, M
  <2> QED
    BY <1>1, <2>1, <2>3 DEF ListInv, FoundInv, Is, U, M
<1>8. HealthInv'
  BY DEF ListInv, HealthInv
<1>9. \A d \in Calls : At(d, "loaded")' <=> At(d, "loaded")
  BY <1>1, <1>2 DEF At
<1>10. \A m \in Managers : Unread(m)' <=> Unread(m)
  BY <1>9 DEF Unread, M
<1>11. GoneInv'
  <2>1. Hosted(c)' => ~Unread(M(c))
    BY <1>4, AloneIs DEF ListInv
  <2>2. \A d \in Calls \ {c} : Hosted(d)' => Hosted(d)
    BY <1>1 DEF Hosted
  <2>3. \A m \in Managers : Unread(m) /\ Unhosted(m) => Unhosted(m)'
    BY <2>1, <2>2 DEF Unhosted, M
  <2> QED
    BY <1>10, <2>3 DEF ListInv, SharedInv, GoneInv
<1>12. SnapInv'
  BY <1>1, <1>2, <1>9 DEF ListInv, SharedInv, SnapInv, At, M
<1>13. \A m \in Managers : Agrees(m)'
  BY <1>1, <1>2, <1>10 DEF ListInv, SharedInv, Agrees, Is, M, Hydration
<1> QED
  BY <1>3, <1>5, <1>6, <1>7, <1>8, <1>11, <1>12, <1>13 DEF ListInv, SharedInv

LEMMA LoginStep ==
    ASSUME TypeInv, TypeInv', ListInv, OneAtATime, NEW c \in Calls, NEW u \in Users, LoginAs(c, u)
    PROVE  ListInv'
<1>1. /\ UNCHANGED <<registry, book, mail>> /\ gone' = gone \ {u}
      /\ call[c].pc = "staging" /\ Alone(c, u)
  BY DEF LoginAs, At
<1>2. /\ call'[c].pc = "install" /\ call'[c].kind = call[c].kind /\ call'[c].user = u
      /\ call'[c].ref = Ref(book[M(c)], u) /\ call'[c].out = call[c].out
  <2>1. call'[c] = [call[c] EXCEPT !.pc = "install", !.user = u, !.ref = Ref(book[M(c)], u)]
    BY DEF LoginAs
  <2>2. call[c] \in Call
    BY DEF TypeInv, CallsOK, PlacedCall
  <2> QED
    BY <2>1, <2>2 DEF Call
<1>3. \A d \in Calls \ {c} :
        /\ call'[d].pc = call[d].pc /\ call'[d].kind = call[d].kind /\ call'[d].user = call[d].user
        /\ call'[d].ref = call[d].ref /\ call'[d].out = IF call[d].out = u THEN None ELSE call[d].out
        /\ call'[d].snap = call[d].snap
  <2>1. \A d \in Calls \ {c} : call'[d] = [call[d] EXCEPT !.out = IF @ = u THEN None ELSE @]
    BY DEF LoginAs
  <2>2. \A d \in Calls : call[d] \in Call
    BY DEF TypeInv, CallsOK, PlacedCall
  <2> QED
    BY <2>1, <2>2 DEF Call
<1>4. call[c].kind = "add" /\ call[c].out = None
  BY <1>1 DEF ListInv, KindInv, At, Is, Hydration
<1>5. KindInv'
  BY <1>1, <1>2, <1>3, <1>4 DEF ListInv, KindInv, At, Is, Hydration
<1>6. OneTab'
  BY <1>1, <1>2, <1>3 DEF ListInv, OneTab, Hosted, Is, M
<1>7. OwnsOne'
  <2>1. \A d \in Calls : Owning(d) => Hosted(d)
    BY OwningIs DEF ListInv
  <2>2. \A d \in Calls \ {c} : Owning(d)' => Owning(d) /\ U(d)' = U(d) /\ U(d) # u
    BY <1>1, <1>3, <2>1, AloneIs, NoneAssumption DEF ListInv, Owning, Is, U
  <2>3. U(c)' = u
    BY <1>2 DEF U
  <2> QED
    BY <2>2, <2>3 DEF ListInv, OwnsOne
<1>8. FoundInv'
  <2>1. None \notin Listed(book[M(c)]) /\ \A d \in Calls : None \notin Listed(book[M(d)])
    BY NoneAssumption DEF Listed
  <2>2. \A d \in Calls : call'[d].out # u /\ call'[d].out \in {call[d].out, None}
    BY <1>2, <1>3, <1>4, NoneAssumption
  <2>3. InstallInv(c)'
    BY <1>1, <1>2, <2>2 DEF InstallInv, At, Ref, U, M
  <2>4. ASSUME NEW d \in Calls \ {c} PROVE InstallInv(d)'
    <3> SUFFICES ASSUME call'[d].pc = "install" PROVE InstallInv(d)'
      BY DEF InstallInv, At
    <3>1. call[d].pc = "install" /\ call[d].user \in Users /\ call'[d].user = call[d].user /\ call'[d].ref = call[d].ref
      BY <1>3 DEF TypeInv, CallsOK, PlacedCall
    <3> QED
      BY <1>1, <2>2, <3>1, NoneAssumption DEF ListInv, FoundInv, InstallInv, At, U, M
  <2>5. \A d \in Calls : call'[d].out \notin Listed(book[M(d)])
    BY <2>1, <2>2 DEF ListInv, FoundInv
  <2> QED
    BY <1>1, <1>2, <1>3, <1>4, <2>3, <2>4, <2>5 DEF ListInv, FoundInv, Is, U, M
<1>9. HealthInv'
  BY <1>1 DEF ListInv, HealthInv
<1>10. \A d \in Calls : (At(d, "loaded")' <=> At(d, "loaded")) /\ (Hosted(d)' <=> Hosted(d))
  BY <1>1, <1>2, <1>3 DEF At, Hosted
<1>11. \A m \in Managers : (Unread(m)' <=> Unread(m)) /\ (Unhosted(m)' <=> Unhosted(m))
  BY <1>1, <1>10 DEF Unread, Unhosted, M
<1>12. GoneInv'
  BY <1>1, <1>11 DEF ListInv, SharedInv, GoneInv
<1>13. SnapInv'
  BY <1>1, <1>2, <1>3, <1>10 DEF ListInv, SharedInv, SnapInv, At, M
<1>14. \A m \in Managers : Agrees(m)'
  BY <1>1, <1>2, <1>3, <1>4, <1>11 DEF ListInv, SharedInv, Agrees, Is, M, Hydration
<1> QED
  BY <1>5, <1>6, <1>7, <1>8, <1>9, <1>12, <1>13, <1>14 DEF ListInv, SharedInv

LEMMA ReturnsOnward ==
    ASSUME CallsOK, NEW c \in Calls, Return(c)
    PROVE  call'[c] = Idle /\ \A d \in Calls \ {c} : call'[d] = call[d]
BY DEF Return, CallsOK

\* The steps that concern no list.
LEMMA QuietSteps ==
    ASSUME TypeInv, TypeInv', ListInv,
           \/ \E c \in Calls : \/ StageLogin(c) \/ LoginFails(c) \/ AwaitReady(c) \/ EnsureLive(c) \/ OwnsSession(c)
                              \/ SignOutProfile(c)
           \/ \E m \in Managers : Restore(m)
           \/ \E u \in Users : Expire(u)
           \/ UNCHANGED vars
    PROVE  ListInv'
<1> USE DEF TypeInv, CallsOK, PlacedCall, Call
<1>1. ASSUME NEW c \in Calls, StageLogin(c) PROVE ListInv'
  <2>1. \A d \in Calls : GoesOn(d)
    BY <1>1 DEF StageLogin, Goto, GoesOn, At
  <2> QED
    BY <1>1, <2>1, QuietStep DEF StageLogin
<1>2. ASSUME NEW c \in Calls, LoginFails(c) PROVE ListInv'
  <2>1. \A d \in Calls : GoesOn(d) \/ (call'[d] = Idle /\ Ends(d))
    BY <1>2, ReturnsOnward DEF LoginFails, GoesOn, Ends, At, Hydration
  <2> QED
    BY <1>2, <2>1, QuietStep DEF LoginFails
<1>3. ASSUME NEW c \in Calls, AwaitReady(c) PROVE ListInv'
  <2>1. \A d \in Calls : GoesOn(d)
    <3>1. PICK t \in Tokens : call' = [call EXCEPT ![c].pc = "live", ![c].before = t, ![c].got = t]
      BY <1>3 DEF AwaitReady
    <3>2. call'[c] = [call[c] EXCEPT !.pc = "live", !.before = t, !.got = t] /\ \A d \in Calls \ {c} : call'[d] = call[d]
      BY <3>1
    <3>3. call[c] \in Call /\ call[c].pc = "ready"
      BY <1>3 DEF AwaitReady, At
    <3>4. GoesOn(c)
      BY <3>2, <3>3 DEF GoesOn, Hydration
    <3> QED
      BY <3>2, <3>4 DEF GoesOn
  <2> QED
    BY <1>3, <2>1, QuietStep DEF AwaitReady
<1>4. ASSUME NEW c \in Calls, EnsureLive(c) PROVE ListInv'
  <2>1. \A d \in Calls : GoesOn(d)
    BY <1>4 DEF EnsureLive, GoesOn, At, Hydration
  <2> QED
    BY <1>4, <2>1, QuietStep DEF EnsureLive
<1>5. ASSUME NEW c \in Calls, OwnsSession(c) PROVE ListInv'
  <2>1. \A d \in Calls : GoesOn(d)
    BY <1>5 DEF OwnsSession, Goto, GoesOn, At, Hydration
  <2> QED
    BY <1>5, <2>1, QuietStep DEF OwnsSession
<1>6. ASSUME NEW c \in Calls, SignOutProfile(c) PROVE ListInv'
  <2>1. \A d \in Calls : GoesOn(d)
    BY <1>6 DEF SignOutProfile, GoesOn, At, Hydration
  <2> QED
    BY <1>6, <2>1, QuietStep DEF SignOutProfile
<1>7. ASSUME NEW m \in Managers, Restore(m) PROVE ListInv'
  <2>1. \A d \in Calls : GoesOn(d)
    BY <1>7 DEF Restore, GoesOn
  <2>2. \A n \in Managers : book'[n].count = book[n].count /\ book'[n].active = book[n].active
    BY <1>7 DEF Restore, BooksOK, Book
  <2> QED
    BY <1>7, <2>1, <2>2, QuietStep DEF Restore
<1>8. ASSUME NEW u \in Users, Expire(u) PROVE ListInv'
  <2>1. \A d \in Calls : GoesOn(d)
    BY <1>8 DEF Expire, GoesOn
  <2> QED
    BY <1>8, <2>1, QuietStep DEF Expire
<1>9. CASE UNCHANGED vars
  <2>1. \A d \in Calls : GoesOn(d)
    BY <1>9 DEF vars, GoesOn
  <2> QED
    BY <1>9, <2>1, QuietStep DEF vars
<1> QED
  BY <1>1, <1>2, <1>3, <1>4, <1>5, <1>6, <1>7, <1>8, <1>9

-----------------------------------------------------------------------------
\* The steps that save a list.

LEMMA PersistIs ==
    ASSUME TypeInv, TypeInv', NEW c \in Calls, NEW b, Persist(M(c), b)
    PROVE  b \in Book
BY DEF Persist, TypeInv, BooksOK

\* The list as it was, with a profile of it active.
LEMMA SaveStep ==
    ASSUME TypeInv, TypeInv', ListInv, NEW c \in Calls, NEW b, Saves(c), Return(c), Persist(M(c), b),
           b.count = book[M(c)].count, b.active \in {book[M(c)].active} \cup Listed(book[M(c)]),
           gone' = gone \/ gone' = gone \cup ({call[c].out} \ {None})
    PROVE  ListInv'
<1>1. b \in Book /\ M(c) \in Managers
  BY PersistIs, ManagersOfCalls
<1>2. Listed(b) = Listed(book[M(c)]) /\ Healthy(b)
  BY <1>1 DEF ListInv, HealthInv, Healthy, Listed
<1>3. call'[c] = Idle /\ \A d \in Calls : Onward(d)
  BY ReturnsOnward DEF TypeInv, Onward, GoesOn
<1>4. \A u \in gone' : u \in gone \/ u = call[c].out
  OBVIOUS
<1>5. \A u \in gone' : u \notin Listed(b)
  BY <1>1, <1>2, <1>4 DEF Saves, Unhosted, ListInv, SharedInv, GoneInv, FoundInv
<1>6. \A d \in Calls \ {c} : At(d, "install") => U(d) \notin gone'
  BY <1>4 DEF ListInv, FoundInv, InstallInv
<1>7. \A d \in Calls \ {c} : M(d) = M(c) => call[d].out \notin Listed(b)
  BY <1>2 DEF ListInv, FoundInv
<1>8. \A d \in Calls \ {c} : Is(d, "switch") /\ M(d) = M(c) => U(d) \in Listed(b)
  BY <1>2 DEF ListInv, FoundInv
<1>9. \A d \in Calls \ {c} : At(d, "install") /\ M(d) = M(c) => (U(d) \in Listed(b) <=> U(d) \in Listed(book[M(c)]))
  BY <1>2
<1> QED
  BY <1>1, <1>2, <1>3, <1>5, <1>6, <1>7, <1>8, <1>9, PersistStep

LEMMA SettleStep ==
    ASSUME TypeInv, TypeInv', ListInv, NEW c \in Calls, SettleHydrate(c)
    PROVE  ListInv'
<1> DEFINE b == Reconciled(c, book[M(c)])
<1>1. At(c, "settle") /\ Return(c) /\ UNCHANGED <<sessions, booting, begun>>
  BY DEF SettleHydrate
<1>2. U(c) \in Users /\ M(c) \in Managers /\ book[M(c)] \in Book
  BY <1>1, UsersOfCalls, ManagersOfCalls DEF At, TypeInv, BooksOK
<1>3. b \in Book /\ b.count = book[M(c)].count /\ b.active = book[M(c)].active
  BY <1>2, ReconciledTypes
<1>4. CASE Is(c, "switch") /\ gone' = gone /\ Persist(M(c), IF Usable(c) THEN [b EXCEPT !.active = U(c)] ELSE b)
  <2> DEFINE n == IF Usable(c) THEN [b EXCEPT !.active = U(c)] ELSE b
  <2>1. n.count = book[M(c)].count /\ n.active \in {book[M(c)].active} \cup Listed(book[M(c)])
    <3>1. U(c) \in Listed(book[M(c)])
      BY <1>4 DEF ListInv, FoundInv
    <3> HIDE DEF b
    <3> QED
      BY <1>3, <3>1 DEF Book
  <2>2. Saves(c)
    BY <1>4 DEF Saves, Hosted, HostKinds, Is
  <2> HIDE DEF n
  <2> QED
    BY <1>1, <1>4, <2>1, <2>2, SaveStep DEF n
<1>5. CASE Is(c, "remove") /\ Persist(M(c), b) /\ gone' = gone \cup ({call[c].out} \ {None})
  <2>1. Saves(c)
    BY <1>5 DEF Saves, Hosted, HostKinds, Is
  <2> HIDE DEF b
  <2> QED
    BY <1>1, <1>3, <1>5, <2>1, SaveStep
<1>6. CASE Is(c, "sync") /\ book' = [book EXCEPT ![M(c)] = b] /\ UNCHANGED <<registry, mail, gone>>
  <2>1. call'[c] = Idle /\ \A d \in Calls \ {c} : GoesOn(d)
    BY <1>1, ReturnsOnward DEF TypeInv, GoesOn
  <2>2. Ends(c)
    BY <1>1, <1>6 DEF Ends, Is, At
  <2>3. \A m \in Managers : book'[m].count = book[m].count /\ book'[m].active = book[m].active
    <3> HIDE DEF b
    <3> QED
      BY <1>2, <1>3, <1>6 DEF TypeInv, BooksOK
  <2>4. \A d \in Calls : GoesOn(d) \/ (call'[d] = Idle /\ Ends(d))
    BY <2>1, <2>2
  <2> QED
    BY <1>6, <2>3, <2>4, QuietStep
<1> QED
  BY <1>4, <1>5, <1>6 DEF SettleHydrate

LEMMA FlagStep ==
    ASSUME TypeInv, TypeInv', ListInv, OneAtATime, NEW c \in Calls, OnUnauthorized(c)
    PROVE  ListInv'
<1> DEFINE b == [book[M(c)] EXCEPT !.reauth = @ \cup {U(c)}]
<1>1. call[c].pc = "flag" /\ Return(c) /\ gone' = gone
  BY DEF OnUnauthorized, At
<1>2. call[c].kind = "expired"
  BY <1>1 DEF ListInv, KindInv, At, Is
<1>3. CASE Persist(M(c), b)
  <2>1. b.count = book[M(c)].count /\ b.active = book[M(c)].active
    BY ManagersOfCalls DEF TypeInv, BooksOK, Book
  <2>2. Saves(c)
    BY <1>1 DEF OnUnauthorized, Fresh, Saves, Unread
  <2> HIDE DEF b
  <2> QED
    BY <1>1, <1>3, <2>1, <2>2, SaveStep
<1>4. CASE UNCHANGED <<registry, book, mail>>
  <2>1. \A d \in Calls : GoesOn(d) \/ (call'[d] = Idle /\ Ends(d))
    BY <1>1, <1>2, ReturnsOnward DEF TypeInv, GoesOn, Ends, Is, At
  <2> QED
    BY <1>1, <1>4, <2>1, QuietStep
<1> QED
  BY <1>3, <1>4 DEF OnUnauthorized

LEMMA InstallStep ==
    ASSUME TypeInv, TypeInv', ListInv, NEW c \in Calls, InstallProfile(c)
    PROVE  ListInv'
<1> DEFINE m == M(c)
           u == U(c)
           b == [count |-> [book[m].count EXCEPT ![u] = IF call[c].ref = "none" /\ @ < 2 THEN @ + 1 ELSE @],
                 reauth |-> IF call[c].ref = "attached" THEN book[m].reauth \ {u} ELSE book[m].reauth,
                 active |-> u]
<1>1. call[c].pc = "install" /\ Return(c) /\ gone' = gone
  BY DEF InstallProfile, At
<1>2. call[c].kind = "add" /\ Hosted(c) /\ Saves(c)
  BY <1>1 DEF ListInv, KindInv, At, Is, Saves, Hosted, HostKinds
<1>3. u \in Users /\ m \in Managers /\ book[m] \in Book
  BY <1>1, UsersOfCalls, ManagersOfCalls DEF TypeInv, BooksOK
<1>4. CASE call[c].ref = "revoked" /\ UNCHANGED <<book, registry, mail>>
  <2>1. \A d \in Calls : GoesOn(d) \/ (call'[d] = Idle /\ Ends(d))
    BY <1>1, <1>2, ReturnsOnward DEF TypeInv, GoesOn, Ends, Is, At
  <2> QED
    BY <1>1, <1>4, <2>1, QuietStep
<1>5. CASE call[c].ref # "revoked" /\ Persist(m, b)
  <2>1. b \in Book
    BY <1>5, PersistIs
  <2>2. /\ call[c].ref = "attached" => u \in Listed(book[m])
        /\ call[c].ref = "none" => u \notin Listed(book[m])
        /\ call[c].ref \in {"none", "attached"}
        /\ u \notin gone /\ \A d \in Calls : call[d].out # u
    BY <1>1, <1>5 DEF ListInv, FoundInv, InstallInv, At
  <2>3. /\ \A v \in Users : v # u => b.count[v] = book[m].count[v]
        /\ b.count[u] = IF call[c].ref = "none" /\ book[m].count[u] < 2 THEN book[m].count[u] + 1 ELSE book[m].count[u]
        /\ b.active = u
    BY <1>3 DEF Book
  <2>4. \A v \in Users : book[m].count[v] \in 0..2 /\ book[m].count[v] <= 1
    BY <1>3 DEF ListInv, HealthInv, Healthy, Book
  <2> HIDE DEF b
  <2>5. u \in Listed(b) /\ b.count[u] <= 1
    BY <1>3, <2>2, <2>3, <2>4 DEF Listed
  <2>6. \A v : v # u => (v \in Listed(b) <=> v \in Listed(book[m]))
    BY <2>3 DEF Listed
  <2>7. Healthy(b)
    BY <2>3, <2>4, <2>5 DEF Healthy
  <2>8. call'[c] = Idle /\ \A d \in Calls : Onward(d)
    BY <1>1, ReturnsOnward DEF TypeInv, Onward, GoesOn
  <2>9. \A v \in gone : v \notin Listed(b)
    BY <1>2, <1>3, <2>2, <2>6 DEF Unhosted, ListInv, SharedInv, GoneInv
  <2>10. \A d \in Calls \ {c} : At(d, "install") \/ Is(d, "switch") => U(d) # u
    BY <1>1 DEF ListInv, OwnsOne, Owning, At
  <2>11. \A d \in Calls \ {c} : At(d, "install") => U(d) \notin gone
    BY DEF ListInv, FoundInv, InstallInv
  <2>12. \A d \in Calls \ {c} : M(d) = m => call[d].out \notin Listed(b)
    BY <2>2, <2>6 DEF ListInv, FoundInv
  <2>13. \A d \in Calls \ {c} : Is(d, "switch") /\ M(d) = m => U(d) \in Listed(b)
    BY <2>6, <2>10 DEF ListInv, FoundInv
  <2>14. \A d \in Calls \ {c} : At(d, "install") /\ M(d) = m => (U(d) \in Listed(b) <=> U(d) \in Listed(book[m]))
    BY <2>6, <2>10
  <2> HIDE DEF m, u
  <2> QED
    BY <1>1, <1>2, <1>5, <2>1, <2>7, <2>8, <2>9, <2>11, <2>12, <2>13, <2>14, PersistStep DEF m
<1> QED
  BY <1>4, <1>5 DEF InstallProfile

\* What letting go of records and instances leaves of a call.
LEMMA LetGoKeeps ==
    ASSUME CallsOK, NEW m, NEW S, NEW T, NEW d \in Calls
    PROVE  LET x == LetGo(m, S, T)[d] IN
           /\ x.pc = call[d].pc /\ x.kind = call[d].kind /\ x.user = call[d].user /\ x.out = call[d].out
           /\ x.snap = call[d].snap
           /\ (U(d) \notin S \/ M(d) # m) => x.ref = call[d].ref
<1>1. call[d] \in Call
  BY DEF CallsOK, PlacedCall
<1>2. CASE M(d) # m
  BY <1>1, <1>2 DEF LetGo, Call
<1>3. CASE M(d) = m
  <2> DEFINE ref == IF U(d) \in S /\ call[d].ref = "attached" THEN "detached" ELSE call[d].ref
             kept == call[d].kept /\ U(d) \notin T
             got == IF U(d) \in T /\ call[d].kept THEN tok[m][U(d)] ELSE call[d].got
  <2>1. LetGo(m, S, T)[d] = [call[d] EXCEPT !.ref = ref, !.kept = kept, !.got = got]
    BY <1>3 DEF LetGo
  <2>2. U(d) \notin S => ref = call[d].ref
    OBVIOUS
  <2> HIDE DEF ref, kept, got
  <2> QED
    BY <1>1, <1>3, <2>1, <2>2 DEF Call
<1> QED
  BY <1>2, <1>3

\* A list without one of its accounts.
LEMMA WithoutIs ==
    ASSUME NEW m \in Managers, book[m] \in Book, Healthy(book[m]), NEW u \in Users
    PROVE  LET b == [book[m] EXCEPT !.count = Spliced(book[m], u)] IN
           /\ \A v \in Users : b.count[v] <= 1
           /\ Listed(b) = Listed(book[m]) \ {u}
           /\ b.active = book[m].active /\ b.reauth = book[m].reauth
           /\ b \in Book
<1> DEFINE n == Spliced(book[m], u)
           b == [book[m] EXCEPT !.count = n]
<1>1. book[m].count \in [Users -> 0..2] /\ \A v \in Users : book[m].count[v] <= 1
  BY DEF Book, Healthy
<1>2. n \in [Users -> 0..2] /\ n[u] = 0 /\ \A v \in Users \ {u} : n[v] = book[m].count[v]
  <2>1. n = [book[m].count EXCEPT ![u] = IF @ = 0 THEN 0 ELSE @ - 1]
    BY DEF Spliced
  <2>2. book[m].count[u] = 0 \/ book[m].count[u] = 1
    BY <1>1
  <2> HIDE DEF n
  <2> QED
    BY <1>1, <2>1, <2>2
<1> HIDE DEF n
<1>3. b.count = n /\ b.active = book[m].active /\ b.reauth = book[m].reauth /\ b \in Book
  BY <1>2 DEF Book
<1>4. Listed(b) = Listed(book[m]) \ {u}
  BY <1>2, <1>3 DEF Listed
<1>5. \A v \in Users : b.count[v] <= 1
  BY <1>1, <1>2, <1>3
<1> QED
  BY <1>3, <1>4, <1>5 DEF n

LEMMA DropStep ==
    ASSUME TypeInv, TypeInv', ListInv, NEW c \in Calls, DropProfile(c)
    PROVE  ListInv'
<1> DEFINE m == M(c)
           u == U(c)
           b == [book[m] EXCEPT !.count = Spliced(book[m], u)]
           cs == LetGo(m, {u}, {u})
<1>1. call[c].pc = "torn"
  BY DEF DropProfile, At
<1>2. u \in Users /\ m \in Managers /\ book[m] \in Book /\ book \in [Managers -> Book]
  BY <1>1, UsersOfCalls, ManagersOfCalls DEF TypeInv, BooksOK
<1>3. Healthy(book[m])
  BY <1>2 DEF ListInv, HealthInv
<1>4. /\ \A v \in Users : b.count[v] <= 1
      /\ Listed(b) = Listed(book[m]) \ {u}
      /\ b.active = book[m].active /\ b.reauth = book[m].reauth /\ b \in Book
  BY <1>2, <1>3, WithoutIs
<1>5. call[c].kind = "remove" /\ Hosted(c) /\ Saves(c)
  BY <1>1 DEF ListInv, KindInv, At, Is, Saves, Hosted, HostKinds
<1>6. \A d \in Calls \ {c} : At(d, "install") \/ Is(d, "switch") => U(d) # u
  BY <1>1 DEF ListInv, OwnsOne, Owning, At
<1>7. \A d \in Calls : /\ cs[d].pc = call[d].pc /\ cs[d].kind = call[d].kind
                       /\ cs[d].user = call[d].user /\ cs[d].out = call[d].out /\ cs[d].snap = call[d].snap
                       /\ (U(d) # u \/ M(d) # m) => cs[d].ref = call[d].ref
  BY LetGoKeeps DEF TypeInv
<1>8. ASSUME \A d \in Calls \ {c} : call'[d] = cs[d]
      PROVE  \A d \in Calls \ {c} : GoesOn(d)
  <2> HIDE DEF cs
  <2> QED
    BY <1>6, <1>7, <1>8 DEF GoesOn, At
<1>9. b.active # u \/ Listed(b) = {} =>
        LET n == [b EXCEPT !.active = IF @ = u THEN None ELSE @] IN
        /\ Healthy(n) /\ Listed(n) = Listed(b)
  <2> SUFFICES ASSUME b.active # u \/ Listed(b) = {}
               PROVE  LET n == [b EXCEPT !.active = IF @ = u THEN None ELSE @] IN
                      /\ Healthy(n) /\ Listed(n) = Listed(b)
    OBVIOUS
  <2> DEFINE n == [b EXCEPT !.active = IF @ = u THEN None ELSE @]
  <2>1. n.count = b.count /\ n.active = IF b.active = u THEN None ELSE b.active
    <3> HIDE DEF b
    <3> QED
      BY <1>4 DEF Book
  <2>2. Listed(n) = Listed(b)
    BY <2>1 DEF Listed
  <2>3. IF Listed(book[m]) = {} THEN b.active = None ELSE b.active \in Listed(book[m])
    BY <1>3, <1>4 DEF Healthy
  <2> HIDE DEF b, n
  <2>4. IF Listed(b) = {} THEN n.active = None ELSE n.active \in Listed(b)
    BY <1>4, <2>1, <2>3
  <2>5. Healthy(n)
    BY <1>4, <2>1, <2>2, <2>4 DEF Healthy
  <2> QED
    BY <2>2, <2>5 DEF n
<1>10. CASE /\ b.active # u \/ Promotable(book[m], b) = {}
            /\ Persist(m, [b EXCEPT !.active = IF @ = u THEN None ELSE @])
            /\ call' = [cs EXCEPT ![c] = Idle] /\ gone' = gone \cup {u}
  <2> DEFINE n == [b EXCEPT !.active = IF @ = u THEN None ELSE @]
  <2>1. n \in Book
    BY <1>10, PersistIs
  <2>2. Healthy(n) /\ Listed(n) = Listed(book[m]) \ {u}
    BY <1>4, <1>9, <1>10 DEF Promotable
  <2>3. cs \in [Calls -> PlacedCall]
    BY <1>2, LetGoTypes DEF TypeInv
  <2>4. call'[c] = Idle /\ \A d \in Calls \ {c} : call'[d] = cs[d]
    <3> HIDE DEF cs
    <3> QED
      BY <1>10, <2>3
  <2>5. \A d \in Calls : Onward(d)
    BY <1>8, <2>4 DEF Onward
  <2>6. \A v \in gone' : v \notin Listed(n)
    BY <1>2, <1>5, <1>10, <2>2 DEF Unhosted, ListInv, SharedInv, GoneInv
  <2>7. \A d \in Calls \ {c} : At(d, "install") => U(d) \notin gone'
    BY <1>6, <1>10 DEF ListInv, FoundInv, InstallInv
  <2>8. \A d \in Calls \ {c} : At(d, "install") /\ M(d) = m => (U(d) \in Listed(n) <=> U(d) \in Listed(book[m]))
    BY <1>6, <2>2
  <2>9. \A d \in Calls \ {c} : Is(d, "switch") /\ M(d) = m => U(d) \in Listed(n)
    BY <1>6, <2>2 DEF ListInv, FoundInv
  <2>10. \A d \in Calls \ {c} : M(d) = m => call[d].out \notin Listed(n)
    BY <2>2 DEF ListInv, FoundInv
  <2>11. Persist(m, n) /\ gone \subseteq gone'
    BY <1>10
  <2> HIDE DEF n, cs, b, u
  <2> QED
    BY <1>5, <2>1, <2>2, <2>4, <2>5, <2>6, <2>7, <2>8, <2>9, <2>10, <2>11, PersistStep
<1>11. ASSUME NEW v \in Promotable(book[m], b),
              b.active = u, book' = [book EXCEPT ![m] = [b EXCEPT !.active = v]],
              call' = [Hydrating(cs, c, v, b) EXCEPT ![c].out = u],
              UNCHANGED <<registry, mail, gone>>
       PROVE  ListInv'
  <2> DEFINE n == [b EXCEPT !.active = v]
  <2>1. v \in Listed(b) /\ v \in Users
    BY <1>11 DEF Promotable, Listed
  <2>2. n.count = b.count /\ n.active = v
    <3> HIDE DEF b
    <3> QED
      BY <1>4 DEF Book
  <2>3. Listed(n) = Listed(book[m]) \ {u} /\ v \in Listed(n)
    BY <1>4, <2>1, <2>2 DEF Listed
  <2>4. Healthy(n)
    BY <1>4, <2>2, <2>3 DEF Healthy
  <2>5. cs \in [Calls -> PlacedCall]
    BY <1>2, LetGoTypes DEF TypeInv
  <2>6. /\ call'[c].pc = "ready" /\ call'[c].kind = "remove" /\ call'[c].user = v /\ call'[c].out = u
        /\ \A d \in Calls \ {c} : call'[d] = cs[d]
    <3> DEFINE x == [cs[c] EXCEPT !.pc = "ready", !.user = v, !.ref = Ref(b, v),
                                  !.kept = TRUE, !.before = NoToken, !.got = NoToken, !.snap = None]
    <3>1. cs[c] \in Call /\ cs[c].kind = "remove"
      BY <1>5, <1>7, <2>5 DEF PlacedCall
    <3> HIDE DEF cs, b
    <3>2. call' = [[cs EXCEPT ![c] = x] EXCEPT ![c].out = u]
      BY <1>11 DEF Hydrating
    <3>3. x.pc = "ready" /\ x.user = v /\ x.kind = "remove" /\ DOMAIN x = DOMAIN cs[c]
      BY <3>1 DEF Call
    <3>4. call'[c] = [x EXCEPT !.out = u] /\ \A d \in Calls \ {c} : call'[d] = cs[d]
      <4> HIDE DEF x
      <4> QED
        BY <2>5, <3>2
    <3>5. DOMAIN x = {"pc", "kind", "user", "out", "ref", "kept", "before", "got", "snap"}
      BY <3>1, <3>3 DEF Call
    <3> HIDE DEF x
    <3> QED
      BY <3>3, <3>4, <3>5
  <2>7. \A d \in Calls \ {c} : GoesOn(d)
    BY <1>8, <2>6
  <2>8. book'[m] = n /\ \A k \in Managers : k # m => book'[k] = book[k]
    BY <1>2, <1>11
  <2> HIDE DEF cs, b, n, u
  <2>9. KindInv'
    BY <2>6, <2>7 DEF ListInv, KindInv, GoesOn, At, Is, Hydration
  <2>10. OneTab'
    BY <1>5, <1>11, <2>6, <2>7 DEF ListInv, OneTab, Hosted, HostKinds, Is, M, GoesOn
  <2>11. OwnsOne'
    <3>1. ~Owning(c)' /\ \A d \in Calls \ {c} : Owning(d)' => Owning(d) /\ U(d)' = U(d)
      BY <2>6, <2>7 DEF Owning, Is, U, GoesOn, Hydration
    <3> QED
      BY <3>1 DEF ListInv, OwnsOne
  <2>12. FoundInv'
    <3>1. \A d \in Calls : M(d) \in Managers
      BY ManagersOfCalls
    <3>2. \A d \in Calls \ {c} : call'[d].out = call[d].out
      BY <2>7 DEF GoesOn
    <3>3. \A d \in Calls : call'[d].out \notin Listed(book'[M(d)])
      BY <2>3, <2>6, <2>8, <3>1, <3>2 DEF ListInv, FoundInv, m
    <3>4. ASSUME NEW d \in Calls, call'[d].kind = "switch" PROVE call'[d].user \in Listed(book'[M(d)])
      <4>1. d # c /\ Is(d, "switch") /\ call'[d].user = U(d) /\ U(d) # u
        BY <1>6, <2>6, <2>7, <3>4 DEF GoesOn, Is, U
      <4> QED
        BY <2>3, <2>8, <3>1, <4>1 DEF ListInv, FoundInv
    <3>5. ASSUME NEW d \in Calls PROVE InstallInv(d)'
      <4> SUFFICES ASSUME call'[d].pc = "install" PROVE InstallInv(d)'
        BY DEF InstallInv, At
      <4>1. /\ d # c /\ call[d].pc = "install" /\ call'[d].user = call[d].user
            /\ call'[d].ref \in {call[d].ref, "revoked"}
        BY <2>6, <2>7 DEF GoesOn, Hydration
      <4>2. U(d) # u
        BY <1>6, <4>1 DEF At
      <4>3. U(d) \in Listed(book'[M(d)]) <=> U(d) \in Listed(book[M(d)])
        BY <2>3, <2>8, <3>1, <4>2
      <4>4. InstallInv(d) /\ At(d, "install")
        BY <4>1 DEF ListInv, FoundInv, At
      <4>5. \A k \in Calls : call'[k].out # U(d)
        BY <2>6, <3>2, <4>2, <4>4 DEF InstallInv
      <4> QED
        BY <1>11, <4>1, <4>3, <4>4, <4>5 DEF InstallInv, U, M
    <3> QED
      BY <3>3, <3>4, <3>5 DEF FoundInv, Is, U, M
  <2>13. HealthInv'
    <3>1. Healthy(registry')
      BY <1>11 DEF ListInv, HealthInv
    <3>2. ASSUME NEW k \in Managers PROVE Healthy(book'[k])
      BY <2>4, <2>8 DEF ListInv, HealthInv
    <3> QED
      BY <3>1, <3>2 DEF HealthInv, Healthy, Listed
  <2>14. GoneInv' /\ SnapInv'
    <3>1. \A d \in Calls : /\ (At(d, "loaded")' <=> At(d, "loaded")) /\ (Hosted(d)' <=> Hosted(d))
                           /\ At(d, "loaded") => call'[d].snap = call[d].snap
      BY <1>1, <1>5, <2>6, <2>7 DEF GoesOn, Hosted, At, Hydration
    <3>2. \A k \in Managers : (Unread(k)' <=> Unread(k)) /\ (Unhosted(k)' <=> Unhosted(k))
      BY <1>11, <3>1 DEF Unread, Unhosted, M
    <3>3. GoneInv'
      BY <1>11, <2>3, <2>8, <3>2 DEF ListInv, SharedInv, GoneInv
    <3>4. SnapInv'
      BY <1>11, <3>1 DEF ListInv, SharedInv, SnapInv, SameList, Healthy, Listed, M
    <3> QED
      BY <3>2, <3>3, <3>4
  <2>15. \A k \in Managers : Agrees(k)'
    <3>1. Agrees(m)'
      BY <2>6 DEF Agrees, Is, M, m, Hydration
    <3>2. ASSUME NEW k \in Managers, k # m PROVE Agrees(k)'
      <4>1. Unread(k) => Unread(k)'
        BY <1>1, <1>11, <2>7 DEF Unread, At, M, GoesOn, Hydration
      <4>2. SameList(book[k], registry) => SameList(book[k], registry)'
        BY <1>11, <2>8, <3>2 DEF SameList, Listed
      <4>3. ASSUME NEW d \in Calls, M(d) = k, Is(d, "remove"), call[d].pc \in Hydration
            PROVE  Agrees(k)'
        BY <2>7, <3>2, <4>3 DEF Agrees, Is, M, m, GoesOn, Hydration
      <4> QED
        BY <4>1, <4>2, <4>3 DEF ListInv, SharedInv, Agrees
    <3> QED
      BY <3>1, <3>2
  <2> QED
    BY <2>9, <2>10, <2>11, <2>12, <2>13, <2>14, <2>15 DEF ListInv, SharedInv
<1> QED
  BY <1>10, <1>11 DEF DropProfile

-----------------------------------------------------------------------------
\* The steps that take the registry for a list.

\* List b, which the registry has or will be read again for.
LEMMA TakeStep ==
    ASSUME TypeInv, TypeInv', ListInv, NEW m \in Managers, NEW b, Healthy(b), registry' = registry, gone' = gone,
           \A n \in Managers : n # m => (n \in mail' <=> n \in mail),
           m \in mail' \/ SameList(b, registry),
           book'[m].count = b.count, book'[m].active = b.active,
           \A n \in Managers : n # m => book'[n] = book[n],
           \A d \in Calls : M(d) # m => call'[d] = call[d],
           \A d \in Calls : M(d) = m =>
               /\ call'[d].out = None /\ (call'[d].kind = "sync" => Is(d, "sync"))
               /\ \/ call'[d].pc = "idle" /\ call'[d].kind = "none"
                  \/ call'[d].pc = "flag" /\ call'[d].kind = "expired"
                  \/ call'[d].pc \in Hydration /\ call'[d].kind = "sync"
    PROVE  ListInv'
<1>1. Listed(book'[m]) = Listed(b) /\ \A d \in Calls : M(d) \in Managers
  BY ManagersOfCalls DEF Listed
<1>2. \A d \in Calls : M(d) = m =>
        /\ ~Hosted(d)' /\ ~Owning(d)' /\ ~At(d, "install")' /\ ~At(d, "loaded")' /\ ~Is(d, "switch")'
        /\ ~Is(d, "remove")' /\ call'[d].out = None /\ (Is(d, "sync")' => Is(d, "sync"))
  BY DEF Hosted, HostKinds, Owning, At, Is, Hydration
<1>3. KindInv'
  BY DEF ListInv, KindInv, At, Is, Hydration
<1>4. OneTab'
  <2>1. \A d \in Calls : (Hosted(d)' => Hosted(d)) /\ (Is(d, "sync")' => Is(d, "sync"))
    BY <1>2 DEF Hosted, Is
  <2> QED
    BY <2>1 DEF ListInv, OneTab, M
<1>5. OwnsOne'
  BY <1>2 DEF ListInv, OwnsOne, Owning, Is, U
<1>6. FoundInv'
  <2>1. \A d \in Calls : call'[d].out \notin Listed(book'[M(d)])
    BY <1>1, <1>2, NoneAssumption DEF ListInv, FoundInv, Listed
  <2>2. \A d \in Calls : call'[d].kind = "switch" => call'[d].user \in Listed(book'[M(d)])
    BY <1>1, <1>2 DEF ListInv, FoundInv, Is, U
  <2>3. ASSUME NEW d \in Calls PROVE InstallInv(d)'
    <3> SUFFICES ASSUME call'[d].pc = "install" PROVE InstallInv(d)'
      BY DEF InstallInv, At
    <3>1. M(d) # m /\ call'[d] = call[d] /\ book'[M(d)] = book[M(d)]
      BY <1>1, <1>2 DEF At
    <3>2. call[d].user \in Users
      BY <3>1 DEF TypeInv, CallsOK, PlacedCall
    <3> QED
      BY <1>2, <3>1, <3>2, NoneAssumption DEF ListInv, FoundInv, InstallInv, At, U, M
  <2> QED
    BY <2>1, <2>2, <2>3 DEF FoundInv, Is, U, M
<1>7. HealthInv'
  <2>1. Healthy(registry') /\ Healthy(book'[m])
    BY <1>1 DEF ListInv, HealthInv, Healthy
  <2>2. ASSUME NEW n \in Managers PROVE Healthy(book'[n])
    BY <2>1 DEF ListInv, HealthInv
  <2> QED
    BY <2>1, <2>2 DEF HealthInv, Healthy, Listed
<1>8. \A n \in Managers : n # m => (Unread(n) => Unread(n)') /\ (Unhosted(n) => Unhosted(n)')
  BY DEF Unread, Unhosted, Hosted, At, M
<1>9. Unhosted(m)' /\ (m \in mail' => Unread(m)')
  BY <1>2 DEF Unhosted, Unread, M
<1>10. GoneInv'
  <2>1. ASSUME NEW u \in gone, NEW n \in Managers
        PROVE  (Unread(n)' /\ Unhosted(n)') \/ u \notin Listed(book'[n])
    <3>1. CASE n = m
      BY <1>1, <1>9, <3>1 DEF ListInv, SharedInv, GoneInv, SameList
    <3>2. CASE n # m
      BY <1>8, <3>2 DEF ListInv, SharedInv, GoneInv
    <3> QED
      BY <3>1, <3>2
  <2> QED
    BY <2>1 DEF ListInv, SharedInv, GoneInv, Listed
<1>11. SnapInv'
  <2> SUFFICES ASSUME NEW d \in Calls, At(d, "loaded")'
               PROVE  Healthy(call'[d].snap) /\ (M(d) \in mail' \/ SameList(call'[d].snap, registry))
    BY DEF SnapInv, Healthy, SameList, Listed, M
  <2>1. M(d) # m /\ call'[d] = call[d]
    BY <1>2
  <2> QED
    BY <1>1, <2>1 DEF ListInv, SharedInv, SnapInv, At
<1>12. ASSUME NEW n \in Managers PROVE Agrees(n)'
  <2>1. CASE n = m
    BY <1>1, <1>9, <2>1 DEF Agrees, SameList, Listed
  <2>2. CASE n # m
    <3>1. SameList(book[n], registry) => SameList(book[n], registry)'
      BY <2>2 DEF SameList, Listed
    <3> QED
      BY <1>8, <2>2, <3>1 DEF ListInv, SharedInv, Agrees, Is, M
  <2> QED
    BY <2>1, <2>2
<1> QED
  BY <1>3, <1>4, <1>5, <1>6, <1>7, <1>10, <1>11, <1>12 DEF ListInv, SharedInv

LEMMA LoadStep ==
    ASSUME TypeInv, TypeInv', ListInv, OneAtATime, NEW c \in Calls, LoadRegistry(c)
    PROVE  ListInv'
<1> DEFINE m == M(c)
           x == [Idle EXCEPT !.pc = "loaded", !.kind = "sync", !.snap = registry]
<1>1. /\ call[c].pc = "idle" /\ UNCHANGED <<registry, book, gone>> /\ mail' = mail \ {m}
      /\ Quiet(m) /\ call' = [call EXCEPT ![c] = x]
  BY DEF LoadRegistry, Busy, At
<1>2. x.pc = "loaded" /\ x.kind = "sync" /\ x.snap = registry /\ x.out = None
  BY DEF Idle
<1>3. call'[c] = x /\ \A d \in Calls \ {c} : call'[d] = call[d]
  BY <1>1 DEF TypeInv, CallsOK
<1> HIDE DEF x
<1>4. call[c].kind = "none" /\ \A d \in Calls : M(d) = m => ~Is(d, "sync") /\ ~Hosted(d) /\ ~At(d, "loaded")
  BY <1>1 DEF Quiet, Syncing, Hosted, ListInv, KindInv, At, Is
<1>5. KindInv'
  BY <1>2, <1>3 DEF ListInv, KindInv, At, Is, Hydration
<1>6. OneTab'
  <2>1. ~Hosted(c)' /\ \A d \in Calls \ {c} : (Hosted(d)' <=> Hosted(d)) /\ (Is(d, "sync")' <=> Is(d, "sync"))
    BY <1>2, <1>3 DEF Hosted, HostKinds, Is
  <2> QED
    BY <1>4, <2>1 DEF ListInv, OneTab, M
<1>7. OwnsOne'
  <2>1. ~Owning(c)' /\ \A d \in Calls \ {c} : Owning(d)' => Owning(d) /\ U(d)' = U(d)
    BY <1>2, <1>3 DEF Owning, Is, U
  <2> QED
    BY <2>1 DEF ListInv, OwnsOne
<1>8. FoundInv'
  <2>1. \A d \in Calls : call'[d].out = call[d].out \/ call'[d].out = None
    BY <1>2, <1>3
  <2>2. ASSUME NEW d \in Calls PROVE InstallInv(d)'
    <3> SUFFICES ASSUME call'[d].pc = "install" PROVE InstallInv(d)'
      BY DEF InstallInv, At
    <3>1. d # c /\ call'[d] = call[d]
      BY <1>2, <1>3
    <3>2. call[d].user \in Users
      BY <3>1 DEF TypeInv, CallsOK, PlacedCall
    <3> QED
      BY <1>1, <2>1, <3>1, <3>2, NoneAssumption DEF ListInv, FoundInv, InstallInv, At, U, M
  <2>3. \A d \in Calls : None \notin Listed(book[M(d)])
    BY NoneAssumption DEF Listed
  <2> QED
    BY <1>1, <1>2, <1>3, <2>1, <2>2, <2>3 DEF ListInv, FoundInv, Is, U, M
<1>9. HealthInv'
  BY <1>1 DEF ListInv, HealthInv
<1>10. \A n \in Managers : (Unread(n) => Unread(n)') /\ (Unhosted(n) => Unhosted(n)')
  BY <1>1, <1>2, <1>3 DEF Unread, Unhosted, Hosted, HostKinds, At, M
<1>11. GoneInv'
  BY <1>1, <1>10 DEF ListInv, SharedInv, GoneInv
<1>12. SnapInv'
  <2>1. ASSUME NEW d \in Calls, At(d, "loaded")'
        PROVE  Healthy(call'[d].snap) /\ (M(d) \in mail' \/ SameList(call'[d].snap, registry))
    <3>1. CASE d = c
      BY <1>2, <1>3, <3>1 DEF ListInv, HealthInv, SameList
    <3>2. CASE d # c
      <4>1. At(d, "loaded") /\ M(d) # m
        BY <1>3, <1>4, <2>1, <3>2 DEF At
      <4> QED
        BY <1>1, <1>3, <3>2, <4>1 DEF ListInv, SharedInv, SnapInv
    <3> QED
      BY <3>1, <3>2
  <2> QED
    BY <1>1, <2>1 DEF SnapInv, SameList, Healthy, Listed, M
<1>13. ASSUME NEW n \in Managers PROVE Agrees(n)'
  BY <1>1, <1>3, <1>4, <1>10 DEF ListInv, SharedInv, Agrees, SameList, Listed, Is, M
<1> QED
  BY <1>5, <1>6, <1>7, <1>8, <1>9, <1>11, <1>12, <1>13 DEF ListInv, SharedInv

LEMMA SyncStep ==
    ASSUME TypeInv, TypeInv', ListInv, NEW c \in Calls, SyncFromRegistry(c)
    PROVE  ListInv'
<1> DEFINE m == M(c)
           b == call[c].snap
           a == b.active
           lost == Users \ Listed(b)
           cs == LetGo(m, Users, lost)
<1>1. /\ call[c].pc = "loaded" /\ UNCHANGED <<registry, gone, mail>>
      /\ book' = [book EXCEPT ![m] = b]
  BY DEF SyncFromRegistry, At, Taken
<1>2. m \in Managers /\ \A d \in Calls : M(d) \in Managers
  BY ManagersOfCalls
<1>3. book'[m] = b /\ \A n \in Managers : n # m => book'[n] = book[n]
  BY <1>1, <1>2 DEF TypeInv, BooksOK
<1>4. Healthy(b) /\ (m \in mail' \/ SameList(b, registry))
  BY <1>1 DEF ListInv, SharedInv, SnapInv, At
<1>5. call[c].kind = "sync"
  BY <1>1 DEF ListInv, KindInv, At, Is
<1>6. \A d \in Calls \ {c} : M(d) = m =>
        /\ call[d].out = None
        /\ \/ call[d].pc = "idle" /\ call[d].kind = "none"
           \/ call[d].pc = "flag" /\ call[d].kind = "expired"
  <2>1. \A d \in Calls \ {c} : M(d) = m => ~Is(d, "sync") /\ ~Hosted(d)
    BY <1>5 DEF ListInv, OneTab, Is
  <2>2. \A d \in Calls : call[d].pc \in PCs
    BY DEF TypeInv, CallsOK, PlacedCall, Call
  <2> QED
    BY <2>1, <2>2 DEF ListInv, KindInv, Hosted, HostKinds, At, Is, Hydration, PCs
<1>7. /\ \A d \in Calls : M(d) # m => cs[d] = call[d]
      /\ \A d \in Calls : cs[d].pc = call[d].pc /\ cs[d].kind = call[d].kind /\ cs[d].out = call[d].out
  <2>1. \A d \in Calls : M(d) # m => cs[d] = call[d]
    BY DEF LetGo
  <2>2. \A d \in Calls : cs[d].pc = call[d].pc /\ cs[d].kind = call[d].kind /\ cs[d].out = call[d].out
    <3>1. CallsOK
      BY DEF TypeInv
    <3> QED
      BY <3>1, LetGoKeeps
  <2> HIDE DEF cs
  <2> QED
    BY <2>1, <2>2
<1>8. cs \in [Calls -> PlacedCall]
  BY <1>2, LetGoTypes DEF TypeInv
<1>9. /\ \A d \in Calls \ {c} : call'[d] = cs[d]
      /\ call'[c].out = None
      /\ \/ call'[c].pc = "idle" /\ call'[c].kind = "none"
         \/ call'[c].pc \in Hydration /\ call'[c].kind = "sync"
  <2>1. CASE call' = [cs EXCEPT ![c] = Idle]
    <3> HIDE DEF cs
    <3> QED
      BY <1>8, <2>1 DEF Idle
  <2>2. CASE call' = Hydrating(cs, c, a, b)
    <3> DEFINE y == [cs[c] EXCEPT !.pc = "ready", !.user = a, !.ref = Ref(b, a),
                                  !.kept = TRUE, !.before = NoToken, !.got = NoToken, !.snap = None]
    <3>1. cs[c] \in Call /\ cs[c].out = None /\ cs[c].kind = "sync"
      BY <1>1, <1>5, <1>7, <1>8 DEF PlacedCall, ListInv, KindInv, Is, Hydration
    <3> HIDE DEF cs, a, b
    <3>2. y.pc = "ready" /\ y.kind = "sync" /\ y.out = None
      BY <3>1 DEF Call
    <3>3. call' = [cs EXCEPT ![c] = y]
      BY <2>2 DEF Hydrating
    <3> HIDE DEF y
    <3> QED
      BY <1>8, <3>2, <3>3 DEF Hydration
  <2> QED
    BY <2>1, <2>2 DEF SyncFromRegistry
<1> HIDE DEF cs
<1>10. \A d \in Calls : M(d) # m => call'[d] = call[d]
  BY <1>7, <1>9
<1>11. \A d \in Calls : M(d) = m =>
         /\ call'[d].out = None /\ (call'[d].kind = "sync" => Is(d, "sync"))
         /\ \/ call'[d].pc = "idle" /\ call'[d].kind = "none"
            \/ call'[d].pc = "flag" /\ call'[d].kind = "expired"
            \/ call'[d].pc \in Hydration /\ call'[d].kind = "sync"
  BY <1>5, <1>6, <1>7, <1>9 DEF Is
<1> HIDE DEF m, b
<1> QED
  BY <1>1, <1>2, <1>3, <1>4, <1>10, <1>11, TakeStep

LEMMA ReloadStep ==
    ASSUME TypeInv, TypeInv', ListInv, NEW m \in Managers, Reload(m)
    PROVE  ListInv'
<1>1. registry \in Book /\ book \in [Managers -> Book] /\ Healthy(registry)
  BY DEF TypeInv, BooksOK, ListInv, HealthInv
<1>2. registry.active \in Listed(registry) \cup {None}
  BY <1>1 DEF Healthy
<1>3. book' = [book EXCEPT ![m] = [registry EXCEPT !.active = registry.active]]
  BY <1>2 DEF Reload
<1>4. book'[m].count = registry.count /\ book'[m].active = registry.active
  BY <1>1, <1>3 DEF Book
<1>5. /\ registry' = registry /\ gone' = gone /\ mail' = mail \ {m}
      /\ call' = [c \in Calls |-> IF M(c) = m THEN Idle ELSE call[c]]
  BY DEF Reload
<1>6. \A n \in Managers : n # m => book'[n] = book[n]
  BY <1>1, <1>3
<1>7. \A d \in Calls : M(d) # m => call'[d] = call[d]
  BY <1>5
<1>8. \A d \in Calls : M(d) = m => call'[d].out = None /\ call'[d].pc = "idle" /\ call'[d].kind = "none"
  BY <1>5 DEF Idle
<1> QED
  BY <1>1, <1>4, <1>5, <1>6, <1>7, <1>8, TakeStep DEF SameList

-----------------------------------------------------------------------------
LEMMA InitLists == Init => ListInv
<1> SUFFICES ASSUME Init PROVE ListInv
  OBVIOUS
<1>1. PICK S \in SUBSET Users : \E a \in IF S = {} THEN {None} ELSE S :
        LET b == [count |-> [u \in Users |-> IF u \in S THEN 1 ELSE 0], reauth |-> {}, active |-> a] IN
        registry = b /\ book = [m \in Managers |-> b]
  BY DEF Init
<1> DEFINE n == [u \in Users |-> IF u \in S THEN 1 ELSE 0]
           b == [count |-> n, reauth |-> {}, active |-> registry.active]
<1>2. registry.active \in (IF S = {} THEN {None} ELSE S) /\ registry = b /\ book = [m \in Managers |-> b]
  BY <1>1
<1>3. Healthy(b)
  <2>1. b.count = n /\ \A u \in Users : n[u] = IF u \in S THEN 1 ELSE 0
    OBVIOUS
  <2> HIDE DEF n
  <2>2. Listed(b) = S
    BY <2>1 DEF Listed
  <2>3. b.active = registry.active
    OBVIOUS
  <2> HIDE DEF b
  <2>4. \A u \in Users : b.count[u] <= 1
    BY <2>1
  <2> QED
    BY <1>2, <2>2, <2>3, <2>4 DEF Healthy
<1>4. call = [c \in Calls |-> Idle] /\ mail = {} /\ gone = {}
  BY DEF Init
<1>5. \A c \in Calls : call[c].pc = "idle" /\ call[c].kind = "none" /\ call[c].out = None
  BY <1>4 DEF Idle
<1>6. KindInv /\ OneTab /\ OwnsOne
  BY <1>5 DEF KindInv, OneTab, OwnsOne, Hosted, HostKinds, Owning, At, Is, Hydration
<1>7. FoundInv
  BY <1>5, NoneAssumption DEF FoundInv, InstallInv, Listed, At, Is
<1> HIDE DEF b
<1>8. HealthInv
  BY <1>2, <1>3 DEF HealthInv
<1>9. SharedInv
  BY <1>2, <1>4, <1>5 DEF SharedInv, GoneInv, SnapInv, SameList, Agrees, At
<1> QED
  BY <1>6, <1>7, <1>8, <1>9 DEF ListInv

LEMMA NextKeepsLists ==
    ASSUME OneAtATime
    PROVE  TypeInv /\ ListInv /\ [Next]_vars => ListInv'
<1> SUFFICES ASSUME TypeInv, ListInv, [Next]_vars PROVE ListInv'
  OBVIOUS
<1>1. TypeInv'
  BY NextKeepsTypes
<1>2. CASE \E m \in Managers : Reload(m) \/ Restore(m)
  BY <1>1, <1>2, ReloadStep, QuietSteps
<1>3. CASE (\E u \in Users : Expire(u)) \/ UNCHANGED vars
  BY <1>1, <1>3, QuietSteps
<1>4. ASSUME NEW c \in Calls, CallStep(c) PROVE ListInv'
  <2>1. CASE StartAdd(c)
    <3>1. Alone(c, None) /\ Begin(c, "add", None, "queued") /\ UNCHANGED <<registry, book, mail, gone>>
      BY <2>1 DEF StartAdd
    <3>2. "add" \in CallKinds /\ "queued" \in PCs
      BY DEF CallKinds, PCs
    <3> QED
      BY <1>1, <3>1, <3>2, BeginStep
  <2>2. ASSUME NEW u \in Users, StartSwitch(c, u) PROVE ListInv'
    <3>1. Alone(c, u) /\ Begin(c, "switch", u, "ready") /\ UNCHANGED <<registry, book, mail, gone>> /\ u \in Listed(book[M(c)])
      BY <2>2 DEF StartSwitch
    <3>2. "switch" \in CallKinds /\ "ready" \in PCs
      BY DEF CallKinds, PCs
    <3> QED
      BY <1>1, <3>1, <3>2, BeginStep
  <2>3. ASSUME NEW u \in Users, StartRemove(c, u) PROVE ListInv'
    <3>1. Alone(c, u) /\ Begin(c, "remove", u, "leaving") /\ UNCHANGED <<registry, book, mail, gone>>
      BY <2>3 DEF StartRemove
    <3>2. "remove" \in CallKinds /\ "leaving" \in PCs
      BY DEF CallKinds, PCs
    <3> QED
      BY <1>1, <3>1, <3>2, BeginStep
  <2>4. ASSUME NEW u \in Users, SessionExpired(c, u) PROVE ListInv'
    <3>1. Begin(c, "expired", u, "flag") /\ UNCHANGED <<registry, book, mail, gone>>
      BY <2>4 DEF SessionExpired
    <3>2. "expired" \in CallKinds /\ "flag" \in PCs
      BY DEF CallKinds, PCs
    <3> QED
      BY <1>1, <3>1, <3>2, BeginStep
  <2>5. CASE \/ StageLogin(c) \/ LoginFails(c) \/ AwaitReady(c) \/ EnsureLive(c) \/ OwnsSession(c)
             \/ SignOutProfile(c)
    BY <1>1, <2>5, QuietSteps
  <2> QED
    BY <1>1, <1>4, <2>1, <2>2, <2>3, <2>4, <2>5, LoginStep, InstallStep, SettleStep, DropStep, LoadStep, SyncStep, FlagStep
       DEF CallStep
<1> QED
  BY <1>2, <1>3, <1>4 DEF Next

\* When the tabs keep out of each other's way, the active profile of every list
\* is one of it, and there is one while any is listed, between the steps of
\* removals, adds and switches of one tab that overlap, of syncs of the others
\* and of expiries in any.
THEOREM ActiveIsListedAlways ==
    ASSUME OneAtATime
    PROVE  Spec => []ActiveIsListed
<1>1. ListInv => ActiveIsListed
  BY DEF ListInv, HealthInv, Healthy, ActiveIsListed
<1> QED
  BY <1>1, InitTypes, InitLists, NextKeepsTypes, NextKeepsLists, PTL DEF Spec

\* Under the same condition every tab has, at rest, the profiles and the active
\* one of the registry, also when a list was saved between a sync's reading of
\* the registry and its taking of what it read.
THEOREM TabsAgreeAlways ==
    ASSUME OneAtATime
    PROVE  Spec => []TabsAgree
<1>1. ListInv => TabsAgree
  BY DEF ListInv, SharedInv, Agrees, Unread, SameList, TabsAgree, AtRest, Busy, At, Hydration
<1> QED
  BY <1>1, InitTypes, InitLists, NextKeepsTypes, NextKeepsLists, PTL DEF Spec

\* Under the same condition no step of an overlapping call on another profile,
\* of a sync, of an expired session or of a page load lists a profile again that
\* was signed out.
THEOREM RemovedStaysOutAlways ==
    ASSUME OneAtATime
    PROVE  Spec => []RemovedStaysOut
<1>1. ListInv => RemovedStaysOut
  BY DEF ListInv, SharedInv, GoneInv, Unread, RemovedStaysOut, AtRest, Busy, At
<1> QED
  BY <1>1, InitTypes, InitLists, NextKeepsTypes, NextKeepsLists, PTL DEF Spec
=============================================================================
