-------------------------------- MODULE Client --------------------------------
(***************************************************************************)
(* The parts of an instance that meet only through the API, side by side:   *)
(* the session (Session), the readers of payloads (Payloads) and of paged   *)
(* lists (Pages), the calls that write (Writes) and the headers of requests *)
(* (Identity).  They share no variable, so interleaving them reaches no     *)
(* state of one that it does not reach alone: a behaviour moves one part.   *)
(***************************************************************************)
EXTENDS Session, Sequences

CONSTANTS
    Parts,        \* the parts to move
    Listed, PageSize, MaxItem, MaxHidden, LeastLeft, MaxAgain, Endpoints,
    Callers,
    Reqs, MaxSets, MaxOuts, MaxReloads

VARIABLES
    part,
    kind, style, doc, stage,
    endpoint, place, counted, listing, hidden, walk, reply, feedRow, due, again,
    todo, phase, got, about, full, wrote, answer, cause, version, cached, managing,
    provider, access, tokens, acting, stored, expired, req, heardBy, leaving, outs, heard,
    dropped, sets, restarts

Payload == INSTANCE Payloads
Paging == INSTANCE Pages WITH server <- listing, row <- feedRow
Writing == INSTANCE Writes WITH server <- version, row <- cached,
                                acting <- managing
Acting == INSTANCE Identity WITH mail <- heardBy, reloads <- restarts

ASSUME ListAssumption ==
    /\ MaxItem \in Nat /\ Listed \subseteq 1..MaxItem /\ Endpoints \subseteq Paging!Lists
    /\ PageSize \in Nat \ {0} /\ MaxAgain \in Nat
    /\ None \notin 1..MaxItem + 1
    /\ None \notin [items : Seq(1..MaxItem), cursor : 1..MaxItem \cup {None}]

payload == <<kind, style, doc, stage>>
paging == <<endpoint, place, counted, listing, hidden, walk, reply, feedRow, due, again>>
writing == <<todo, phase, got, about, full, wrote, answer, cause, version, cached,
             managing>>
identity == <<provider, access, tokens, acting, stored, expired, req, heardBy, leaving, outs,
              heard, dropped, sets, restarts>>
allVars == <<vars, part, payload, paging, writing, identity>>

-----------------------------------------------------------------------------
\* The part that moves starts as it does alone; the others stand still.

PayloadRests == kind = None /\ style = None /\ doc = None /\ stage = None

PagingRests ==
    /\ endpoint = None /\ place = None /\ counted = None /\ listing = None /\ hidden = None
    /\ walk = None /\ reply = None /\ feedRow = None /\ due = None /\ again = None

WritingRests ==
    /\ todo = None /\ phase = None /\ got = None /\ about = None
    /\ full = None /\ wrote = None /\ answer = None /\ cause = None /\ version = None
    /\ cached = None /\ managing = None

IdentityRests ==
    /\ provider = None /\ access = None /\ tokens = None /\ acting = None /\ stored = None
    /\ expired = None /\ req = None /\ heardBy = None /\ leaving = None /\ outs = None
    /\ heard = None /\ dropped = None /\ sets = None /\ restarts = None

ClientInit ==
    /\ Init
    /\ part \in Parts
    /\ IF part = "payload" THEN Payload!Init ELSE PayloadRests
    /\ IF part = "paging" THEN Paging!Init ELSE PagingRests
    /\ IF part = "writing" THEN Writing!Init ELSE WritingRests
    /\ IF part = "identity" THEN Acting!Init ELSE IdentityRests

SessionMoves ==
    part = "session" /\ Next /\ UNCHANGED <<part, payload, paging, writing, identity>>
PayloadMoves ==
    part = "payload" /\ Payload!Next /\ UNCHANGED <<vars, part, paging, writing, identity>>
PagingMoves ==
    part = "paging" /\ Paging!Next /\ UNCHANGED <<vars, part, payload, writing, identity>>
WritingMoves ==
    part = "writing" /\ Writing!Next /\ UNCHANGED <<vars, part, payload, paging, identity>>
IdentityMoves ==
    part = "identity" /\ Acting!Next /\ UNCHANGED <<vars, part, payload, paging, writing>>

ClientNext == SessionMoves \/ PayloadMoves \/ PagingMoves \/ WritingMoves \/ IdentityMoves

ClientSpec == ClientInit /\ [][ClientNext]_allVars

-----------------------------------------------------------------------------
\* What the parts promise.

\* Type invariant of the parts.
PartsTypeOK ==
    /\ part = "payload"  => Payload!TypeOK
    /\ part = "paging"   => Paging!TypeOK
    /\ part = "writing"  => Writing!TypeOK
    /\ part = "identity" => Acting!TypeOK

\* A page reads each field where the SDK puts it, whatever the API called it.
RoundTrip == part = "payload" => Payload!RoundTrip

\* A walk along a paged list gets every item that was there all the time.
WalkIsWhole == part = "paging" => Paging!WalkIsWhole

\* What the API accepted is not reported as failed for what came after it.
AcceptedNeverFails == part = "writing" => Writing!AcceptedNeverFails

\* A call answers with what it wrote or something newer.
AnswerShowsWrite == part = "writing" => Writing!AnswerShowsWrite

\* No request carries a context across a sign-out its tab began or heard of,
\* nor a bearer across one it ended or heard of.
NothingAcrossSignOut == part = "identity" => Acting!NothingAcrossSignOut
=============================================================================
