-------------------------------- MODULE Writes --------------------------------
(***************************************************************************)
(* Calls that change something.  Each sends its request and, once the API   *)
(* has accepted it, looks after the cache: it reads back what it wrote,     *)
(* drops or changes rows, refreshes what the change touched.  These later   *)
(* steps may fail, and other calls run between any two of them.             *)
(***************************************************************************)
EXTENDS Naturals, Sequences

CONSTANTS
    Callers,   \* the calls; the post that a call creates goes by its name
    None

VARIABLES
    todo,     \* the steps of its operation that each caller has yet to take
    phase,    \* where it is in the first of them
    got,      \* the response, or the cached row, that it holds
    about,    \* and whose it is
    full,     \* what its read-after-write found
    wrote,    \* the version the API accepted and answered with
    answer,   \* what the call resolves to
    cause,    \* why it failed
    server,   \* the version of each subject that the API has
    row,      \* the version of each subject in the cache
    acting    \* the user acts for a managed one

vars == <<todo, phase, got, about, full, wrote, answer, cause, server, row, acting>>

\* "it" is a post or a user; a record is a playlist, a station, an article, a
\* business or an event, none of which is cached.
Subjects == {"it", "parent", "me", "managed", "record"} \cup Callers

-----------------------------------------------------------------------------
\* The operations.  A step names what it does and to which subject.

Do(what, subject) == [do |-> what, on |-> subject]

CreatePost == <<Do("write", "new"), Do("reread", "new"), Do("keep", "new")>>
CreateVideoPost == CreatePost
CreateSong == CreatePost
UpdatePost == <<Do("write", "it"), Do("reread", "it"), Do("keep", "it")>>
Repost == <<Do("write", "new"), Do("bump", "it"), Do("reread", "new"), Do("refresh", "it"),
            Do("keep", "new")>>
Unrepost == <<Do("write", "it"), Do("bump", "it"), Do("refresh", "it")>>
QuotePost == <<Do("write", "new"), Do("reread", "new"), Do("refresh", "it"), Do("keep", "new")>>
CreateComment ==
    <<Do("write", "new"), Do("reread", "new"), Do("refresh", "parent"), Do("keep", "new")>>
DeletePost == <<Do("delete", "it"), Do("drop", "it")>>
RejectPost == DeletePost
ApprovePost == <<Do("write", "it"), Do("bump", "it")>>
DeleteComment == <<Do("delete", "it"), Do("drop", "it"), Do("refresh", "parent")>>
\* Reactions, bookmarks, shares, upvotes and ratings.
React == <<Do("write", "it"), Do("refresh", "it")>>
VotePoll == <<Do("write", "it"), Do("poll", "it")>>
FetchEngagementSnapshot == <<Do("ask", "it"), Do("merge", "it")>>
FollowUser == <<Do("write", "it"), Do("forget", "it"), Do("remember", "me")>>
FollowUserByUlid == <<Do("ask", "it")>> \o FollowUser
BlockUser == <<Do("write", "it"), Do("remember", "me")>>
UpdateCurrentUser == <<Do("write", "me"), Do("profile", "me")>>
UpdateManagedUserProfile == <<Do("write", "managed"), Do("remember", "managed")>>

\* Records are fetched again once they are written.
CreatePlaylist == <<Do("write", "new"), Do("refetch", "new")>>
CreateSongPlaylist == CreatePlaylist
CreateRadioStation == CreatePlaylist
CreateBlogPost == CreatePlaylist
CreateBusinessEvent == CreatePlaylist
CreateBusiness == CreatePlaylist
UpdateBlogPost == <<Do("write", "record"), Do("refetch", "record")>>
UpdateBusinessEvent == UpdateBlogPost
UpdateBusiness == UpdateBlogPost
UpdatePlaylist == <<Do("write", "record"), Do("readback", "record")>>
DeleteBusiness == <<Do("delete", "record")>>

Programs ==
    {CreatePost, CreateVideoPost, CreateSong, UpdatePost, Repost, Unrepost, QuotePost,
     CreateComment, DeletePost, RejectPost, ApprovePost, DeleteComment, React, VotePoll,
     FetchEngagementSnapshot, FollowUser, FollowUserByUlid, BlockUser, UpdateCurrentUser,
     UpdateManagedUserProfile, CreatePlaylist, CreateSongPlaylist, CreateRadioStation,
     CreateBlogPost, CreateBusinessEvent, CreateBusiness, UpdateBlogPost, UpdateBusinessEvent,
     UpdateBusiness, UpdatePlaylist, DeleteBusiness}

Init ==
    /\ todo = [c \in Callers |-> << >>]
    /\ phase = [c \in Callers |-> "idle"] /\ got = [c \in Callers |-> None]
    /\ about = [c \in Callers |-> None]
    /\ full = [c \in Callers |-> None] /\ wrote = [c \in Callers |-> None]
    /\ answer = [c \in Callers |-> None] /\ cause = [c \in Callers |-> None]
    /\ server = [s \in Subjects |-> IF s \in Callers THEN 0 ELSE 1]
    /\ row \in [Subjects -> {None, 0}]
    /\ acting \in BOOLEAN
    \* no operation reads the other rows
    /\ \A s \in Subjects : row[s] # None => s = "it" \/ (s = "managed" /\ acting)

-----------------------------------------------------------------------------
\* Steps.

Begin(c, o) ==
    /\ phase[c] = "idle"
    /\ todo' = [todo EXCEPT ![c] = o]
    /\ phase' = [phase EXCEPT ![c] = "ready"]
    /\ UNCHANGED <<got, about, full, wrote, answer, cause, server, row, acting>>

At(c, p, what) == phase[c] = p /\ todo[c] # << >> /\ Head(todo[c]).do \in what

\* The subject of the step.  Acting, the user's own profile is the managed one.
On(c) ==
    LET s == Head(todo[c]).on
    IN  CASE s = "new" -> c [] s = "me" /\ acting -> "managed" [] OTHER -> s

Step(c) == todo' = [todo EXCEPT ![c] = Tail(@)] /\ phase' = [phase EXCEPT ![c] = "ready"]
\* What it has got from the API or the cache, and about whom.
Holds(c, x) == got' = [got EXCEPT ![c] = x] /\ about' = [about EXCEPT ![c] = On(c)]
Fail(c, why) ==
    /\ phase' = [phase EXCEPT ![c] = "failed"] /\ cause' = [cause EXCEPT ![c] = why]

\* The API accepts the write, and may answer without data; or it refuses.
Write(c) ==
    /\ At(c, "ready", {"write"}) /\ server[On(c)] # None
    /\ server' = [server EXCEPT ![On(c)] = @ + 1]
    /\ wrote' = [wrote EXCEPT ![c] = server[On(c)] + 1]
    /\ \E data \in IF Tail(todo[c])[1].do = "profile" THEN {None, server[On(c)] + 1}
                   ELSE {server[On(c)] + 1} : Holds(c, data)
    /\ Step(c)
    /\ UNCHANGED <<full, answer, cause, row, acting>>

Delete(c) ==
    /\ At(c, "ready", {"delete"}) /\ server[On(c)] # None
    /\ server' = [server EXCEPT ![On(c)] = None] /\ wrote' = [wrote EXCEPT ![c] = 0]
    /\ Step(c)
    /\ UNCHANGED <<got, about, full, answer, cause, row, acting>>

Refused(c) ==
    /\ At(c, "ready", {"write", "delete", "ask"})
    /\ Fail(c, "refused")
    /\ UNCHANGED <<todo, got, about, full, wrote, answer, server, row, acting>>

\* The API accepts, but its answer is lost: the call fails as if refused.
AnswerLost(c) ==
    /\ At(c, "ready", {"write", "delete"}) /\ server[On(c)] # None
    /\ server' = [server EXCEPT ![On(c)] = IF Head(todo[c]).do = "delete" THEN None ELSE @ + 1]
    /\ Fail(c, "refused")
    /\ UNCHANGED <<todo, got, about, full, wrote, answer, row, acting>>

Ask(c) ==
    /\ At(c, "ready", {"ask"}) /\ Step(c)
    /\ UNCHANGED <<got, about, full, wrote, answer, cause, server, row, acting>>

\* A read of the API, served now; the answer lands later.
Served(c) ==
    /\ phase' = [phase EXCEPT ![c] = "served"] /\ Holds(c, server[On(c)])
    /\ UNCHANGED <<todo, full, wrote, answer, cause, server, row, acting>>

\* A bug to rule out: getPostByUlid without the bypass of the cache.
RereadCached(c) ==
    /\ At(c, "ready", {"reread"})
    /\ IF row[On(c)] # None
       THEN /\ full' = [full EXCEPT ![c] = row[On(c)]] /\ Step(c)
            /\ UNCHANGED <<got, about, wrote, answer, cause, server, row, acting>>
       ELSE Served(c)

\* getPostByUlid with forceRefresh.
Reread(c) == At(c, "ready", {"reread"}) /\ Served(c)

LandReread(c) ==
    /\ At(c, "served", {"reread"})
    /\ full' = [full EXCEPT ![c] = got[c]]
    /\ row' = IF got[c] = None THEN row ELSE [row EXCEPT ![about[c]] = got[c]]
    /\ Step(c)
    /\ UNCHANGED <<got, about, wrote, answer, cause, server, acting>>

\* A bug to rule out: the failure of the read is the failure of the call.
RereadThrows(c) ==
    /\ At(c, "ready", {"reread"}) \/ At(c, "served", {"reread"})
    /\ Fail(c, "read")
    /\ UNCHANGED <<todo, got, about, full, wrote, answer, server, row, acting>>

\* The answer to the write names no post to read, or the request or the write
\* to the cache fails: it found nothing.
RereadFails(c) ==
    /\ At(c, "ready", {"reread"}) \/ At(c, "served", {"reread"})
    /\ Step(c)
    /\ UNCHANGED <<got, about, full, wrote, answer, cause, server, row, acting>>

\* A record, fetched again.
Refetch(c) == At(c, "ready", {"refetch", "readback"}) /\ Served(c)

LandRefetch(c) ==
    /\ At(c, "served", {"refetch", "readback"}) /\ got[c] # None
    /\ answer' = [answer EXCEPT ![c] = got[c]] /\ Step(c)
    /\ UNCHANGED <<got, about, full, wrote, cause, server, row, acting>>

\* Lost, or gone by now: the answer to the write has to do,
RefetchFails(c) ==
    /\ \E p \in {"ready", "served"} : At(c, p, {"refetch"})
    /\ Step(c)
    /\ UNCHANGED <<got, about, full, wrote, answer, cause, server, row, acting>>

\* but a playlist's update throws.
ReadbackThrows(c) ==
    /\ \E p \in {"ready", "served"} : At(c, p, {"readback"})
    /\ Fail(c, "readback")
    /\ UNCHANGED <<todo, got, about, full, wrote, answer, server, row, acting>>

\* cachePost: the answer to the write stands in for what could not be read.
Keep(c) ==
    /\ At(c, "ready", {"keep"})
    /\ IF full[c] # None
       THEN answer' = [answer EXCEPT ![c] = full[c]] /\ row' = row
       ELSE /\ answer' = [answer EXCEPT ![c] = wrote[c]]
            /\ row' = [row EXCEPT ![On(c)] = wrote[c]]
    /\ Step(c)
    /\ UNCHANGED <<got, about, full, wrote, cause, server, acting>>

\* deletePost of the cache.
Drop(c) ==
    /\ At(c, "ready", {"drop"})
    /\ row' = [row EXCEPT ![On(c)] = None] /\ Step(c)
    /\ UNCHANGED <<got, about, full, wrote, answer, cause, server, acting>>

\* Read, change, write back: the row as it was read, with another count,
\* status, poll or engagement, or for forget no row at all.
WriteBacks == {"bump", "poll", "refresh", "merge", "forget"}
Capture(c) ==
    /\ At(c, "ready", WriteBacks) /\ row[On(c)] # None
    /\ phase' = [phase EXCEPT ![c] = "holding"] /\ Holds(c, row[On(c)])
    /\ UNCHANGED <<todo, full, wrote, answer, cause, server, row, acting>>

\* Not cached, or nothing to change.
NothingCached(c) ==
    /\ At(c, "ready", WriteBacks)
    /\ row[On(c)] = None \/ Head(todo[c]).do = "refresh"
    /\ Step(c)
    /\ UNCHANGED <<got, about, full, wrote, answer, cause, server, row, acting>>

WriteBack(c) ==
    /\ At(c, "holding", WriteBacks \ {"forget"})
    /\ row' = [row EXCEPT ![On(c)] = got[c]] /\ Step(c)
    /\ UNCHANGED <<got, about, full, wrote, answer, cause, server, acting>>

\* invalidateUserCacheByUsername.
Forget(c) ==
    /\ At(c, "holding", {"forget"})
    /\ row' = [row EXCEPT ![On(c)] = None] /\ Step(c)
    /\ UNCHANGED <<got, about, full, wrote, answer, cause, server, acting>>

\* The steps in a try block swallow what goes wrong in them.
Swallow(c) ==
    /\ \E p \in {"ready", "holding", "served"} : At(c, p, {"poll", "refresh", "remember"})
    /\ Step(c)
    /\ UNCHANGED <<got, about, full, wrote, answer, cause, server, row, acting>>

\* A failure of the storage is thrown: safeRead and safeWrite pass it on.
StorageFails(c) ==
    /\ \E p \in {"ready", "holding"} : At(c, p, {"keep", "drop", "bump", "forget", "merge"})
    /\ ~(Head(todo[c]).do = "keep" /\ full[c] # None)
    /\ Fail(c, "storage")
    /\ UNCHANGED <<todo, got, about, full, wrote, answer, server, row, acting>>

\* refreshCurrentUserCache, and the same for a managed user.
Remember(c) == At(c, "ready", {"remember"}) /\ Served(c)
LandRemember(c) ==
    /\ At(c, "served", {"remember"})
    /\ row' = [row EXCEPT ![about[c]] = got[c]] /\ Step(c)
    /\ UNCHANGED <<got, about, full, wrote, answer, cause, server, acting>>

\* updateCurrentUser: the answer's data if it has any; else, acting, the
\* cached profile if there is one; else the profile the API has.
Profile(c) ==
    /\ At(c, "ready", {"profile"})
    /\ phase' = [phase EXCEPT ![c] = "served"]
    /\ CASE got[c] # None -> UNCHANGED <<got, about>>
         [] got[c] = None /\ acting /\ row[On(c)] # None -> Holds(c, row[On(c)])
         [] OTHER -> Holds(c, server[On(c)])
    /\ UNCHANGED <<todo, full, wrote, answer, cause, server, row, acting>>

LandProfile(c) ==
    /\ At(c, "served", {"profile"})
    /\ row' = [row EXCEPT ![about[c]] = got[c]] /\ answer' = [answer EXCEPT ![c] = got[c]]
    /\ Step(c)
    /\ UNCHANGED <<got, about, full, wrote, cause, server, acting>>

\* Here a failure of the read is thrown.
ProfileThrows(c) ==
    /\ \E p \in {"ready", "served"} : At(c, p, {"profile"})
    /\ Fail(c, "profile")
    /\ UNCHANGED <<todo, got, about, full, wrote, answer, server, row, acting>>

Return(c) ==
    /\ phase[c] = "ready" /\ todo[c] = << >>
    /\ phase' = [phase EXCEPT ![c] = "done"]
    /\ answer' = [answer EXCEPT ![c] = IF @ = None THEN wrote[c] ELSE @]
    /\ UNCHANGED <<todo, got, about, full, wrote, cause, server, row, acting>>

StopActing == acting /\ acting' = FALSE
              /\ UNCHANGED <<todo, phase, got, about, full, wrote, answer, cause, server, row>>

Next ==
    \/ StopActing
    \/ \E c \in Callers :
        \/ \E o \in Programs : Begin(c, o)
        \/ Write(c) \/ Delete(c) \/ Refused(c) \/ AnswerLost(c) \/ Ask(c)
        \/ Reread(c) \/ LandReread(c) \/ RereadFails(c)
        \/ Refetch(c) \/ LandRefetch(c) \/ RefetchFails(c) \/ ReadbackThrows(c) \/ Keep(c) \/ Drop(c)
        \/ Capture(c) \/ NothingCached(c) \/ WriteBack(c) \/ Forget(c) \/ Swallow(c)
        \/ StorageFails(c) \/ Remember(c) \/ LandRemember(c)
        \/ Profile(c) \/ LandProfile(c) \/ ProfileThrows(c) \/ Return(c)

Spec == Init /\ [][Next]_vars

-----------------------------------------------------------------------------
\* Properties.

\* Type invariant.
TypeOK ==
    /\ \A c \in Callers : Len(todo[c]) <= 5
    /\ phase \in [Callers -> {"idle", "ready", "served", "holding", "done", "failed"}]
    /\ about \in [Callers -> Subjects \cup {None}]
    /\ \A f \in {got, full, wrote, answer} : f \in [Callers -> Nat \cup {None}]
    /\ cause \in [Callers -> {None, "refused", "read", "readback", "profile", "storage"}]
    /\ server \in [Subjects -> Nat \cup {None}] /\ row \in [Subjects -> Nat \cup {None}]
    /\ acting \in BOOLEAN

\* What the API said it accepted is not reported as failed because something
\* after it went wrong: neither the read-after-write, nor the engagement, nor the user's
\* own profile.  Only a cache whose storage fails, and an update of a profile
\* or a playlist that cannot read it back, do that.
AcceptedNeverFails ==
    \A c \in Callers : phase[c] = "failed" /\ wrote[c] # None =>
        cause[c] \in {"storage", "profile", "readback"}

\* A call answers with what it wrote or something newer, also when other calls
\* wrote to the cache meanwhile and when its read-after-write failed.  (An
\* update of a profile, acting for another, may answer with a cached profile
\* or with that of somebody else.)
AnswerShowsWrite ==
    \A c \in Callers : phase[c] = "done" /\ wrote[c] # None =>
        about[c] \in {"me", "managed"} \/ answer[c] >= wrote[c]
=============================================================================
