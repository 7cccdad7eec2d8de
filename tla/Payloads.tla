------------------------------ MODULE Payloads ------------------------------
(***************************************************************************)
(* What the SDK makes of the documents the API sends.  The same thing is    *)
(* spelled in many ways (song_title or title, user_ulid or user.ulid,       *)
(* average_rating or average), and the SDK brings each to one form before   *)
(* it is cached and shown.  A document is a function from the keys it has   *)
(* to their values; its nested objects are the other parts of the record.   *)
(* The value of a field is the field's own name, so that a value that ends  *)
(* up under another field shows.                                            *)
(***************************************************************************)
EXTENDS Naturals, Sequences, FiniteSetsExt

VARIABLES
    kind,    \* what the document describes
    style,   \* which key carries each field, Absent for none
    doc,     \* the document as it is now
    stage    \* "raw", "normal", "again", "merged", "failed"

vars == <<kind, style, doc, stage>>

Absent == <<"top", "absent">>
Undef == "undefined"
Null == "null"
Fn == "function"
Falsy == {Undef, Null, "", "0"}

Empty == << >>
Get(o, k) == IF k \in DOMAIN o THEN o[k] ELSE Undef
Has(o, k) == Get(o, k) \notin Falsy
Assign(o, k, v) == [x \in DOMAIN o \cup {k} |-> IF x = k THEN v ELSE o[x]]
Put(o, k, v) == IF v = Undef THEN o ELSE Assign(o, k, v)
Default(v, w) == IF v \in {Undef, Null} THEN w ELSE v

\* a || b || c, and a ?? b ?? c.
FirstOf(o, keys, Skip(_)) ==
    LET kept == {n \in DOMAIN keys : ~Skip(Get(o, keys[n]))}
    IN  Get(o, keys[IF kept = {} THEN Len(keys) ELSE Min(kept)])
Or(o, keys) == FirstOf(o, keys, LAMBDA v : v \in Falsy)
Coalesce(o, keys) == FirstOf(o, keys, LAMBDA v : v \in {Undef, Null})

Fill(o, k, keys) == IF Has(o, k) THEN o ELSE Put(o, k, Or(o, keys))

-----------------------------------------------------------------------------
\* Key conversion and the engagement hash.

\* The keys of nested objects; the others are spelled one way.
CamelOf(k) ==
    CASE k = "expires_at"  -> "expiresAt"
      [] k = "thumb_url"   -> "thumbUrl"
      [] k = "songs_limit" -> "songsLimit"
      [] OTHER             -> k

SnakeToCamelObject(o) ==
    [c \in {CamelOf(k) : k \in DOMAIN o} |-> o[CHOOSE k \in DOMAIN o : CamelOf(k) = c]]

\* The engagement fields.  JSON.stringify is given the names of the outer
\* keys, which it applies to nested objects too: of those only the presence
\* is left in the string.  userReaction stands for the plain fields.
EngagementHash(p) == [reaction |-> Get(p.top, "userReaction"), stats |-> p.stats # Empty]

-----------------------------------------------------------------------------
\* Posts.

RatingStats(s) ==
    IF s = Empty THEN Empty
    ELSE [average |-> Coalesce(s, <<"average_rating", "average">>)]

RootKeys == {"username", "displayName", "name", "avatar", "avatarUrl"}

\* The object u with the fields in keys as o has them.
Pull(u, o, keys) ==
    [k \in DOMAIN u \cup keys |-> IF k \in keys THEN o[k] ELSE u[k]]

Mirror(u, a, b) == Fill(Fill(u, a, <<b>>), b, <<a>>)

\* A bug to rule out: the fields of the root win.
RootWins(p) ==
    LET pulled == Pull(p.user, p.top, {k \in RootKeys : Has(p.top, k)})
    IN  Mirror(Mirror(pulled, "name", "displayName"), "avatar", "avatarUrl")

\* The author, from the embedded object and from the fields of the root.
PostUser(p) ==
    LET pulled == Pull(p.user, p.top, {k \in RootKeys : ~Has(p.user, k) /\ Has(p.top, k)})
    IN  Mirror(Mirror(pulled, "name", "displayName"), "avatar", "avatarUrl")

PostTop(top, user, stats) ==
    LET typed  == Fill(top, "type", <<"postType">>)
        titled == IF Get(typed, "title") \in {Undef, Null}
                    THEN Put(typed, "title", Or(typed, <<"song_title", "songTitle", "name">>))
                    ELSE typed
        sung   == Fill(Fill(titled, "artist", <<"artist_name", "artistName">>),
                       "album", <<"album_name", "albumName">>)
        owned  == Fill(sung, "userId", <<"user_ulid", "userULID">>)
        by     == IF Has(owned, "userId") THEN owned
                  ELSE Put(owned, "userId", Or(user, <<"ulid", "userId">>))
    IN  IF stats = Empty \/ Has(by, "averageRating") THEN by
        ELSE Put(by, "averageRating", Get(stats, "average"))

NormalizePost(p) ==
    LET user  == PostUser(p)
        stats == RatingStats(p.stats)
        q     == [p EXCEPT !.top = PostTop(p.top, user, stats), !.user = user,
                           !.stats = stats, !.nested = SnakeToCamelObject(p.nested)]
    IN  [q EXCEPT !.hash = EngagementHash(q)]

\* executeEngagementFetch: what an engagement answer changes in the row.
MergeEngagement(row, ans) ==
    LET stats  == IF ans.stats = Empty THEN row.stats ELSE RatingStats(ans.stats)
        top    == Put(row.top, "userReaction", Get(ans.top, "userReaction"))
        merged == [row EXCEPT !.stats = stats,
                     !.top = IF ans.stats = Empty THEN top
                             ELSE Put(top, "averageRating", Get(stats, "average"))]
    IN  [merged EXCEPT !.hash = EngagementHash(merged)]

\* The answer is skipped when the row's hash says that nothing changed.
Polled(row, ans) ==
    IF row.hash = EngagementHash(ans) THEN row ELSE MergeEngagement(row, ans)

-----------------------------------------------------------------------------
\* Profiles.

Count(o, keys) == LET n == Or(o, keys) IN IF n \in Falsy THEN "0" ELSE n

\* A bug to rule out: everything is taken over.
AsSent(o) == o

\* Values only, without the helper methods of the User class.
Plain(o) ==
    [k \in {k \in DOMAIN o : k \notin {"isAdmin", "hasBadge"} /\ o[k] # Fn} |-> o[k]]

NormalizeUserProfile(p) ==
    LET named == Put(Plain(p.top), "displayName", Or(p.top, <<"displayName", "name">>))
    IN  [p EXCEPT !.top = Assign(named, "followersCount",
                                 Count(p.top, <<"followersCount", "followers">>)),
                  !.nested = SnakeToCamelObject(p.nested)]

\* Nothing that IndexedDB cannot clone is stored.
Sanitized(o) == [k \in {k \in DOMAIN o : o[k] # Fn} |-> o[k]]

-----------------------------------------------------------------------------
\* Chat messages.

NormalizeChatMessage(p, group) ==
    LET sender == IF Get(p.user, "userId") \notin {Undef, Null} THEN p.user["userId"]
                  ELSE Get(p.top, "userId")
        name   == IF Get(p.user, "name") \notin {Undef, Null} THEN p.user["name"]
                  ELSE Get(p.top, "username")
        bodied == Assign(p.top, "body", Default(Get(p.top, "body"), ""))
        grouped == Assign(bodied, "groupUlid",
                          Default(Coalesce(p.top, <<"groupUlid", "groupId">>), group))
        known  == Assign(grouped, "id", Default(Coalesce(p.top, <<"id", "ulid">>), ""))
    IN  [p EXCEPT !.top = Put(Put(known, "userId", sender),
                              "senderName", IF sender = Undef THEN Undef ELSE name)]

\* A message without an identity is left out of its page.
Readable(p) == Coalesce(p.top, <<"id", "ulid">>) \notin {Undef, Null}

-----------------------------------------------------------------------------
\* Token replies.

\* unwrap(): the payload, in its envelope or bare.
Unwrap(p) == IF p.data = Empty THEN p.top ELSE p.data

\* Date.now() + expiresIn * 1000.
FromNow(v) == IF v = "seconds" THEN "expiry" ELSE v

ExtractAuthTokens(p) ==
    LET r == Unwrap(p)
        access == [accessToken |-> Coalesce(r, <<"access_token", "accessToken">>)]
        tokens == Put(Put(access, "refreshToken", Coalesce(r, <<"refresh_token", "refreshToken">>)),
                      "expiresAt", FromNow(Coalesce(r, <<"expires_at", "expiresAt",
                                                         "expires_in", "expiresIn">>)))
    IN  [p EXCEPT !.top = tokens, !.data = Empty]

\* Without an access token the call fails with InvalidAuthResponseError.
Rejects(p) == Coalesce(Unwrap(p), <<"access_token", "accessToken">>) = Undef

-----------------------------------------------------------------------------
\* Small replies, bare or in their envelope.

\* getCurrentUser: a badge is a string, or an object (doc.data) with a name.
CurrentUser(p) ==
    LET q == NormalizeUserProfile(p)
        badges == IF Has(q.top, "badges") THEN q.top["badges"] ELSE Get(p.data, "name")
    IN  [q EXCEPT !.top = Put(q.top, "badges", badges)]

Only(p, o) == [p EXCEPT !.top = o, !.data = Empty]

\* searchHashtags.
Hashtags(p) ==
    Only(p, [items |-> Default(Coalesce(p.top, <<"hashtags", "items">>),
                               Default(Coalesce(p.data, <<"hashtags", "items">>), "none"))])

\* getChatUnreadCount.
UnreadCount(p) ==
    Only(p, [unreadCount |->
                Default(Coalesce(Unwrap(p), <<"unread_count", "unreadCount">>), "0")])

\* normalizeArtistEntitlements: null is no limit, and no word is a limit of ten.
ArtistEntitlements(p) ==
    LET limit == Get(SnakeToCamelObject(Unwrap(p)), "songsLimit")
    IN  Only(p, [songsLimit |-> IF limit = Undef THEN "10" ELSE limit])

\* geocodeCity, fetchApproximateLocation: both coordinates or none.
Located(o) == Get(o, "latitude") # Undef /\ Get(o, "longitude") # Undef
Location(p) == Only(p, IF Located(Unwrap(p)) THEN Unwrap(p) ELSE Empty)

-----------------------------------------------------------------------------
\* The documents the API sends.

At(part, keys) == {<<part, k>> : k \in keys} \cup {Absent}

PostStyles == [
    title    : At("top", {"title", "song_title", "songTitle", "name"}),
    artist   : At("top", {"artist", "artist_name", "artistName"}),
    owner    : At("top", {"userId", "user_ulid", "userULID"}) \cup At("user", {"ulid", "userId"}),
    name     : At("top", {"name", "displayName"}) \cup At("user", {"name", "displayName"}),
    avatar   : At("top", {"avatar"}) \cup At("user", {"avatarUrl"}),
    rating   : At("stats", {"average_rating", "average"}),
    expiry   : At("nested", {"expires_at", "expiresAt"}),
    reaction : At("top", {"userReaction"})]

UserStyles == [
    name      : At("top", {"displayName", "name"}),
    followers : At("top", {"followersCount", "followers"}),
    thumb     : At("nested", {"thumb_url", "thumbUrl"}),
    function  : At("top", {"isAdmin", "onClick"})]

ChatStyles == [
    id    : At("top", {"id", "ulid"}),
    owner : At("top", {"userId"}) \cup At("user", {"userId"}),
    name  : At("top", {"username"}) \cup At("user", {"name"}),
    group : At("top", {"groupUlid", "groupId"}),
    body  : At("top", {"body"})]

Reply(part) == [
    access  : At(part, {"access_token", "accessToken"}),
    refresh : At(part, {"refresh_token", "refreshToken"}),
    expiry  : At(part, {"expires_at", "expiresAt"}),
    seconds : At(part, {"expires_in", "expiresIn"})]

CurrentStyles == [
    name  : At("top", {"displayName", "name"}),
    badge : At("top", {"badges"}) \cup At("data", {"name"})]

\* unlimited is the field sent as null.
SmallStyles(k, part) ==
    CASE k = "hashtags"     -> [items : At(part, {"hashtags", "items"})]
      [] k = "unread"       -> [count : At(part, {"unread_count", "unreadCount"})]
      [] k = "entitlements" -> [limit : At(part, {"songs_limit", "songsLimit"})]
                               \cup [unlimited : At(part, {"songs_limit"})]
      [] k = "location"     -> [latitude : At(part, {"latitude"}),
                                longitude : At(part, {"longitude"})]

Small == {"hashtags", "unread", "entitlements", "location"}

\* No key carries two fields.  A name at the root of a post is the song's
\* where the author is embedded with a name, else the author's.
Sendable(k, s) ==
    /\ \A f, g \in DOMAIN s : s[f] = s[g] => f = g \/ s[f] = Absent
    /\ k = "post" => /\ s.title = <<"top", "name">> => s.name = <<"user", "name">>
                     /\ s.name = <<"top", "name">> => s.title # Absent

\* A part of the document: the keys that carry a field of the style.
PartOf(s, part) ==
    [key \in {s[f][2] : f \in {f \in DOMAIN s : s[f][1] = part /\ s[f] # Absent}} |->
        LET f == CHOOSE f \in DOMAIN s : s[f] = <<part, key>>
        IN  IF f = "unlimited" THEN Null ELSE f]

Sent(s) == [top |-> PartOf(s, "top"), user |-> PartOf(s, "user"), stats |-> PartOf(s, "stats"),
            nested |-> PartOf(s, "nested"), data |-> PartOf(s, "data"), hash |-> Empty]

Init ==
    /\ \/ kind = "post"   /\ style \in PostStyles
       \/ kind = "user"   /\ style \in UserStyles
       \/ kind = "chat"   /\ style \in ChatStyles
       \/ kind = "tokens" /\ style \in Reply("top") \cup Reply("data")
       \/ kind = "current" /\ style \in CurrentStyles
       \/ kind \in Small /\ style \in SmallStyles(kind, "top") \cup SmallStyles(kind, "data")
    /\ Sendable(kind, style)
    /\ doc = Sent(style) /\ stage = "raw"

Normal(p) ==
    CASE kind = "post"   -> NormalizePost(p)
      [] kind = "user"   -> NormalizeUserProfile(p)
      [] kind = "chat"   -> NormalizeChatMessage(p, "group")
      [] kind = "tokens" -> ExtractAuthTokens(p)
      [] kind = "current"      -> CurrentUser(p)
      [] kind = "hashtags"     -> Hashtags(p)
      [] kind = "unread"       -> UnreadCount(p)
      [] kind = "entitlements" -> ArtistEntitlements(p)
      [] kind = "location"     -> Location(p)

Refused(p) == (kind = "tokens" /\ Rejects(p)) \/ (kind = "chat" /\ ~Readable(p))

-----------------------------------------------------------------------------
\* A reply is read; what was cached is read again; an engagement answer
\* about a cached post comes in.

Decode ==
    /\ stage = "raw"
    /\ IF Refused(doc) THEN stage' = "failed" /\ UNCHANGED doc
       ELSE stage' = "normal" /\ doc' = Normal(doc)
    /\ UNCHANGED <<kind, style>>

\* What setPosts or setUser stored comes back through the normaliser, as a
\* profile does when another reply embeds it.
DecodeAgain ==
    /\ stage = "normal" /\ kind \in {"post", "user"}
    /\ stage' = "again"
    /\ doc' = Normal([doc EXCEPT !.top = Sanitized(doc.top)])
    /\ UNCHANGED <<kind, style>>

\* The endpoint has its own spelling of the rating and may have a newer reaction.
Answers ==
    {[top |-> [userReaction |-> r], stats |-> s, hash |-> Empty] :
        r \in {Get(doc.top, "userReaction"), "newer", Null},
        s \in IF doc.stats = Empty THEN {Empty}
              ELSE {[average |-> "rating"], [average_rating |-> "rating"]}}

Poll ==
    /\ stage = "normal" /\ kind = "post"
    /\ \E ans \in Answers : doc' = Polled(doc, ans)
    /\ stage' = "merged"
    /\ UNCHANGED <<kind, style>>

Next == Decode \/ DecodeAgain \/ Poll
Spec == Init /\ [][Next]_vars

-----------------------------------------------------------------------------
\* Properties.

\* Type invariant.
TypeOK ==
    /\ stage \in {"raw", "normal", "again", "merged", "failed"}
    /\ stage \in {"normal", "again", "merged"} =>
         \A k \in DOMAIN doc.top : doc.top[k] \notin {Undef, Fn}

\* The fields as a page reads them.
View ==
    CASE kind = "post" ->
           [title |-> Get(doc.top, "title"), artist |-> Get(doc.top, "artist"),
            owner |-> Get(doc.top, "userId"), name |-> Get(doc.user, "name"),
            avatar |-> Get(doc.user, "avatar"), rating |-> Get(doc.stats, "average"),
            expiry |-> Get(doc.nested, "expiresAt"), reaction |-> Get(doc.top, "userReaction")]
      [] kind = "user" ->
           [name |-> Get(doc.top, "displayName"), thumb |-> Get(doc.nested, "thumbUrl"),
            followers |-> Get(doc.top, "followersCount")]
      [] kind = "chat" ->
           [id |-> Get(doc.top, "id"), owner |-> Get(doc.top, "userId"),
            name |-> Get(doc.top, "senderName"), group |-> Get(doc.top, "groupUlid"),
            body |-> Get(doc.top, "body")]
      [] kind = "tokens" ->
           [access |-> Get(doc.top, "accessToken"), refresh |-> Get(doc.top, "refreshToken"),
            expiry |-> Get(doc.top, "expiresAt")]
      [] kind = "current" ->
           [name |-> Get(doc.top, "displayName"), badge |-> Get(doc.top, "badges")]
      [] kind = "hashtags" -> [items |-> Get(doc.top, "items")]
      [] kind = "unread" -> [count |-> Get(doc.top, "unreadCount")]
      [] kind = "entitlements" -> [f \in DOMAIN style |-> Get(doc.top, "songsLimit")]
      [] kind = "location" ->
           [latitude |-> Get(doc.top, "latitude"), longitude |-> Get(doc.top, "longitude")]

Carried(f) ==
    CASE kind = "user" /\ f = "followers" /\ style[f] = Absent -> "0"
      [] kind = "chat" /\ f = "group" -> "group"
      [] kind = "chat" /\ f = "body" /\ style[f] = Absent -> ""
      [] kind = "chat" /\ f = "name" /\ style.owner = Absent -> Undef
      [] kind = "tokens" /\ f = "expiry" /\ style.seconds # Absent -> "expiry"
      [] kind \in Small \ {"location"} /\ style[f] = Absent ->
           CASE kind = "hashtags" -> "none" [] kind = "unread" -> "0" [] OTHER -> "10"
      [] kind = "location" /\ \E g \in DOMAIN style : style[g] = Absent -> Undef
      [] f = "unlimited" /\ style[f] # Absent -> Null
      [] OTHER -> IF style[f] = Absent THEN Undef ELSE f

\* Whatever keys the API chose, the page reads each field where the SDK puts
\* it, and nothing under a field that was sent for another: as received, as it
\* comes back from the cache, and after an engagement answer was merged in,
\* which may only have brought a newer reaction.
RoundTrip ==
    stage \in {"normal", "again", "merged"} =>
        \A f \in DOMAIN View :
            View[f] = Carried(f) \/ (stage = "merged" /\ f = "reaction")
=============================================================================
