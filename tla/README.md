# TLA+ specifications of ccsdk

ccsdk is the TypeScript SDK of a social platform. Most of it is a thin wrapper over a REST API;
what is hard in it is an asynchronous core: sessions that are refreshed, rotated, persisted,
restored and ended while other calls are suspended; requests that are rejected while the bearer
changes under them; fetches that are debounced, batched, shared and merged into a cache that
other calls rewrite meanwhile; uploads by pools of workers that pause, retry and resume; several
accounts in several tabs. JavaScript runs one step at a time between awaits, so the unit of
nearly every model here is *one asynchronous call from one await to the next*, and the hazards are the
orders in which these steps meet.

This directory holds TLA+ modules of that core, TLC configurations that check them on small
instances, and TLAPS proofs for every value of the constants. `PROJECT.json` is the machine-readable
index (components, runs, mutants, the lines each definition stands for, findings, hazards, theorems).

To run one check: `tlc -config Posts.cfg MCPosts.tla`; to check the proofs: `tlapm PostsProofs.tla`.

## 1. The system

| Component (source) | State it keeps | Operations | Interacts with | Module |
|---|---|---|---|---|
| Session life cycle (`platformSdk.ts` 616–2054) | token provider, `signOutEpoch`, `signOutInProgress`, refresh slot, the persisted session | `setTokens`, `restoreSession`, logins, `refreshToken`, `clearSession`, `logout`, `deleteAccount`, `onRemoteSignOut` | session store, authorization server, cache write fence (callback after `cachePromise`), other pages (broadcast), HTTP client | `Session` |
| Acting identity (`platformSdk.ts` 640–830) | `actingContext`, its copy in local storage | set, get, clear, `isActing`, the callback of a refused context | headers of every request, sign-out here and elsewhere | `Identity` |
| Token providers, `RefreshCoordinator` (`auth.ts`) | a token pair in memory, in storage or in both; an in-flight promise | get, set, clear; `run` | session, HTTP client | `Identity`, `SharedFlight` |
| HTTP client (`httpClient.ts`) | `isRefreshing`, `refreshQueue`, `isLoggingOut`, `refreshBlockedUntil` | `request`, `refreshTokens`, `resetAuthLatch` | token provider (before and after the fetch), `onRefreshTokens`, `onUnauthorized` | `HttpClient` |
| Post, feed and engagement fetching | batch queue, timer, resolvers; engagement queue, timer, resolvers, request in flight | `getPostByUlid`, `fetchPostsBatch`, `deletePost`, `fetchEngagement`, `refreshPostEngagement` | cache, server, timers | `Posts` |
| Writes of posts, profiles and records | what each call holds between its awaits; cached rows | create, update, delete, repost, quote, comment, react, vote, moderate, follow, profile updates, playlists, stations, articles, businesses, events | cache, server, the read-after-write | `Writes` |
| Payload normalisation | none: documents in many spellings | `normalizePost`, `normalizeUserProfile`, engagement merge and hash, chat messages, token extraction | every fetch, the cache | `Payloads` |
| Paged lists, query helpers (`query.ts`) | cursors; the cached feed | seventeen paged readers, `fetchFeedPage`, `appendToFeedResource`, infinite queries | server, feed cache | `Pages` |
| Cache store (`cache/cacheDB.ts`) | rows with TTL, feeds, the write fence | get/set, append, touch, trim, remove, `clearAll`, `fenceWrites`, reopen | all tabs on the database; sign-out | `Cache` |
| User and group fetching (5400–5800, 9300–9700) | user batch, tombstones, group GETs in flight | profile batches, hints, `getGroup`, lists, create, update, follow, join, leave, `dispose` | cache, server | `People` |
| Session manager (`sessionManager.ts`) | profile records, active profile, registry | `addProfile`, `switchTo`, `remove`, `restore`, registry sync, `onUnauthorized` | an SDK per profile, registry store, broadcast | `Profiles` |
| Multipart upload (`multipartUpload.ts`) | parts, uploading/aborted flags, pool | `start`, `pause`, `resume`, `abort` | server, storage, connectivity | `Multipart` |
| Small media uploads | — | `uploadMediaFile`, `uploadDirect`, `createVideoPost` | server, multipart, watcher | `Media` |
| Realtime client (`realtime.ts`), post-processing watcher (`postProcessing.ts`) | lazy connection and its channels; a poll loop | connect, subscribe, unsubscribe, disconnect; watch, stop | Echo/Pusher, timers | `Watching` |
| Connectivity | online or not | the events that end the workers' waits | multipart | `Multipart` |
| Blob store and persister, media helpers, REST wrappers, types | none, or trivially sequential | — | — | — |

What makes each correct:

* **Session**: a session that was ended comes back from nowhere but the store, whatever was suspended when it ended; two refreshes
  never spend one refresh token; a page that loses a rotation race does not lose the session; the
  cache accepts no writes from the start of a sign-out until somebody signs in; a sign-out finishes.
* **Identity**: no request carries an acting context across a sign-out its tab knows of, nor a bearer across one it has finished.
* **HTTP client**: one refresh and one logout cascade at a time; no request is left in the queue; none
  is replayed as somebody else; the logout latch outlives no login.
* **Posts**: a caller is never forgotten by the batch, the timer or the request it relies on;
  engagement is not older than the question.
* **Writes**: what the API accepted is not reported as failed, and the answer shows it.
* **Payloads**: a value is read under its own field, however often a document is normalised, cached and merged.
* **Pages**: a walk gets everything that stayed on the list, and ends.
* **Cache**: nothing is written across a sign-out.
* **People**: nobody waits for ever, is answered from before the question, or told that somebody who exists does not.
* **Profiles**: the active profile is one of the profiles; tabs come to agree; a removed profile stays removed.
* **Multipart, Media, Watching**: completion is asked for only when every part is there, no part is lost, or sent twice by a host that waits for its calls, every
  start and every watch ends, and a watch calls back once.

`PROJECT.json` lists the hazards at their lines, the ones no property covers included, with the reason.

## 2. The modules

| Module | What it is |
|---|---|
| `Session`, `MCSession`, `SessionProofs` | the session life cycle of several SDK instances, their stores, their server |
| `SharedFlight` | abstract: what a de-duplicated asynchronous call promises |
| `HttpClient`, `HttpClientProofs` | 401 handling, its refresh flight and its queue; refines `SharedFlight` |
| `Posts`, `MCPosts`, `PostsProofs` | post batches, engagement requests and the rows of the cache |
| `Cache`, `MCCache`, `CacheProofs` | the database that tabs share, its feeds, the write fences and the wipe |
| `Profiles`, `MCProfiles`, `ProfilesProofs` | the session managers of several tabs over one registry |
| `People`, `MCPeople`, `PeopleProofs` | profile batches, group GETs, tombstones |
| `Multipart` | an upload in parts |
| `Watching` | the watcher of a post's video, and the realtime client that ends its wait |
| `Media`, `MCMedia`, `MediaProofs` | composes `Multipart` and `Watching` into the way of a video: upload, post, watch |
| `Payloads`, `Pages`, `Writes`, `Identity` | documents, paged lists, writing calls, headers |
| `Client`, `MCClient`, `ClientProofs` | the parts of an instance side by side: `Session` and the four above |

### Session

`tok`, `epoch`, `signingOut`, `remoteOut` and `slot` are the token provider, `signOutEpoch`,
`signOutInProgress`, the flag of a remote sign-out and the refresh slot of each instance; `store` is
what the session store holds; `fence`, `fencing` and `unfencing` are the write fence of the cache and
the two callbacks that `cachePromise.then` may still owe it; `late` marks a clear that was given up on
and may still land; `mail` the broadcasts not delivered. `op[p]` is an asynchronous call: the await it
is suspended at (`pc`), and the tokens and epoch it captured when it started. `live`, `issued`,
`logins` and `cookie` belong to the authorization server, which issues each refresh token once and
revokes it when it is rotated. `ended`, `strayed` and `installedAt` are history variables of the properties: the sign-ins a sign-out ended, those of
them that the store gave back or would not give up, and the epoch of the last install.

A store call is two steps, the store's (`LoadRead`, `SaveLands`, `ClearLands`, `WipeLands`, or `StoreRefuses` and `WipeFails`
when `StoreMayFail`) and the call's (`LoadResume`, `SaveResume`, …), with any other step in between when
`SlowStore`; otherwise it settles in a microtask of its thread. A sign-out whose clear rejects goes on and leaves the pair in the store; one whose
clear is given up on leaves it to `LateClearLands` or `LateClearFails`. Wherever the code
compares epochs, subjects or tokens after an await the model does. A cookie-mode refresh spends
whatever cookie the browser holds. A token pair names the sign-in of its refresh token and, by itself, that of its bearer, since
`mergeStoredSession` may put a held bearer beside a stored refresh token when the host's store keeps the latter alone (`RefreshOnly`). With `LostReplies`
the server may rotate and its answer be lost or hidden behind a 5xx or a 401, and the retry spends the old token.

`TabOf`, `Threads` and `StoreOf` say which calls share an instance, which instances a page and which
a store: two profiles of a page, two pages on one `localStorage`, or two pages that share only a broadcast.

### HttpClient

A request goes `out`, is answered or rejected, and then is replayed (`retry`), queued behind a
running refresh, leads a refresh (`refreshing` → `granted`/`expired`/`failed`), or runs the logout
cascade; the handler may also resolve without tokens (`HandlerDeclines`). `hasHandler`, `isRefreshing`, `isLoggingOut` and `blocked` are the client's fields; `queued`
requests are `refreshQueue`. Sessions are installed and cleared by the environment at any moment
(`Install`, `SessionEnds`; a bearer may be opaque, and then matches any), except that `MidCascade = FALSE` keeps installs out of a running
`onUnauthorized`. `condemned` is a history variable: the session was found dead and none was installed since.

### Posts

`postQueue`, `postTimer`, `waiting` are `postBatchQueue`, `postBatchTimer`, `postPendingResolvers`;
`flight[f]` is a `flushPostBatch` that has not returned, of which several may overlap since a new
timer is armed while one is out. `engQueue`, `engPending`, `engine` are the engagement queue, its resolvers and
`engagementInFlight`. The engagement *timer* takes two variables: `flushEngagementBatch` sets
`engagementBatchTimer` to null when a landing request re-flushes, without clearing the timer, so
`armed` counts the timers that will still fire and `tracked` says whether the field names one of them.

A row is a record of what the properties tell apart: the revision its body is of, its `updatedAt`
(`stamp`), its engagement and the engagement its `_engagementHash` was computed from. `HashOf` says which engagements
hash alike, since `hashObject` does not see nested counts (§5). `updateCachedEngagement`
writes the new `updatedAt` and the new engagement but neither the body nor the hash, and the model does the same.
Cache reads fall back to nothing (`Reads`) and cache writes are dropped (`Store`) when
IndexedDB stays away after a reopen or the write fence is up; a reply that is no list ends a batch without settling anybody (`PostsSpoiled`;
the history variable `spoiled` names whom it leaves); other errors are thrown
(`CacheThrows`, `EngineThrows`, the failing outcome of `PostsCached`). Rows expire and are trimmed
(`Expires`), the author edits and deletes posts, requests fail. `Engine` is the slot of the
`fetchPostsBatch` that an engagement request runs itself for the posts whose `updatedAt` moved.

### Cache

`held` and `feeds` are the rows of the posts and feeds stores, `old` and `oldFeeds` those past their TTL, `list` the ULIDs of a
feed row. Each tab has its fence (`writesFenced`), `signOutInProgress` and the progress of its `clearAll` (`wipe`). A task is one
call between awaits: a first or next feed page, a cached feed that is read with its posts (a read touches and expires rows), a deletion, or
a trim. IndexedDB runs requests in the order they are issued, so a request takes effect when its action issues it, and the next action
resumes with what it read *then*. Any request may find the connection lost: `safeWrite` reopens the database and tries again
(`RetryPosts`, `RetryInvalidate`); other requests end. A wipe may clear half of the stores and fall back on recreating the database, or be given
up by its cap. Where the code writes only rows that are still there (`UpdatePosts`, `UpdateFeed`) the model does. `sealed` is a
history variable: the wipe is done, all fences are up and no put waits for a reopened connection.

### Profiles

`book[m]` is the manager of a tab: how many records each account has (two is what an unguarded overlap could produce), which need
re-authentication, and `activeUserId`. `registry` is the shared store, `sdk`, `tok` the instances and what they hold, `store` the session
stores of the profiles and `cookie` the one refresh cookie of the browser. A call of `addProfile`, `switchTo`, `remove`,
`syncFromRegistry` or the expiry callback runs from await to await; `kept`, `ref` and `before` are what it captured: whether its instance is still
the one in the map, whether its record is still the one in the list, and the bearer it began with. A sync loads the registry (`LoadRegistry`) and applies what it read later (`SyncFromRegistry`); a session may
expire in any tab, since a background 401 reports it. An instance's refresh or restore appears by its outcome, an instance that acts for another account (`Delegating`) passes the check of
whose its session is.
Tabs tell each other to sync by `mail`; a page of `Reloading` may be loaded again and runs `restore`.

### People

`userBatchQueue`, `userPendingResolvers`, `userBatchTimer`, `userRefreshInFlight` and `groupRefreshInFlight` are the fields of
those names, `notFound` the two negative caches, `row` the cached versions. A flight is a request with the versions it was answered and the callers it
will settle; several batches overlap, and a reply may leave out all its users (`Omits`: it is no list). The cache may refuse a row or an eviction. The server's `version`s grow, users and groups are deleted (`Gone`) and come back. `asked` is what the
server had when the caller asked (0 where the code may serve a cached row), `wasGone` a history variable.

### Multipart, Watching, Media

`start[r]` is where the `r`-th call of `start` (or the `resume` before it) is, `worker[r][w]` each worker of its pool: at the gate between
parts (`while` over pause, offline and abort), sending, refreshing an expired URL, sending again, or backing off; `uploadQueue[r]` the parts the
pool has left, `uploadedParts`, `known`, `uploading` and `aborted` the object's fields. `stored`, `alive` and `leaving` are the server's and of an abort
request on its way. `PartStalls` is the watchdog. An attempt that fails offline is not counted, as in the code. The server may complete the upload and its answer be lost. `Patient` is a
promise of the host: it starts or resumes only when nothing of the last call is left.

`watch`, `polls`, `late`, `onDone` are a watcher's state; `late` marks a poll that is out although the watcher has settled. `echo`, `live`,
`connecting`, `subscriptions`, `joined` and `listening` are the realtime client's: a connection that resolves after a `disconnect` is kept,
and an Echo object may outlive its place in `this.echo`, as in the code.

`Media` runs them one after the other: a file below the threshold takes one PUT (`direct`), a larger one a `Multipart`; then the post is created, the
upload's state is let go, and its watchers run.

### The parts of Client

* `Payloads`: a document is a function from the keys it has to their values, the value of a field being the field's name, so a value that ends up under another
  field shows. `style` says which of its spellings carries each field (or that it is absent). The stages are those of the code: as received,
  normalised, read from the cache and normalised again, merged with an engagement answer. Nine kinds of document.
* `Pages`: the list is a set of numbers, newer greater; each of seventeen endpoints has its places for a cursor (`Places`), its kind of cursor (an item or a
  page number; search walks a quiet list, since an offset has no meaning on one that changes), its reader of the envelope, and its reason to stop. Items are posted, deleted, withheld, or cannot be shown; a page is refetched, fails, or the page of the
  application is reloaded and resumes from the cached feed. Appending to the cached feed reads its row (`ReadRow`) and writes it in a later step (`Arrive`). `NewestFirst` places an item by the number of newer ones, and `Without` keeps the places that stay in
  their order, so that both can be proved about.
* `Writes`: an operation is a sequence of steps (`write`, `reread`, `bump`, `refresh`, `keep`, …), as the awaits of its method come; a caller holds what it
  has read so far. A write is refused, or accepted, or accepted with its answer lost (`AnswerLost`). `server` and `row` have a version per subject. Every operation that reads back or touches the cache is listed by its steps.
* `Identity`: the three token providers and the acting context of several tabs on one local storage; requests take their headers when sent and are replayed after a 401.
  A sign-out is two steps (`BeginSignOut`, `FinishSignOut`) with anything in between, the logout POST and a new context included.

The parts share no variable and meet only through the API, so interleaving them reaches no state of one that it does not reach alone; a behaviour of
`Client` therefore moves one part, chosen in its initial state.

## 3. The runs

Every passing run explores its instance completely.

| Run | Instance | What it shows |
|---|---|---|
| `SessionOneTab` | one instance, two calls of all six kinds, slow and failing store, lost replies, capped waits, cookie mode | `TypeOK`; `SingleFlight`: a running refresh owns the slot or its epoch is over; `FenceDuringWipe` and `FenceNeedsSession`: no unfence that a login, restore or refresh scheduled fires into a sign-out, and cache writes are accepted only with a session |
| `SessionTwoTabs` | two pages with a slow and failing store each and a broadcast, three calls, lost replies, capped waits | `OnlyTheStoreRevives`: no answer to a refresh, no login and no late save brings back what a sign-out ended; what the store gives back in a read that straddles the sign-out, or keeps because it rejected the clear, is all that does. `SignOutCompletes`: a sign-out ends although the store and the refresh it waits for may never settle |
| `SessionSlowStore` | restore, login and logout of one instance over a slow store | *violated*: see §5 |
| `SessionAccountRace` | refresh and login of one instance, two accounts | *violated*: see §5 |
| `HttpClient` | three requests, two users, two bearers | `OneCascade`, `LatchNeedsVerdict`, `ReplaySameUser`, `RequestsSettle`, and `SharesOneFlight`: the refresh queue implements `SharedFlight`, fairness included |
| `Posts` | one post, a caller that gets, force-refreshes or asks engagement and one that deletes or reacts (twice), two flushes out at once, two timers armed | `EngagementAttended`, `AnsweredByLaterRequest` |
| `PostsLiveness` | one post, two callers that share batches and engagement requests | `NobodyForgotten`, `CallsSettle`, both but for the callers that a reply which is no list leaves waiting |
| `Cache` | two tabs on one database, every call in one and pages in the other, two posts, a feed, one sign-out | `WipeIsFinal`: once wiped behind every fence the database stays empty until a new session, whatever was out |
| `Profiles` | two tabs, open on the accounts that signed in before, two accounts, one cookie, stores without bearers; two calls of a tab overlap on distinct profiles, the other tab follows and is reloaded, sessions expire in both | `ActiveIsListed`, `TabsAgree`, `RemovedStaysOut` |
| `Media` | three parts, two workers, two calls of start or resume, one offline spell; then two watchers on one channel | `CompleteIsWhole`; `EachPartOnce`: each part is uploaded, queued or with exactly one worker; `StartSettles`; `CallsBackOnce`, `WatchSettles` |
| `People` | two callers that get users and groups and one that does everything else, two users, a group that exists and one to be created, batches of two, two requests at once | `NobodyForgotten`, `AnsweredFresh`, `NullIsTrue` |
| `Client` | every spelling of nine documents; seventeen lists of four items with pages of two; two writers of every operation; two tabs that act and sign out, all three providers; two instances of a page on one store | `RoundTrip`; `WalkIsWhole`; `AcceptedNeverFails`, `AnswerShowsWrite`; `NothingAcrossSignOut`; `SharedSessionSurvives`: the loser of a rotation adopts the winner's pair and the live session stays in the store |

**Bounds.** Each bound is a constant named for it and a guard of the actions that would exceed it. They are
chosen for the shortest bad scenarios:

* `Session` (`MaxEpoch`, `MaxGrant`, `MaxLogin`, `MaxReload`): one sign-out has to meet one refresh and one login (epoch 1,
  two grants, two logins); a rotation race needs two instances and a third refresh to see its outcome (four grants).
* `HttpClient` (`MaxGen`): a queue needs a leader, a follower and a newcomer (three requests).
* `Posts` (`MaxRev`, `MaxEng`, `MaxTimers`): the shared resolvers need two batches and two callers, a stale row two revisions, "older than the question" two reactions,
  an orphaned engagement timer two armed. One post is enough, since posts interact only
  by sharing a request, and a request that carries one post is settled, merged and rejected in the same steps as
  one that carries several; the proofs cover any number.
* `Cache`: a writer meets a wipe (two tasks), in the tab that leaves or in another (two tabs); `Capacity` 1 trims with two posts.
* `Profiles` (`MaxCalls` 3 calls and page loads of the host): the tabs are open on any of the accounts that signed in before, so a removal can meet an add, a switch or another removal and be followed by an add of the same account.
* `Media` (`MaxStarts`, `MaxDrops`, `MaxPolls`, `MaxEchoes`): three parts are more than two workers take at once; two starts are one pause and one resume, or one failure and another try; two polls let one be answered late; two Echo objects are one that outlives a disconnect.
* `People` (`Flights`, `MaxVersion`, `MaxEvents`): two batches, or a GET and a write, at once; two versions tell older from newer; one expiry, change, deletion, cleared cache or disposal.
* `Client`: four items make two full pages, and one posted, one deleted or one withheld moves the boundary between them
  (`MaxItem`, `LeastLeft`, `MaxHidden`, one of `MaxAgain`); two contexts, one sign-out, one reload.

Calls, users and tabs are symmetric where the run says so; no run that checks liveness uses symmetry.

**Deadlock** is checked in `HttpClient`, `Posts`, `PostsLiveness` and `Cache`. `Session`, `Profiles`, `Client`, `Media` and `People` switch it off: with
all sign-outs, grants, calls and events spent, an upload done and its watchers settled, there really is nothing left to do.

**Fairness.** Weak everywhere, and only for what JavaScript, its timers and `fetch` guarantee.
`HttpClient!LiveSpec`: every fetch is answered or fails and the host's callbacks settle
(a callback that never returns would block the queue by contract).
`Session!LiveSpec`: continuations of settled promises and timers run (`Resume`); the store and the server get *no* fairness, which is
the point of the caps. That includes the POST of `logout` and the DELETE of `deleteAccount` (`Asking`), which nothing caps: `SignOutCompletes` is about
sign-outs whose POST is answered, and a POST that hangs keeps `signOutInProgress` up (§5). `Posts!LiveSpec`: requests are answered or fail, IndexedDB comes back, timers
fire; one condition per call, batch and request. `Multipart!Fairness`: each start and each worker moves on (the watchdog makes a stalled
part move, not the socket), and the network comes back (`GoOnline`); the host need not resume, nor any part succeed. `Watching!Fairness`: the poll timer fires and a poll is
answered, one way or the other; the post need never be processed and nothing need be pushed. No fairness on the host starting calls, on edits or expiry.

**Mutants.** Every property of a passing run has a mutant: a one-line change of the modelled code
that a plausible bug would make (a re-flush that is forgotten, a joiner added to a request that is
already out, a retry that puts a row back, a splice at the wrong index, a key that is not converted, an epoch that is not compared), under which TLC finds that
property violated by the same configuration.

## 4. The proofs

All theorems hold for any instances, stores, users, requests, posts, calls and bounds that satisfy
the named assumptions of the modules. What they assume of the environment is in their ASSUME.

**`SessionProofs`**
* `TypeCorrect`: TypeOK. Inductive with `EpochBound`: epochs *plus* undelivered broadcasts stay within the bound, or delivering one could exceed it.
* `FenceNeedsSessionAlways`. The invariant `FenceInv` adds that a raised `signingOut` comes with a fence that is up or owed,
  and that an unfence still owed was scheduled in the current epoch, which is what `setTokens` re-checks.
* `FenceDuringWipeAlways`, `SingleFlightAlways`, if `~Overlap`. `SignOutInv` says who may be wiping (`WipeIsSignOut`), that there is
  one such call per instance (`OneSignOut`), and that the flag covers it (`FlagCoversWipe`); `RefreshInv`
  that a refresh started in this epoch or an earlier one, and that a sign-out in progress is in a later one than
  the refresh it waits for. Without `~Overlap` both are false (§5).
* `OnlyTheStoreRevivesAlways`, if `~CookieMode`, `~Overlap` and `OwnStores` (no two instances write one store): whatever calls run and however many, with stores of any slowness that fail, in reads, saves and clears, replies that are
  lost, waits that are given up on, clears that land late, reloads. It is inductive only with what calls carry between awaits (`EndedInv`): `TokensCurrent`, `StoreCurrent`, `SaveCurrent` and
  `RefreshCurrent` name the places from which tokens may be installed or saved (memory, the store, a save of the present epoch, a refresh of the present epoch) and say that none has tokens of an ended sign-in
  unless the store is accounted for it (`Accounted`), a sign-out has still to drop them, or a call still owes the store a clear (`Owes`).
  `WipeIsLater`: a refresh that runs beside a wipe is of an earlier epoch. `LoginFresh`: tokens that a login was granted are nowhere else until it resumes. `StepFlow` sums up every step of
  a call as a `Flow` (where each pair of tokens came from), and the invariants are proved from the `Flow` alone.
* `SharedSessionSurvivesAlways`, if `SharedStore`: the instances of one page on one store that answers in a microtask and keeps the whole pair it is given, no cookie, no lost reply, losers told `invalid_grant`, and nobody signs out or reloads.
  `SharedInv`: a pair that is alive is in the store, or with the one call that was granted it or is saving it (`SomeoneHolds`), that call is alone with it (`CarriesAlone`), a thread has one call on its way through the store (`OneAtStore`), a loser's pair is dead (`PostsHeld`),
  and what a call has read is still in the store when it resumes, so that it clears nothing alive (`ReadsStore`). So a loser finds the winner's pair when it polls, or finds it being saved.
* No hypothesis of the two is spare: TLC has a counterexample for each one dropped, with the others kept. `OnlyTheStoreRevives` fails with a cookie, with a store of two pages, and with overlapping sign-outs
  (the first to finish drops the flag, and a refresh starts in the wipe of the second); `SharedSessionSurvives` fails with a slow or failing store, one that keeps the refresh token alone, a cookie, a lost reply, a second page, a rejection worded "unauthenticated", a reload, and a logout.

**`HttpClientProofs`**
* `HttpTypeCorrect` and `ReplaySameUserAlways` without assumptions, the latter about bearers that can be read; `OneCascadeAlways`, `LatchNeedsVerdictAlways` and `RefreshIsASharedFlight`
  (every step is a step of `SharedFlight` or a stutter) with `~MidCascade`: no session is installed while `onUnauthorized` runs. The invariant `FlightInv` is the conjunction of
  `LeaderHolds`, `CascadeHolds`, `OneBusy`, `FlightHasLeader`, `QueueHasLeader` and `VerdictStands`: the two booleans
  of the client are tied to exactly one request that leads or cascades, which is what `resetAuthLatch` can break.

**`PostsProofs`**
* `PostsTypeCorrect`: TypeOK, with `RowInv` (a refresh is about a post; what is merged is about a post the server still has).
* `NobodyForgottenAlways`: no resolver is orphaned, for any number of overlapping batches, but by a batch whose reply is no list when no other that would serve it is out (`spoiled`).
* `PostsInvariant`: `EngInv` (a caller is in the queue *or* in the request, with all its posts there; the tracked timer is armed)
  and `SeenInv` (no caller has seen more than there is, and an answer is not older than what its callers saw).
  They are what the next two rest on: neither property mentions who is in which set, and without that nothing says
  the request that answers a caller was sent after it asked.
* `EngagementAttendedAlways`, if `~EmptyLists`: a caller that asks about no posts puts nothing in the queue and is stranded (§5).
* `AnsweredByLaterRequestAlways`: the action property, from `PostsInvariant` and one case per step.

**`CacheProofs`**
* `CacheTypeCorrect`, and `WipeIsFinalAlways`: for any tabs, tasks, posts, routes and capacity. `SealInv` says what a sealed database is: every fence up, no
  put waiting for a reopened connection, both stores empty. It is inductive because each write after an await either looks at the fence, updates only a row that is still
  there, or is the retry that `sealed` excludes; `SetTokens` is the only step that lifts a fence, and it breaks the seal.

**`ClientProofs`**, about the behaviours of `Client` that move the part in question
* `IdentityTypeCorrect`, and `NothingAcrossSignOutAlways` for every token provider, of any bounds in Nat (`Bounds`). The strengthening says of each place a header may come from that it is not
  older than what the tabs know: `FreshMemory` (a tab's context) and `FreshStorage` (the stored one) than the last sign-out a tab began or heard of, `FreshBearer` (what the provider would return) than the last one it has finished or heard of, with
  `HeardOuts` (no tab has finished a sign-out it has not begun, or heard of one that was not).
* `WritingTypeCorrect`, `AcceptedNeverFailsAlways`, `AnswerShowsWriteAlways`, for any number of calls, from one invariant, `WritesInv`. `WellFormed` is what the operations have in common, checked for each of them and kept by
  what is left of it: one asks first, writes or deletes once, and reads back only what it wrote. So a call that was accepted has nothing left to send that could be refused (`CallInv`), and
  what it has read, or will read, is its own version or a newer one, since versions only grow or end (`ShowsWrite`); without the part about what it *will* read, the answer of a read that is still out could be anything.
* `PagingTypeCorrect`, and `WalkIsWholeAlways` for any number of items, any page size and any of the seventeen endpoints. `ListInv` says what a walk has covered wherever it stands: what is due and newer than its cursor is
  in what it got (`Covers`), in the cached feed, which stands at the same cursor (`RowCovers`), and in a reply between its two cursors (`ReplyHolds`), whatever was posted, deleted or withheld since the reply was made; the row an append has read is still the cached one when it writes (`RowHolds`), one walk being under way. The pages taken are
  bounded by what is left above the cursor, so the walk ends (`Covers`, second part). A search goes by page number and has a strengthening of its own, `SearchInv`: what it got is the first pages of the list.
  There is no induction over sequences: sorting is by rank (the number of greater items) and leaving items out is by the rank of the places that stay, so what both return follows from facts on cardinalities (`Newest`, `SameCount`).
* `PayloadTypeCorrect` (`Clean`, `NoFn`, `ReadWell`: each setter of the normalisers keeps an object free of functions and of fields set to undefined), and with it `PartsTypeCorrect`: PartsTypeOK.
* `RoundTripAlways`, by `SentInv`: the document is exactly what was sent, what reading that gives, or what reading that again from the cache gives; and once read it shows what was sent. `GetTop`, `GetUser`, `GetStats` and `GetProfile` say what a
  lookup returns after all the setters of a normaliser; `PostKeys` and its like what each key of a raw document carries, given that no two fields share a key (`Apart`); together a reading finds each field under whichever key
  it came (`PostReadSent`). That a second reading changes nothing is a fact about filling in (`FilledTwice`, `MirrorTwice`: a name and its mirror settle at once; `SnakeTwice`: converted keys stay). A merged answer may
  change the reaction, and the rating only for the one that was sent (`PostMerged`).

**`MediaProofs`**
* `MediaTypeCorrect`: MediaTypeOK, in which `Multipart` has `PoolWorker` (who works has a part) and `Watching` has `ConnectInv` (one connection is made at a time,
  only without one, and an Echo that is not live has joined nothing). `WatchingTypeCorrect` is its second half, for `Watching` by itself.
* `CallsBackOnceAlways`, with `StoppedSettled` (who was stopped has settled).
* `EachPartOnceAlways` and `CompleteIsWholeAlways`, if `Patient`, the host's promise that `EachPartOnce` needs (§5). `OneBusy`: one call is under way, and a pool works only for a call
  that uploads or that has failed. `Pool`: a part is in the queue of its call or with one worker. `SessionInv`: while the session lives the client counts no part that the server lacks, and
  a call opens a session only while there has been none, so no later one takes the stored parts away. That the least part of a queue is in it (`FirstIsOne`)
  needs well-foundedness, which the library states for strict inclusion: the initial segments of the parts stand for them.

**`PeopleProofs`**
* `PeopleTypeCorrect`: TypeOK, whose first conjunct ties the queue to the resolvers: a user is in the batch if and only if somebody waits for it there. Inductive with `Subjects`
  (an operation is about a user or about a group, as its kind says, which is what lets a caller be put into a batch or into the map of GETs), for any batch size.
* `NobodyForgottenAlways`, by `HeldInv`: the batch and the requests list only callers that have asked (`Members`), a batch that has come to its evictions has nobody
  left who waits for it (`Settled`), and the map of GETs names requests that are out for just that group (`GetsListed`), or a caller that joins one would wait for nobody.
* `AnsweredFreshAlways`: `AskInv` (nobody has asked about a version later than the present one, and who reads or updates a group asks for one that exists) and `ServeInv` (a request serves callers that asked for what it is about,
  and its reply is not older than their questions) carry the question to its answer, through batches, shared GETs and the reading back of a write.
* `NullIsTrueAlways`: a tombstone is of somebody who once was gone or left out of a reply (`RightInv`), and so is whoever a reply leaves out (`ServeInv`). It says that failures make no tombstone, neither of a request nor of the cache;
  it does not say that the newest answer wins (§5).

**`ProfilesProofs`**
* `ProfilesTypeCorrect`: TypeOK, with `PlacedCall` (a call past the choice of its profile has one).
* `ActiveIsListedAlways`, `TabsAgreeAlways`, `RemovedStaysOutAlways`, if `OneAtATime`, from one invariant, `ListInv`. The condition: the host calls in one tab at a time, which has read
  the registry, and has one call on a profile (`Alone`); a tab reads the registry once at a time and not during its calls (`Quiet`); a tab that has not read what another saved does not save its own list for a session that expires (`Fresh`).
  What is left to overlap are calls on distinct profiles, expiries in any tab, syncs of the other tabs and page loads; §5 says what happens otherwise. `ListInv` says that the host's calls are in one tab, which has read
  the registry (`OneTab`), and those that add, switch to or remove a profile have one each (`OwnsOne`). So what a call found in the list before its awaits is still so when it saves
  (`FoundInv`: the record an add looked up, the profile a switch activates, the one a removal took out), no account is pushed twice and the active one is listed (`HealthInv`), and a tab that differs from the registry
  has a message to read or a removal that will save (`SharedInv`). Each property needs all of it: `HealthInv` alone is broken by an add whose record came to be listed meanwhile.

Only model-checked: the liveness properties and the fairness part of `SharesOneFlight` (out of the prover's reach), and the two violations. Every safety
property of the passing runs, invariant or action property, is a theorem.

## 5. Where code and comments disagree

Two runs have TLC find the shortest counterexample. `SessionAccountRace`:
`performRefreshToken` compares the refreshed pair with the tokens it *started* from; a login as somebody
else in between is overwritten by the earlier user's pair (`platformSdk.ts:1920`, against the comment at 1912–1915).
`SessionSlowStore`: a `restoreSession` whose store read precedes a logout and resumes after it installs the tokens that the logout dropped, for
`restoreStoredSession` (1078) never looks at the epoch; the comment at 1880–1881 has the guards of a sign-out keep it from doing so, and the one at 809–811 has stragglers defused. The same read
in front of a refresh is guarded no better. `OnlyTheStoreRevives` says that this, and a store that rejects its clear, are the only ways back.

Observed while modelling, by choosing other constants or by reading, and not the subject of a run.

*Session and headers.*
* A clear that rejects (1767–1777) leaves the ended pair in the store, and the next page load restores it.
* `logout` posts with the bearer it is about to drop (1750–1754), and nothing caps that POST (1752): while it hangs, `signOutInProgress` stays up and no refresh starts. A context that is set after
  `beginSignOut` dropped the old one (816–818) and before the tokens go survives into the next login.
* `resetAuthLatch` (`httpClient.ts:382`) lowers the latch but not `isRefreshing`, which stays up until `onUnauthorized` settles, while the queue was drained before:
  a 401 after a session is installed mid-cascade joins a queue nobody settles (`MidCascade = TRUE`). After the bearer was cleared a late 401 still asks
  `onRefreshTokens`, "only called when the server rejected the bearer the client still holds" (`httpClient.ts:30`).
* Two pages on *one* store: `OnlyTheStoreRevives` fails when a page persists a refreshed pair between the other page's wipe and
  the delivery of its broadcast, and `SharedSessionSurvives` fails across pages when the loser's rejection is worded "unauthenticated" or it polls the store before the winner's
  pair has landed; the comments at 1998–2011 acknowledge the latter. In cookie mode a refresh may pick up another account's cookie.
* Two overlapping sign-outs of an instance: the first to finish drops `signOutInProgress` (1774) while the second still revokes or wipes, although the comment at 691 has it up "until its cache wipe
  finished"; a refresh may then start under the wipe and resurrect the session. Hence the hypothesis `~Overlap` of three theorems.
* A login that completes during a wipe leaves the cache fenced until the next `setTokens` (885). A `clearSession` after a definitive
  rejection (2046) also ends a newer login. A refresh whose rotation was done but answered with an error retries with the spent token and loses the session. A revoke that fails leaves the cookie alive.
* The replay after a 401 keeps the acting header of its first send, across a sign-out and a login in between, although 816–818 says a context does not outlive the account; the
  properties of `Identity` are about first sends. A refused context clears whatever context is current, a newer one too (762). `isActing` ignores the stored context after a reload until
  `getActingContext` is called. A sign-out broadcast that arrives late removes a newer login's stored tokens and context; a tab that has not heard of a sign-out can store a context which another tab loads.

*Posts and engagement.*
* The reload of a post whose `updatedAt` moved (3771) goes through `fetchPostsBatch`, which finds the stale row in the cache and fetches nothing; `updateCachedEngagement` spreads the new
  `updatedAt` over the old body (7036–7039), after which the staleness check at 3698 finds the row fresh.
* `hashObject` (424) hands `JSON.stringify` the outer keys, which drops nested counts: an answer that changes only those is skipped as unchanged, although
  the comment at 3575–3580 and `tests/platformSdk.cache.test.js` (244, 294) speak of changed engagement. An answer that omits a hashed field is reported changed on every poll.
* `fetchEngagement([])` during a request is stranded: the comment at 3609 says its resolver "will be handled when it completes", but the re-flush at 3650
  runs only when ids are queued. `EmptyLists = TRUE` shows it.
* Overlapping post batches share their resolvers: an older batch may settle newer callers, and cache an older row over a newer or a deleted one. A batch whose chunk fails lets its posts vanish silently from a page
  (`allSettled`). A reply that is not an array returns before anybody is settled (2241): its callers wait until somebody else asks for the post and is answered, and an engagement request
  that reloads posts through such a batch keeps `engagementInFlight`, so that everybody who joins it waits as well. The properties of `Posts` name these callers as their exception.
* Repost's optimistic +1 may count twice and is then not reconciled, the hash being unchanged. The write-backs of repost, `votePoll` and `approvePost` put back a row that a deletion removed.
* `safeRead` and `safeWrite` rethrow errors that are no lost connection (quota), so `createPost` and `repost` may reject after the API accepted, against 414–416 of `cacheDB.ts`.
* `updateCurrentUser` while acting reads the "fresh" profile from the cache (1399–1403 against 5097), looks at `actingContext` again after the PATCH, and throws when the read fails although
  the PATCH was accepted; `updatePlaylist` (4411) and `updateGroup` throw likewise. All other record writes fall back on the response, and `AcceptedNeverFails` names the exceptions.
* `getRadioStation` decides by the first track alone whether to hydrate them; `getFeaturedArtists` drops profiles that left the cache meanwhile.

*Payloads and pages.*
* The root `name` of a post serves as song title and as author name; `RoundTrip` is about documents without that ambiguity. `sanitizeForStorage` makes `{}` of a Date where `sanitizeUserProfile` keeps
  a string.
* `fetchFeedPage` returns before `setFeedResource` on an empty first page (2363–2371, against 2347–2352), so the row of the last visit stays; a walk ends at the first empty page even with a cursor.
  `appendToFeedResource` (`cacheDB.ts:1032`) keeps the old cursor when the last page has none, so a reload fetches the last page twice. Two appends at once both extend the row they read, and the first is lost. A refresh of the first page while the next is out leaves a hole in the cached feed.
  Chat's `hasMore` is false for a page of unreadable messages that has a cursor; an offset search skips or repeats when the list changes; the full-page heuristic ends early when items are withheld. `WalkIsWhole` covers
  walks of cursors that the code can walk whole.

*Cache, people, profiles.*
* The retry of `safeWrite` (`cacheDB.ts:454–470`) does not look at the fence again: a put that waits for the reopened connection lands after the wipe. `WipeIsFinal` starts when none waits.
* The comment at 649–652 says a tombstone cannot outlive a newer row; an older batch or list may write in either order, so that somebody who was gone and came back may be answered with null. A profile batch whose reply is no list (5753) makes a tombstone of every user it asked for. Tombstones survive a change of account. An older GET of a group caches the row from before join or leave; an
  older batch overwrites a newer row. `dispose` leaves the callers of the batch waiting.
* `hydrate` checks whose a bearer is only when it differs from the one before (`sessionManager.ts` 818–825). The
  registry is read, changed and written without a lock, and nothing keeps the calls of a manager apart, so without `OneAtATime` all three properties of `Profiles` fail: two calls on one profile (an add looks
  up the record that a removal takes out), a sync amid a call (it replaces the records the call holds, 615), two syncs of a tab whose reads are answered out of order, a tab that saves its own list for an expired session (743–748)
  before it has read what another tab removed, and work in two tabs at once.

*Uploads and realtime.*
* Two starts that meet between the guard and the flag upload parts twice (`Patient = FALSE`). So does a `pause` followed by `resume` at once, as the class documentation shows (247–250): the old workers go on beside the new, and the old call fails
  when its requests are aborted. `EachPartOnce` is about hosts that wait for the old call to settle. An abort before the URLs are there is undone by `aborted = false`; a worker that refreshed a URL sends its part after an abort.
  `resume` sets `partSize` but not `totalParts`. `completePart` is not awaited (`multipartUpload.ts:453`), so completion may be posted while the server still hears of parts.
* `uploadDirect` (2820) has neither timeout nor watchdog. The multipart branch of `uploadMediaFile` resolves with the client's key, not the server's.
* `disconnect` during `connect` is a no-op: the connection that resolves is kept (`realtime.ts:164`).

## 6. Not modelled, and why

Within modelled components: URL and body construction, the wording of errors, logging, timeouts of single requests; passkey, magic-link and OAuth details beyond "a login is granted or refused"; in `Posts`
the chunks of 40, prefetching of media and `dispose`; in `Cache` notification feeds and metadata (plain rows), live observers, and the tables of users and groups, whose races are in `People`; in `People`
user names, members, roles and featured artists; in `Profiles` `signOutAll` (a removal per profile), `dispose` and the order by `lastActiveAt` (which profile a removal promotes is left open); in
`Payloads` the readers that rename one key; in `Watching` presence members and what Echo and Pusher do inside. An entry's LRU metadata matters only through expiry and trimming.

Not modelled at all: blob store and persister (storage adapters whose chains are sequential; `Session` has a store that hangs, fails and lands late), media helpers (pure functions of URLs and MIME types), types and exports
(declarations), and the several hundred REST wrappers that send one request and return its answer: they keep no state, and what may happen to a request is in `HttpClient` and `Identity`.

## 7. Plan

1. *Done*: `Session`, `HttpClient` with `SharedFlight`, `Posts`, `Cache`, `Profiles`, `Multipart`, `Watching`, `Media`, `People`, `Payloads`, `Pages`, `Writes`, `Identity`, and `Client`; the proofs of §4, which reach every safety property of the passing runs.
2. Model: notification feeds in `Cache`, featured artists and members in `People`.
