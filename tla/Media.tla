-------------------------------- MODULE Media --------------------------------
(***************************************************************************)
(* A video on its way: the page uploads the file (uploadMediaFile), in one  *)
(* request when it is small and in parts when it is not (Multipart), lets   *)
(* go of the upload when it is complete, posts the video, and waits for the *)
(* post to be processed (Watching).                                        *)
(***************************************************************************)
EXTENDS Multipart

CONSTANTS Watchers, Channels, ChannelOf, MaxPolls, MaxEchoes, None

ASSUME ChannelAssumption == ChannelOf \in [Watchers -> Channels]
ASSUME PollAssumption == MaxPolls \in Nat /\ MaxEchoes \in Nat /\ None \notin Nat

VARIABLES watch, polls, late, onDone, stopped,
          echo, live, connecting, subscriptions, joined, listening,
          direct,  \* where the upload of a small file is, "no" for a large one
          posted   \* the upload is done and its post is watched

W == INSTANCE Watching

watching == <<watch, polls, late, onDone, stopped,
              echo, live, connecting, subscriptions, joined, listening>>
allVars == <<vars, watching, direct, posted>>

\* The threshold of ten megabytes decides.
MediaInit == Init /\ W!Init /\ direct \in {"no", "start"} /\ posted = FALSE

\* The parts of a large file.
Upload == direct = "no" /\ ~posted /\ Next /\ UNCHANGED <<watching, direct, posted>>

-----------------------------------------------------------------------------
\* A small file: a presigned URL, and one PUT.

DirectStep(from, to) ==
    direct = from /\ direct' = to /\ UNCHANGED <<vars, watching, posted>>

GetPresignedUploadUrl == DirectStep("start", "put")
NoPresignedUrl == DirectStep("start", "failed")
PutStored == DirectStep("put", "stored")      \* the server's answer is on its way
PutRefused == DirectStep("put", "refused")

\* onload: the status decides.  onerror and onabort: the bytes may be stored.
PutLoaded == DirectStep("stored", "done") \/ DirectStep("refused", "failed")
PutBroken == \E from \in {"put", "stored", "refused"} : DirectStep(from, "failed")

UploadDirect == GetPresignedUploadUrl \/ NoPresignedUrl \/ PutStored \/ PutRefused
                \/ PutLoaded \/ PutBroken

-----------------------------------------------------------------------------
\* The host waited for the call that completed the upload; the object is
\* garbage from here on.
CreatePost ==
    /\ ~posted
    /\ \/ direct = "done"
       \/ /\ \E r \in Runs : start[r] = "done" /\ ~aborted /\ ~Running(r)
          /\ \A r \in Runs : start[r] \in Settled /\ ~Running(r)
    /\ posted' = TRUE
    /\ known' = FALSE /\ uploadedParts' = {} /\ uploading' = FALSE /\ aborted' = FALSE
    /\ start' = [r \in Runs |-> "done"] /\ uploadQueue' = [r \in Runs |-> {}]
    /\ worker' = [r \in Runs |-> Off] /\ online' = TRUE /\ drops' = 0
    /\ stored' = {} /\ alive' = FALSE /\ leaving' = FALSE /\ direct' = "no"
    /\ UNCHANGED watching

WatchPost == posted /\ W!Next /\ UNCHANGED <<vars, direct, posted>>

MediaNext == Upload \/ UploadDirect \/ CreatePost \/ WatchPost
MediaSpec == MediaInit /\ [][MediaNext]_allVars /\ Fairness /\ W!Fairness

-----------------------------------------------------------------------------
\* Properties: Multipart's, and what Watching promises, under this specification.

\* Type invariant.
MediaTypeOK ==
    /\ TypeOK /\ W!TypeOK
    /\ direct \in {"no", "start", "put", "stored", "refused", "done", "failed"}
    /\ posted \in BOOLEAN

\* A watch calls back once when it has an outcome and never when stopped.
CallsBackOnce == W!CallsBackOnce

\* A watch ends, also when the post is never processed.
WatchSettles == W!WatchSettles
=============================================================================
