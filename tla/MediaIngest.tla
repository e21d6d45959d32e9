---------------------------- MODULE MediaIngest ----------------------------
(***************************************************************************)
(* The handlers of media under the worker, one kind at a time, and what    *)
(* they have to get right together: IngestPromise, and what their          *)
(* checkpoints are relied on for.                                          *)
(***************************************************************************)
EXTENDS YouTubeIngest, PodcastIngest, VideoIngest, ArticleIngest

Handle(j) ==
    \/ media = "youtube" /\ YouTubeHandle(j)
    \/ media = "podcast" /\ PodcastHandle(j)
    \/ media = "video" /\ VideoHandle(j)
    \/ media = "article" /\ ArticleHandle(j)

MediaNext ==
    \E j \in Job : SubmitMedia(j) \/ ClaimMedia(j) \/ Handle(j) \/ Die(j) \/ CleanScratch(j)

MediaSpec == MediaInit /\ [][MediaNext]_mediaVars

\* The worker polls and a handler's next step comes (or its row is failed).
MediaFairSpec ==
    /\ MediaSpec
    /\ \A j \in Job : WF_mediaVars(ClaimMedia(j)) /\ WF_mediaVars(Handle(j))

-----------------------------------------------------------------------------
\* What a checkpoint says was done is not done again by any later run of the
\* job, unless its scratch directory was cleared or it has no checkpoints:
\* nothing is fetched, downloaded, hashed or transcribed twice over retries and
\* circuit requeues.
NoRework ==
    \A j \in Job \ (cleaned \cup Captured), s \in Stage : work[j][s] <= 1

\* A transcript that was paid for and recorded is in the document the job
\* inserts: no failure of a later stage, none of those video.py swallows and
\* no requeue between Whisper and the insert loses it.
TranscriptIsUsed ==
    \A j \in Job :
        (doc # NoDoc /\ scratch[j].transcript # NoText) =>
            (doc.by = j => doc.text.said = scratch[j].transcript)

\* A doc_written checkpoint, on which youtube.py and article.py rely without
\* looking, names a document that is there and that this very job inserted,
\* whatever other jobs for the source did meanwhile.
CheckpointNamesOwnDocument ==
    \A j \in Job : "doc_written" \in done[j] => doc # NoDoc /\ doc.by = j

\* raw_path of the document points to a file: the vault is written first, so a
\* crash between the two leaves a stray file, never a dangling row.
DocumentHasVaultFile == doc # NoDoc => doc.by \in vault

\* Every job ends, however often the circuit is open and whatever other jobs do.
MediaJobEnds ==
    \A j \in Job : job[j].status = "queued" ~> job[j].status \in {"complete", "failed"}

\* "a handler calling for_payload(conn, payload, attempt) gets an enabled
\* checkpointer in production": not under _capture_handler, where a retry
\* starts from nothing.
NoReworkInProduction ==
    \A j \in Job \ cleaned, s \in Stage : work[j][s] <= 1

\* "put the job back in 'queued' so it picks up again after the cooldown
\* naturally heals the breaker" (poll_once), and then the document is embedded:
\* not so, the next run returns at the row or the checkpoint of the first.
CompleteIsEmbedded ==
    \A j \in Job : job[j].status = "complete" => doc # NoDoc /\ doc.status = "embedded"

Promise == INSTANCE IngestPromise WITH
    Nobody <- "nobody",
    request <- [j \in Job |-> job[j].status],
    author <- doc.by,
    embedded <- doc # NoDoc /\ doc.status = "embedded"

\* Each handler keeps the promise: one document per source, inserted and
\* embedded by one job in that order, and no success without a document,
\* whichever of its early returns a run takes.
ImplementsPromise == Promise!PromiseSpec
=============================================================================
