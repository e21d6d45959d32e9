--------------------------- MODULE YouTubeIngest ---------------------------
(***************************************************************************)
(* handle_youtube_ingest: metadata, captions, and Whisper when there are   *)
(* no usable captions.  The document is recorded before it is embedded.    *)
(***************************************************************************)
EXTENDS MediaJob

YouTubeStart(j) ==
    /\ pc[j] = "start"
    /\ IF "doc_written" \in done[j] THEN Return(j)
       ELSE GoTo(j, "dedupe") /\ UNCHANGED progress

\* What the run holds, and where it goes, once it is known whether the
\* captions are usable.
Obtained(j, usable) ==
    IF usable THEN Published
    ELSE IF HasOutput(j, "transcribed") THEN scratch[j].transcript ELSE NoText

AfterCaptions(j, usable) ==
    IF Obtained(j, usable) = NoText THEN "audio_downloaded" ELSE "summarized"

FetchMetadata(j) ==
    /\ pc[j] = "metadata_fetched"
    /\ GoTo(j, "captions_attempted")
    /\ Record(j, "metadata_fetched")
    /\ UNCHANGED <<text, stored, scratch>>

AttemptCaptions(j) ==
    /\ pc[j] = "captions_attempted"
    /\ \E usable \in BOOLEAN :
        /\ HasOutput(j, "captions_attempted") => usable = stored[j]
        /\ stored' = [stored EXCEPT ![j] = usable]
        /\ text' = [text EXCEPT ![j].said = Obtained(j, usable)]
        /\ GoTo(j, AfterCaptions(j, usable))
    /\ Record(j, "captions_attempted")
    /\ UNCHANGED scratch

DownloadAudio(j) ==
    /\ pc[j] = "audio_downloaded"
    /\ GoTo(j, "transcribed")
    /\ MakeWav(j, "audio_downloaded")
    /\ UNCHANGED <<text, stored>>

Transcribe(j) ==
    /\ pc[j] = "transcribed"
    /\ Whisper(j, "transcribed")
    /\ GoTo(j, "summarized")

\* A stage that is not skipped may fail: all but Whisper's are yt-dlp calls.
CanFail(j) ==
    /\ pc[j] \in {"metadata_fetched", "captions_attempted", "audio_downloaded", "transcribed"}
    /\ HasOutput(j, pc[j]) => pc[j] = "transcribed"

\* yt-dlp or Whisper fail in a way worth retrying, or not.
TransientFailure(j) == CanFail(j) /\ RaiseRetryable(j)

PermanentFailure(j) == CanFail(j) /\ Fail(j)

YouTubeHandle(j) ==
    \/ YouTubeStart(j) \/ DedupeThen(j, "metadata_fetched")
    \/ FetchMetadata(j) \/ AttemptCaptions(j) \/ DownloadAudio(j) \/ Transcribe(j)
    \/ TransientFailure(j) \/ PermanentFailure(j)
    \/ Summarize(j) \/ CheckHash(j) \/ InsertThen(j, "doc_written")
    \/ RecordDocumentThen(j, "embed") \/ EmbedThen(j, "return") \/ Finish(j)
=============================================================================
