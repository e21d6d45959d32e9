--------------------------- MODULE PodcastIngest ---------------------------
(***************************************************************************)
(* handle_podcast_ingest: a transcript from the RSS feed, or else from     *)
(* Whisper.  Every failure on the way to Whisper is worth a retry, none of *)
(* the feed's is an error.  The document is recorded before it is embedded *)
(* and its checkpoint counts only while the row is there.                  *)
(***************************************************************************)
EXTENDS MediaJob

PodcastStart(j) ==
    /\ pc[j] = "start"
    /\ IF "doc_written" \in done[j] /\ doc # NoDoc THEN Return(j)
       ELSE GoTo(j, "dedupe") /\ UNCHANGED progress

\* The text of an earlier attempt, if its file is still there.
ReuseTranscript(j) ==
    /\ pc[j] = "transcript_obtained"
    /\ HasOutput(j, "transcript_obtained")
    /\ text' = [text EXCEPT ![j].said = scratch[j].transcript]
    /\ GoTo(j, "metadata_extracted")
    /\ UNCHANGED <<done, stored, scratch, work>>

\* _try_rss_transcript finds one; it is kept like Whisper's.
RssTranscript(j) ==
    /\ pc[j] = "transcript_obtained"
    /\ ~HasOutput(j, "transcript_obtained")
    /\ text' = [text EXCEPT ![j].said = Published]
    /\ scratch' = [scratch EXCEPT ![j].transcript = Published]
    /\ Finished(j, "transcript_obtained")
    /\ GoTo(j, "metadata_extracted")
    /\ UNCHANGED stored

\* No feed, no episode, no transcript, or an exception: all the same, and so
\* for a Pocket Casts link that is resolved to its audio first.
NoRssTranscript(j) ==
    /\ pc[j] = "transcript_obtained"
    /\ ~HasOutput(j, "transcript_obtained")
    /\ GoTo(j, "audio_downloaded")
    /\ UNCHANGED progress

DownloadEpisode(j) ==
    /\ pc[j] = "audio_downloaded"
    /\ GoTo(j, "transcribed")
    /\ MakeWav(j, "audio_downloaded")
    /\ UNCHANGED <<text, stored>>

\* What Whisper says is recorded as transcript_obtained; "transcribed" is only
\* the place.
TranscribeEpisode(j) ==
    /\ pc[j] = "transcribed"
    /\ Whisper(j, "transcript_obtained")
    /\ GoTo(j, "metadata_extracted")

\* _whisper_fallback turns every exception into a RetryableHandlerError, unless
\* it has no job id: then the job is failed.
WhisperFallbackFails(j) ==
    /\ \/ pc[j] = "audio_downloaded" /\ ~HasOutput(j, "audio_downloaded")
       \/ pc[j] = "transcribed"
    /\ IF j \in Captured THEN Fail(j) ELSE RaiseRetryable(j)

\* Whisper hears nothing, or the text cannot be written: the job is failed.
NoTranscript(j) ==
    /\ pc[j] = "transcribed"
    /\ scratch[j].wav
    /\ Fail(j)

ExtractMetadata(j) ==
    /\ pc[j] = "metadata_extracted"
    /\ GoTo(j, "summarized")
    /\ Record(j, "metadata_extracted")
    /\ UNCHANGED <<text, stored, scratch>>

PodcastHandle(j) ==
    \/ PodcastStart(j) \/ DedupeThen(j, "transcript_obtained")
    \/ ReuseTranscript(j) \/ RssTranscript(j) \/ NoRssTranscript(j)
    \/ DownloadEpisode(j) \/ TranscribeEpisode(j) \/ WhisperFallbackFails(j)
    \/ NoTranscript(j) \/ ExtractMetadata(j)
    \/ Summarize(j) \/ CheckHash(j) \/ InsertThen(j, "doc_written")
    \/ RecordDocumentThen(j, "embed") \/ EmbedThen(j, "return") \/ Finish(j)
=============================================================================
