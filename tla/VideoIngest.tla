---------------------------- MODULE VideoIngest ----------------------------
(***************************************************************************)
(* handle_video_ingest: a file, its audio through Whisper and the text on  *)
(* its frames through OCR.  Either may be missing, not both: a failure     *)
(* that does not look transient loses that half of the text and goes on.   *)
(* The file's own hash identifies the document, whatever text comes out,   *)
(* and the document is embedded before it is recorded.                     *)
(***************************************************************************)
EXTENDS MediaJob

VideoStart(j) ==
    /\ pc[j] = "start"
    /\ IF "doc_written" \in done[j] /\ doc # NoDoc THEN Return(j)
       ELSE GoTo(j, "hash_computed") /\ UNCHANGED progress

\* The file is missing, of another type, or cannot be read or measured.
VideoUnreadable(j) ==
    /\ pc[j] \in {"start", "hash_computed", "ocr_done"}
    /\ Fail(j)

ComputeHash(j) ==
    /\ pc[j] = "hash_computed"
    /\ GoTo(j, "dedupe")
    /\ Record(j, "hash_computed")
    /\ UNCHANGED <<text, stored, scratch>>

ExtractAudio(j) ==
    /\ pc[j] = "audio_extracted"
    /\ GoTo(j, "transcribed")
    /\ MakeWav(j, "audio_extracted")
    /\ UNCHANGED <<text, stored>>

ReuseVideoTranscript(j) ==
    /\ pc[j] = "transcribed"
    /\ HasOutput(j, "transcribed")
    /\ text' = [text EXCEPT ![j].said = scratch[j].transcript]
    /\ GoTo(j, "ocr_done")
    /\ UNCHANGED <<done, stored, scratch, work>>

TranscribeVideo(j) ==
    /\ pc[j] = "transcribed"
    /\ ~HasOutput(j, "transcribed")
    /\ Whisper(j, "transcribed")
    /\ GoTo(j, "ocr_done")

\* Mutant: the transcript of an earlier attempt may be dropped as well.
StillToDoOrNot(j) == pc[j] \in {"audio_extracted", "transcribed", "ocr_done"}

\* A stage that is still to be done fails.
StillToDo(j) ==
    /\ pc[j] \in {"audio_extracted", "transcribed", "ocr_done"}
    /\ ~HasOutput(j, pc[j])

\* _looks_transient.
LooksTransient(j) == StillToDo(j) /\ RaiseRetryable(j)

\* "swallow; we may still get usable OCR text": the run goes on without, as it
\* does when Whisper hears nothing.
GoOnWithout(j) ==
    /\ StillToDo(j)
    /\ GoTo(j, IF pc[j] = "ocr_done" THEN "combine" ELSE "ocr_done")
    /\ UNCHANGED progress

\* The frames' text is stored in the checkpoint itself; a file above the size
\* limit stores none.
ReadFrames(j) ==
    /\ pc[j] = "ocr_done"
    /\ \E found \in BOOLEAN :
        /\ HasOutput(j, "ocr_done") => found = stored[j]
        /\ stored' = [stored EXCEPT ![j] = found]
        /\ text' = [text EXCEPT ![j].shown = found]
    /\ GoTo(j, "combine")
    /\ Record(j, "ocr_done")
    /\ UNCHANGED scratch

\* No transcript and no text on the frames is an error; a summary, which no
\* checkpoint keeps, is optional.
Combine(j) ==
    /\ pc[j] = "combine"
    /\ IF text[j] = Silence THEN Fail(j) ELSE GoTo(j, "vault") /\ UNCHANGED progress

VideoHandle(j) ==
    \/ VideoStart(j) \/ VideoUnreadable(j) \/ ComputeHash(j)
    \/ DedupeThen(j, "audio_extracted")
    \/ ExtractAudio(j) \/ ReuseVideoTranscript(j) \/ TranscribeVideo(j)
    \/ LooksTransient(j) \/ GoOnWithout(j) \/ ReadFrames(j) \/ Combine(j)
    \/ InsertThen(j, "embed") \/ EmbedThen(j, "doc_written")
    \/ RecordDocumentThen(j, "return") \/ Finish(j)
=============================================================================
