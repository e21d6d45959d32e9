------------------------------ MODULE MediaJob ------------------------------
(***************************************************************************)
(* What the ingestion handlers of media have in common: several jobs for   *)
(* one source (a video, an episode, a file, a page), each run by the       *)
(* worker as often as it is requeued, each run resuming from the job's     *)
(* stage checkpoints and its scratch directory.  What outlives a run is    *)
(* the database (checkpoints, the documents row) and the file system       *)
(* (scratch files, vault files); what is lost is `text`, the text in the   *)
(* handler's hands.                                                        *)
(*                                                                         *)
(* The queue is the one of JobQueue reduced to what a handler sees: a      *)
(* claim is exclusive, a retryable failure requeues up to a limit, an open *)
(* circuit requeues for free, and a run whose process dies is not resumed  *)
(* (its row is failed by the watchdog).  YouTubeIngest, PodcastIngest,     *)
(* VideoIngest and ArticleIngest have the stages of each handler.          *)
(***************************************************************************)
EXTENDS Naturals, FiniteSets

CONSTANTS
    Job,            \* jobs of one kind submitted for the same source
    Captured,       \* those that run inside a capture job: the dispatcher hands
                    \* the handler no _job_id, so it has no checkpoints
    MaxRunning,     \* worker processes
    MaxAttempts,    \* _MAX_RETRY_ATTEMPTS
    Transcript,     \* texts Whisper may make of the audio, or a page yield
    Published       \* the text published with it: captions, RSS transcript

ASSUME MediaAssumption ==
    /\ Captured \subseteq Job
    /\ MaxRunning \in Nat
    /\ MaxAttempts \in Nat \ {0}
    /\ Published \notin Transcript
    /\ "nobody" \notin Job

ASSUME TextAssumption == "no text" \notin Transcript \cup {Published}

VARIABLES
    media,      \* the kind of the jobs; it selects the handler
    job,        \* the job_queue rows
    pc,         \* where the run of each job is in its handler
    text,       \* what the run has read: what is said and what is shown
    done,       \* stages with a complete row in job_stage_checkpoints
    stored,     \* output stored with captions_attempted / ocr_done: is it of use
    scratch,    \* the job's stage_cache_dir: the wav, the transcript's text
    vault,      \* jobs that have written a file under captures/
    doc,        \* the documents row for the source, unique by source_id
    work,       \* history: how often each stage's work was done for the job
    cleaned     \* history: jobs whose scratch directory was removed meanwhile

mediaVars == <<media, job, pc, text, done, stored, scratch, vault, doc, work, cleaned>>

\* Everything a run reads and writes besides its place and the shared tables.
progress == <<text, done, stored, scratch, work>>
shared == <<media, vault, doc, cleaned>>

Media == {"youtube", "podcast", "video", "article"}

\* The stages whose work is paid for and recorded.
Stage == {"metadata_fetched", "captions_attempted", "audio_downloaded", "transcribed",
          "transcript_obtained", "metadata_extracted", "hash_computed",
          "audio_extracted", "ocr_done", "summarized"}
PC == Stage \cup {"out", "start", "dedupe", "fetch", "combine", "hash", "vault",
                  "insert", "doc_written", "embed", "return"}

NoText == "no text"
NoDoc == [by |-> "nobody"]
Said == Transcript \cup {Published, NoText}
Text == [said : Said, shown : BOOLEAN]
Silence == [said |-> NoText, shown |-> FALSE]
Speech(t) == [said |-> t, shown |-> FALSE]
EmptyScratch == [wav |-> FALSE, transcript |-> NoText]

MediaTypeOK ==
    /\ media \in Media
    /\ job \in [Job -> [status : {"new", "queued", "running", "complete", "failed"},
                        attempts : 0..MaxAttempts]]
    /\ pc \in [Job -> PC]
    /\ text \in [Job -> Text]
    /\ done \in [Job -> SUBSET (Stage \cup {"doc_written"})]
    /\ stored \in [Job -> BOOLEAN]
    /\ scratch \in [Job -> [wav : BOOLEAN, transcript : Said]]
    /\ vault \subseteq Job
    /\ doc \in [by : Job, text : Text, status : {"ingesting", "embedded"}] \cup {NoDoc}
    /\ work \in [Job -> [Stage -> Nat]]
    /\ cleaned \subseteq Job

MediaInit ==
    /\ media \in Media
    /\ job = [j \in Job |-> [status |-> "new", attempts |-> 0]]
    /\ pc = [j \in Job |-> "out"]
    /\ text = [j \in Job |-> Silence]
    /\ done = [j \in Job |-> {}]
    /\ stored = [j \in Job |-> FALSE]
    /\ scratch = [j \in Job |-> EmptyScratch]
    /\ vault = {}
    /\ doc = NoDoc
    /\ work = [j \in Job |-> [s \in Stage |-> 0]]
    /\ cleaned = {}

-----------------------------------------------------------------------------
(* The queue.                                                              *)

SubmitMedia(j) ==
    /\ job[j].status = "new"
    /\ job' = [job EXCEPT ![j].status = "queued"]
    /\ UNCHANGED <<pc, progress, shared>>

ClaimMedia(j) ==
    /\ job[j].status = "queued"
    /\ Cardinality({i \in Job : pc[i] # "out"}) < MaxRunning
    /\ job' = [job EXCEPT ![j].status = "running", ![j].attempts = @ + 1]
    /\ pc' = [pc EXCEPT ![j] = "start"]
    /\ UNCHANGED <<progress, shared>>

\* The run is over; what it held in memory is gone.
Leave(j, status, attempts) ==
    /\ job' = [job EXCEPT ![j].status = status, ![j].attempts = attempts]
    /\ pc' = [pc EXCEPT ![j] = "out"]
    /\ text' = [text EXCEPT ![j] = Silence]

\* The handler returned: complete, and purge_for_job clears rows and scratch.
Return(j) ==
    /\ Leave(j, "complete", job[j].attempts)
    /\ done' = [done EXCEPT ![j] = {}]
    /\ scratch' = [scratch EXCEPT ![j] = EmptyScratch]
    /\ UNCHANGED <<stored, work, shared>>

\* Without a job id the files are in a TemporaryDirectory of the run.
ScratchAfterRun(j) ==
    [scratch EXCEPT ![j] = IF j \in Captured THEN EmptyScratch ELSE @]

Fail(j) ==
    /\ Leave(j, "failed", job[j].attempts)
    /\ scratch' = ScratchAfterRun(j)
    /\ UNCHANGED <<done, stored, work, shared>>

Requeue(j, attempts) ==
    /\ Leave(j, "queued", attempts)
    /\ scratch' = ScratchAfterRun(j)
    /\ UNCHANGED <<done, stored, work, shared>>

\* Mutant: a retryable failure is requeued without limit.
RaiseRetryableForever(j) == Requeue(j, job[j].attempts - 1)

\* RetryableHandlerError.
RaiseRetryable(j) ==
    IF job[j].attempts < MaxAttempts THEN Requeue(j, job[j].attempts) ELSE Fail(j)

\* The worker dies, or the run hangs until its row is failed.
Die(j) == pc[j] # "out" /\ Fail(j)

\* Somebody clears the stage cache: the files are only a cache.
CleanScratch(j) ==
    /\ scratch[j] # EmptyScratch
    /\ scratch' = [scratch EXCEPT ![j] = EmptyScratch]
    /\ cleaned' = cleaned \cup {j}
    /\ UNCHANGED <<media, job, pc, text, done, stored, vault, doc, work>>

-----------------------------------------------------------------------------
(* Steps of a handler.                                                     *)

GoTo(j, step) ==
    /\ pc' = [pc EXCEPT ![j] = step]
    /\ UNCHANGED <<job, shared>>

\* Mutant: the scratch files are in a directory that dies with the process.
HasOutputInMemoryOnly(j, s) ==
    s \in done[j] /\ s \notin {"audio_downloaded", "transcribed"}

\* A checkpoint whose scratch file is gone does not count.
HasOutput(j, s) ==
    /\ s \in done[j]
    /\ s \in {"audio_downloaded", "audio_extracted"} => scratch[j].wav
    /\ s \in {"transcribed", "transcript_obtained"} => scratch[j].transcript # NoText

\* Checkpointer.complete, which does nothing without a job id.
Complete(j, s) == done' = [done EXCEPT ![j] = IF j \in Captured THEN @ ELSE @ \cup {s}]

Finished(j, s) ==
    /\ Complete(j, s)
    /\ work' = [work EXCEPT ![j][s] = @ + 1]

\* A stage that is skipped when its checkpoint is there, and leaves no file.
Record(j, s) == IF HasOutput(j, s) THEN UNCHANGED <<done, work>> ELSE Finished(j, s)

\* A stage that makes the wav, unless it is there.
MakeWav(j, s) ==
    IF HasOutput(j, s) THEN UNCHANGED <<done, work, scratch>>
    ELSE Finished(j, s) /\ scratch' = [scratch EXCEPT ![j].wav = TRUE]

\* Whisper reads the wav and its text goes to the scratch directory before its
\* checkpoint; a run interrupted between the two starts Whisper again.
Whisper(j, s) ==
    /\ scratch[j].wav
    /\ \E t \in Transcript :
        /\ text' = [text EXCEPT ![j].said = t]
        /\ scratch' = [scratch EXCEPT ![j].transcript = t]
    /\ Finished(j, s)
    /\ UNCHANGED stored

\* Mutant: a source counts as ingested once the vault has a file for it.
AlreadyIngestedTooBroad == doc # NoDoc \/ vault # {}

\* "already ingested": a row with this (content_type, source_id).
AlreadyIngested == doc # NoDoc

DedupeThen(j, step) ==
    /\ pc[j] = "dedupe"
    /\ IF AlreadyIngested THEN Return(j) ELSE GoTo(j, step) /\ UNCHANGED progress

\* summarize_capture; its failures count as "skipped".
Summarize(j) ==
    /\ pc[j] = "summarized"
    /\ GoTo(j, "hash")
    /\ Record(j, "summarized")
    /\ UNCHANGED <<text, stored, scratch>>

\* A document with the same content_hash, under this or another URL.
CheckHash(j) ==
    /\ pc[j] = "hash"
    /\ IF doc # NoDoc /\ doc.text = text[j] THEN Return(j)
       ELSE GoTo(j, "vault") /\ UNCHANGED progress

\* Mutant: the file is left for later.
SkipVaultFile(j) ==
    /\ pc[j] = "vault"
    /\ pc' = [pc EXCEPT ![j] = "insert"]
    /\ UNCHANGED <<job, progress, shared>>

WriteVaultFile(j) ==
    /\ pc[j] = "vault"
    /\ vault' = vault \cup {j}
    /\ pc' = [pc EXCEPT ![j] = "insert"]
    /\ UNCHANGED <<media, job, progress, doc, cleaned>>

NewDocument(j) == [by |-> j, text |-> text[j], status |-> "ingesting"]

\* Mutant: INSERT OR REPLACE instead of INSERT.
InsertOrReplaceThen(j, step) ==
    /\ pc[j] = "insert"
    /\ doc' = NewDocument(j)
    /\ pc' = [pc EXCEPT ![j] = step]
    /\ UNCHANGED <<media, job, progress, vault, cleaned>>

\* A row for the same source_id or content_hash raises IntegrityError.
InsertThen(j, step) ==
    /\ pc[j] = "insert"
    /\ IF doc # NoDoc THEN Fail(j)
       ELSE /\ doc' = NewDocument(j)
            /\ pc' = [pc EXCEPT ![j] = step]
            /\ UNCHANGED <<media, job, progress, vault, cleaned>>

RecordDocumentThen(j, step) ==
    /\ pc[j] = "doc_written"
    /\ Complete(j, "doc_written")
    /\ GoTo(j, step)
    /\ UNCHANGED <<text, stored, scratch, work>>

\* embed_document commits chunks, vectors and status in one transaction.
EmbedThen(j, step) ==
    /\ pc[j] = "embed"
    /\ doc' = [doc EXCEPT !.status = "embedded"]
    /\ pc' = [pc EXCEPT ![j] = step]
    /\ UNCHANGED <<media, job, progress, vault, cleaned>>

\* CircuitOpenError: requeued, the attempt given back.
EmbedCircuitOpen(j) ==
    /\ pc[j] = "embed"
    /\ Requeue(j, job[j].attempts - 1)

ReturnResult(j) == pc[j] = "return" /\ Return(j)

\* The file cannot be written, or Ollama fails in another way.
StoreFails(j) == pc[j] \in {"vault", "embed"} /\ Fail(j)

\* The end of every handler, whatever its stages were.
Finish(j) ==
    \/ WriteVaultFile(j) \/ EmbedCircuitOpen(j) \/ ReturnResult(j) \/ StoreFails(j)
=============================================================================
