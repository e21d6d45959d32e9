------------------------- MODULE MediaIngestProofs -------------------------
(***************************************************************************)
(* The handlers of MediaIngest keep IngestPromise, and what the documents  *)
(* row and the checkpoints say is true and not worked for again, for any   *)
(* number of jobs, workers and attempts.                                   *)
(***************************************************************************)
EXTENDS MediaIngest, TLAPS

\* The job inserted the source's document.
Inserted(j) == doc # NoDoc /\ doc.by = j

\* Where a run is says what it has done, and its row is running.
PlaceOK ==
    \A j \in Job :
        /\ pc[j] # "out" <=> job[j].status = "running"
        /\ pc[j] = "insert" => j \in vault
        /\ pc[j] \in {"doc_written", "embed", "return"} => Inserted(j)

\* A claim counts an attempt, and a job that may still be claimed has one left.
AttemptsOK ==
    \A j \in Job :
        /\ job[j].status \in {"new", "queued"} => job[j].attempts < MaxAttempts
        /\ job[j].status = "running" => job[j].attempts > 0

MediaInv ==
    /\ MediaTypeOK
    /\ PlaceOK
    /\ AttemptsOK
    /\ CheckpointNamesOwnDocument
    /\ DocumentHasVaultFile

-----------------------------------------------------------------------------
(* Two kinds of step cover all but a few actions: a step within a run, and *)
(* the end of a run.                                                       *)

\* What a step of j's run may do to what the job keeps.
Effect(j) ==
    /\ text' \in [Job -> Text]
    /\ stored' \in [Job -> BOOLEAN]
    /\ scratch' \in [Job -> [wav : BOOLEAN, transcript : Said]]
    /\ work' \in [Job -> [Stage -> Nat]]
    /\ done' \in [Job -> SUBSET (Stage \cup {"doc_written"})]
    /\ \A i \in Job : "doc_written" \in done'[i] =>
            "doc_written" \in done[i] \/ (i = j /\ Inserted(j))

\* The places of a run that ask for nothing but the row to be running.
Free == PC \ {"out", "insert", "doc_written", "embed", "return"}

\* A step keeps the invariant and is one of the promise, or none.
Sound == MediaInv' /\ [Promise!PromiseNext]_(Promise!promiseVars)

LEMMA StepIsSound ==
    ASSUME MediaInv, NEW j \in Job, NEW step \in PC, pc[j] # "out",
           GoTo(j, step), Effect(j),
           \/ step \in Free
           \/ step \in {"doc_written", "embed", "return"} /\ Inserted(j)
    PROVE  Sound
<1> USE DEF MediaInv
<1>1. MediaTypeOK'
  BY DEF MediaTypeOK, GoTo, shared, Effect
<1>2. PlaceOK'
  BY DEF MediaTypeOK, PlaceOK, GoTo, shared, Free, Inserted
<1>3. AttemptsOK'
  BY DEF AttemptsOK, GoTo
<1>4. CheckpointNamesOwnDocument'
  BY DEF CheckpointNamesOwnDocument, GoTo, shared, Effect, Inserted
<1>5. DocumentHasVaultFile'
  BY DEF DocumentHasVaultFile, GoTo, shared
<1>6. UNCHANGED Promise!promiseVars
  BY DEF GoTo, shared, Promise!promiseVars
<1> QED BY <1>1, <1>2, <1>3, <1>4, <1>5, <1>6 DEF Sound

LEMMA LeaveIsSound ==
    ASSUME MediaInv, MediaAssumption,
           NEW j \in Job, NEW status \in {"queued", "failed", "complete"},
           NEW attempts \in 0..MaxAttempts, pc[j] # "out",
           Leave(j, status, attempts), UNCHANGED shared, Effect(j),
           status = "queued" => attempts < MaxAttempts,
           status = "complete" => doc # NoDoc
    PROVE  Sound
<1> USE DEF MediaInv
<1>1. MediaTypeOK'
  <2>1. job' \in [Job -> [status : {"new", "queued", "running", "complete", "failed"},
                           attempts : 0..MaxAttempts]]
    BY DEF MediaTypeOK, Leave
  <2>2. pc' \in [Job -> PC]
    BY DEF MediaTypeOK, Leave, PC
  <2> QED BY <2>1, <2>2 DEF MediaTypeOK, shared, Effect
<1>2. PlaceOK'
  BY DEF MediaTypeOK, PlaceOK, Leave, shared, Inserted
<1>3. AttemptsOK'
  BY DEF MediaTypeOK, AttemptsOK, Leave
<1>4. CheckpointNamesOwnDocument'
  BY DEF CheckpointNamesOwnDocument, shared, Effect, Inserted
<1>5. DocumentHasVaultFile'
  BY DEF DocumentHasVaultFile, shared
<1>6. Promise!PromiseNext
  <2> DEFINE request == [i \in Job |-> job[i].status]
  <2>1. /\ request[j] = "running"
        /\ request' = [request EXCEPT ![j] = status]
    BY DEF MediaTypeOK, PlaceOK, Leave
  <2>2. UNCHANGED <<doc.by, doc # NoDoc /\ doc.status = "embedded">>
    BY DEF shared
  <2>3. CASE status = "complete"
    <3>1. doc.by # "nobody"
      BY <2>3 DEF MediaTypeOK, MediaAssumption
    <3> QED BY <2>1, <2>2, <2>3, <3>1 DEF Promise!PromiseNext, Promise!Succeed
  <2>4. CASE status \in {"queued", "failed"}
    <3>1. <<"running", status>> \in {<<"new", "queued">>, <<"queued", "running">>,
                                     <<"running", "queued">>, <<"running", "failed">>}
      BY <2>4
    <3>2. /\ request[j] = <<"running", status>>[1]
          /\ request' = [request EXCEPT ![j] = <<"running", status>>[2]]
      BY <2>1
    <3>3. Promise!Move(j)
      BY <2>2, <3>1, <3>2 DEF Promise!Move
    <3> QED BY <3>3 DEF Promise!PromiseNext
  <2> QED BY <2>3, <2>4
<1> QED BY <1>1, <1>2, <1>3, <1>4, <1>5, <1>6 DEF Sound

-----------------------------------------------------------------------------
(* The ends of a run.                                                      *)

LEMMA ReturnIsSound ==
    ASSUME MediaInv, MediaAssumption, NEW j \in Job, pc[j] # "out", Return(j),
           doc # NoDoc
    PROVE  Sound
<1>1. Effect(j)
  BY DEF MediaInv, MediaTypeOK, Return, Leave, Effect, Silence, EmptyScratch, Text, Said
<1>2. job[j].attempts \in 0..MaxAttempts
  BY DEF MediaInv, MediaTypeOK
<1> QED BY <1>1, <1>2, LeaveIsSound DEF Return

LEMMA ScratchAfterRunType ==
    ASSUME MediaTypeOK, NEW j \in Job
    PROVE  ScratchAfterRun(j) \in [Job -> [wav : BOOLEAN, transcript : Said]]
BY DEF MediaTypeOK, ScratchAfterRun, EmptyScratch, Said

LEMMA FailIsSound ==
    ASSUME MediaInv, MediaAssumption, NEW j \in Job, pc[j] # "out", Fail(j)
    PROVE  Sound
<1>1. Effect(j)
  BY ScratchAfterRunType DEF MediaInv, MediaTypeOK, Fail, Leave, Effect, Silence, Text, Said
<1>2. job[j].attempts \in 0..MaxAttempts
  BY DEF MediaInv, MediaTypeOK
<1> QED BY <1>1, <1>2, LeaveIsSound DEF Fail

LEMMA RequeueIsSound ==
    ASSUME MediaInv, MediaAssumption, NEW j \in Job, pc[j] # "out",
           NEW attempts \in 0..MaxAttempts, attempts < MaxAttempts, Requeue(j, attempts)
    PROVE  Sound
<1>1. Effect(j)
  BY ScratchAfterRunType DEF MediaInv, MediaTypeOK, Requeue, Leave, Effect, Silence, Text, Said
<1> QED BY <1>1, LeaveIsSound DEF Requeue

LEMMA RaiseRetryableIsSound ==
    ASSUME MediaInv, MediaAssumption, NEW j \in Job, pc[j] # "out", RaiseRetryable(j)
    PROVE  Sound
<1>1. job[j].attempts \in 0..MaxAttempts
  BY DEF MediaInv, MediaTypeOK
<1> QED BY <1>1, FailIsSound, RequeueIsSound DEF RaiseRetryable

-----------------------------------------------------------------------------
(* The steps the handlers share.                                           *)

LEMMA NothingDone ==
    ASSUME MediaInv, NEW j \in Job, UNCHANGED progress
    PROVE  Effect(j)
BY DEF MediaInv, MediaTypeOK, progress, Effect

LEMMA DedupeIsSound ==
    ASSUME MediaInv, MediaAssumption, NEW j \in Job, NEW step \in Free, DedupeThen(j, step)
    PROVE  Sound
<1>1. CASE AlreadyIngested
  BY <1>1, ReturnIsSound DEF DedupeThen, AlreadyIngested
<1>2. CASE ~AlreadyIngested
  BY <1>2, NothingDone, StepIsSound DEF DedupeThen, Free
<1> QED BY <1>1, <1>2

LEMMA CheckHashIsSound ==
    ASSUME MediaInv, MediaAssumption, NEW j \in Job, CheckHash(j)
    PROVE  Sound
<1>1. CASE doc # NoDoc /\ doc.text = text[j]
  BY <1>1, ReturnIsSound DEF CheckHash
<1>2. CASE ~(doc # NoDoc /\ doc.text = text[j])
  BY <1>2, NothingDone, StepIsSound DEF CheckHash, Free, PC
<1> QED BY <1>1, <1>2

\* What happens to the stages when one is finished, or skipped.
OnlyStages ==
    /\ work' \in [Job -> [Stage -> Nat]]
    /\ done' \in [Job -> SUBSET (Stage \cup {"doc_written"})]
    /\ \A i \in Job : "doc_written" \in done'[i] => "doc_written" \in done[i]

LEMMA FinishedIsStage ==
    ASSUME MediaInv, NEW j \in Job, NEW s \in Stage, Finished(j, s)
    PROVE  OnlyStages
<1> USE DEF MediaInv, MediaTypeOK, Finished, Complete
<1>1. work' \in [Job -> [Stage -> Nat]]
  OBVIOUS
<1>2. done' \in [Job -> SUBSET (Stage \cup {"doc_written"})]
  OBVIOUS
<1>3. s # "doc_written"
  BY DEF Stage
<1> QED BY <1>1, <1>2, <1>3 DEF OnlyStages

LEMMA RecordIsStage ==
    ASSUME MediaInv, NEW j \in Job, NEW s \in Stage, Record(j, s)
    PROVE  OnlyStages
<1>1. CASE HasOutput(j, s)
  BY <1>1 DEF Record, OnlyStages, MediaInv, MediaTypeOK
<1>2. CASE ~HasOutput(j, s)
  BY <1>2, FinishedIsStage DEF Record
<1> QED BY <1>1, <1>2

LEMMA MakeWavIsStage ==
    ASSUME MediaInv, NEW j \in Job, NEW s \in Stage, MakeWav(j, s)
    PROVE  OnlyStages /\ scratch' \in [Job -> [wav : BOOLEAN, transcript : Said]]
<1>1. CASE HasOutput(j, s)
  BY <1>1 DEF MakeWav, OnlyStages, MediaInv, MediaTypeOK
<1>2. CASE ~HasOutput(j, s)
  <2>1. OnlyStages
    BY <1>2, FinishedIsStage DEF MakeWav
  <2>2. scratch' = [scratch EXCEPT ![j].wav = TRUE]
    BY <1>2 DEF MakeWav
  <2> QED BY <2>1, <2>2 DEF MediaInv, MediaTypeOK
<1> QED BY <1>1, <1>2

LEMMA WhisperIsStage ==
    ASSUME MediaInv, NEW j \in Job, NEW s \in Stage, Whisper(j, s)
    PROVE  Effect(j)
<1>1. OnlyStages
  BY FinishedIsStage DEF Whisper
<1>2. PICK t \in Transcript :
        /\ text' = [text EXCEPT ![j].said = t]
        /\ scratch' = [scratch EXCEPT ![j].transcript = t]
  BY DEF Whisper
<1>3. text' \in [Job -> Text]
  BY <1>2 DEF MediaInv, MediaTypeOK, Text, Said
<1>4. scratch' \in [Job -> [wav : BOOLEAN, transcript : Said]]
  BY <1>2 DEF MediaInv, MediaTypeOK, Said
<1>5. stored' \in [Job -> BOOLEAN]
  BY DEF Whisper, MediaInv, MediaTypeOK
<1> QED BY <1>1, <1>3, <1>4, <1>5 DEF Effect, OnlyStages

LEMMA SummarizeIsSound ==
    ASSUME MediaInv, NEW j \in Job, Summarize(j)
    PROVE  Sound
<1>1. OnlyStages
  BY RecordIsStage DEF Summarize, Stage
<1>2. Effect(j)
  BY <1>1 DEF Summarize, OnlyStages, Effect, MediaInv, MediaTypeOK
<1> QED BY <1>2, StepIsSound DEF Summarize, Free, PC

LEMMA WriteVaultFileIsSound ==
    ASSUME MediaInv, NEW j \in Job, WriteVaultFile(j)
    PROVE  Sound
<1> USE DEF MediaInv, WriteVaultFile, progress
<1>1. MediaTypeOK'
  BY DEF MediaTypeOK, PC
<1>2. PlaceOK'
  BY DEF MediaTypeOK, PlaceOK, Inserted
<1>3. AttemptsOK' /\ CheckpointNamesOwnDocument' /\ DocumentHasVaultFile'
  BY DEF AttemptsOK, CheckpointNamesOwnDocument, DocumentHasVaultFile
<1>4. UNCHANGED Promise!promiseVars
  BY DEF Promise!promiseVars
<1> QED BY <1>1, <1>2, <1>3, <1>4 DEF Sound

LEMMA InsertIsSound ==
    ASSUME MediaInv, MediaAssumption, NEW j \in Job,
           NEW step \in {"doc_written", "embed"}, InsertThen(j, step)
    PROVE  Sound
<1>1. CASE doc # NoDoc
  BY <1>1, FailIsSound DEF InsertThen
<1>2. CASE doc = NoDoc
  <2> USE DEF MediaInv, progress
  <2>1. /\ doc' = NewDocument(j)
        /\ pc' = [pc EXCEPT ![j] = step]
        /\ pc[j] = "insert"
        /\ UNCHANGED <<media, job, progress, vault, cleaned>>
    BY <1>2 DEF InsertThen
  <2>2. doc' # NoDoc /\ doc'.by = j /\ doc'.status = "ingesting"
    BY <2>1 DEF NewDocument, NoDoc, MediaAssumption
  <2>3. MediaTypeOK'
    BY <2>1 DEF MediaTypeOK, PC, NewDocument
  <2>4. PlaceOK'
    BY <1>2, <2>1, <2>2 DEF MediaTypeOK, PlaceOK, Inserted
  <2>5. AttemptsOK'
    BY <2>1 DEF AttemptsOK
  <2>6. CheckpointNamesOwnDocument'
    BY <1>2, <2>1, <2>2 DEF CheckpointNamesOwnDocument
  <2>7. DocumentHasVaultFile'
    BY <2>1, <2>2 DEF DocumentHasVaultFile, PlaceOK
  <2>8. Promise!PromiseNext
    <3>1. [i \in Job |-> job[i].status][j] = "running" /\ doc.by = "nobody"
      BY <1>2, <2>1 DEF MediaTypeOK, PlaceOK, NoDoc
    <3>2. Promise!Insert(j)
      BY <1>2, <2>1, <2>2, <3>1 DEF Promise!Insert
    <3> QED BY <3>2 DEF Promise!PromiseNext
  <2> QED BY <2>3, <2>4, <2>5, <2>6, <2>7, <2>8 DEF Sound
<1> QED BY <1>1, <1>2

LEMMA RecordDocumentIsSound ==
    ASSUME MediaInv, NEW j \in Job, NEW step \in {"embed", "return"},
           RecordDocumentThen(j, step)
    PROVE  Sound
<1>1. pc[j] = "doc_written" /\ Inserted(j)
  BY DEF RecordDocumentThen, MediaInv, PlaceOK
<1>2. Effect(j)
  BY <1>1 DEF RecordDocumentThen, Complete, Effect, MediaInv, MediaTypeOK
<1> QED BY <1>1, <1>2, StepIsSound DEF RecordDocumentThen, PC

LEMMA EmbedIsSound ==
    ASSUME MediaInv, MediaAssumption, NEW j \in Job,
           NEW step \in {"doc_written", "return"}, EmbedThen(j, step)
    PROVE  Sound
<1> USE DEF MediaInv, EmbedThen, progress
<1>1. doc # NoDoc /\ doc.by = j
  BY DEF PlaceOK, Inserted
<1>2. doc' # NoDoc /\ doc'.by = j /\ doc'.status = "embedded" /\ doc' \in
        [by : Job, text : Text, status : {"ingesting", "embedded"}]
  BY <1>1 DEF MediaTypeOK, NoDoc, MediaAssumption
<1>3. MediaTypeOK'
  BY <1>2 DEF MediaTypeOK, PC
<1>4. PlaceOK'
  BY <1>1, <1>2 DEF MediaTypeOK, PlaceOK, Inserted
<1>5. AttemptsOK'
  BY DEF AttemptsOK
<1>6. CheckpointNamesOwnDocument' /\ DocumentHasVaultFile'
  BY <1>1, <1>2 DEF CheckpointNamesOwnDocument, DocumentHasVaultFile
<1>7. [Promise!PromiseNext]_(Promise!promiseVars)
  <2>1. [i \in Job |-> job[i].status][j] = "running"
    BY DEF MediaTypeOK, PlaceOK
  <2>2. CASE doc.status = "embedded"
    BY <1>1, <1>2, <2>2 DEF Promise!promiseVars
  <2>3. CASE doc.status # "embedded"
    <3>1. Promise!EmbedOwn(j)
      BY <1>1, <1>2, <2>1, <2>3 DEF Promise!EmbedOwn
    <3> QED BY <3>1 DEF Promise!PromiseNext
  <2> QED BY <2>2, <2>3
<1> QED BY <1>3, <1>4, <1>5, <1>6, <1>7 DEF Sound

LEMMA FinishIsSound ==
    ASSUME MediaInv, MediaAssumption, NEW j \in Job, Finish(j)
    PROVE  Sound
<1>1. CASE WriteVaultFile(j)
  BY <1>1, WriteVaultFileIsSound
<1>2. CASE EmbedCircuitOpen(j)
  <2>1. /\ pc[j] = "embed" /\ Requeue(j, job[j].attempts - 1)
        /\ job[j].attempts - 1 \in 0..MaxAttempts
        /\ job[j].attempts - 1 < MaxAttempts
    BY <1>2 DEF EmbedCircuitOpen, MediaInv, MediaTypeOK, PlaceOK, AttemptsOK, MediaAssumption
  <2> QED BY <2>1, RequeueIsSound
<1>3. CASE ReturnResult(j)
  BY <1>3, ReturnIsSound DEF ReturnResult, MediaInv, PlaceOK, Inserted
<1>4. CASE StoreFails(j)
  BY <1>4, FailIsSound DEF StoreFails
<1> QED BY <1>1, <1>2, <1>3, <1>4 DEF Finish

-----------------------------------------------------------------------------
(* The handlers, action by action.                                         *)

LEMMA YouTubeIsSound ==
    ASSUME MediaInv, MediaAssumption, NEW j \in Job, YouTubeHandle(j)
    PROVE  Sound
<1>1. CASE YouTubeStart(j)
  <2>1. CASE "doc_written" \in done[j]
    BY <1>1, <2>1, ReturnIsSound
       DEF YouTubeStart, MediaInv, CheckpointNamesOwnDocument
  <2>2. CASE "doc_written" \notin done[j]
    BY <1>1, <2>2, NothingDone, StepIsSound DEF YouTubeStart, Free, PC
  <2> QED BY <2>1, <2>2
<1>2. CASE DedupeThen(j, "metadata_fetched")
  BY <1>2, DedupeIsSound DEF Free, PC, Stage
<1>3. CASE FetchMetadata(j)
  <2>1. OnlyStages
    BY <1>3, RecordIsStage DEF FetchMetadata, Stage
  <2>2. Effect(j)
    BY <1>3, <2>1 DEF FetchMetadata, OnlyStages, Effect, MediaInv, MediaTypeOK
  <2> QED BY <1>3, <2>2, StepIsSound DEF FetchMetadata, Free, PC, Stage
<1>4. CASE AttemptCaptions(j)
  <2>1. OnlyStages
    BY <1>4, RecordIsStage DEF AttemptCaptions, Stage
  <2>2. PICK usable \in BOOLEAN :
          /\ stored' = [stored EXCEPT ![j] = usable]
          /\ text' = [text EXCEPT ![j].said = Obtained(j, usable)]
          /\ GoTo(j, AfterCaptions(j, usable))
    BY <1>4 DEF AttemptCaptions
  <2>3. Obtained(j, usable) \in Said
    BY DEF Obtained, Said, MediaInv, MediaTypeOK
  <2>4. Effect(j)
    <3>1. text' \in [Job -> Text]
      BY <2>2, <2>3 DEF MediaInv, MediaTypeOK, Text
    <3>2. stored' \in [Job -> BOOLEAN]
      BY <2>2 DEF MediaInv, MediaTypeOK
    <3>3. UNCHANGED scratch
      BY <1>4 DEF AttemptCaptions
    <3> QED BY <2>1, <3>1, <3>2, <3>3 DEF OnlyStages, Effect, MediaInv, MediaTypeOK
  <2>5. AfterCaptions(j, usable) \in Free
    BY DEF AfterCaptions, Free, PC, Stage
  <2> QED BY <1>4, <2>2, <2>4, <2>5, StepIsSound DEF AttemptCaptions, Free
<1>5. CASE DownloadAudio(j)
  <2>1. OnlyStages /\ scratch' \in [Job -> [wav : BOOLEAN, transcript : Said]]
    BY <1>5, MakeWavIsStage DEF DownloadAudio, Stage
  <2>2. Effect(j)
    BY <1>5, <2>1 DEF DownloadAudio, OnlyStages, Effect, MediaInv, MediaTypeOK
  <2> QED BY <1>5, <2>2, StepIsSound DEF DownloadAudio, Free, PC, Stage
<1>6. CASE Transcribe(j)
  BY <1>6, WhisperIsStage, StepIsSound DEF Transcribe, Free, PC, Stage
<1>7. CASE TransientFailure(j) \/ PermanentFailure(j)
  BY <1>7, RaiseRetryableIsSound, FailIsSound
     DEF TransientFailure, PermanentFailure, CanFail
<1> QED BY <1>1, <1>2, <1>3, <1>4, <1>5, <1>6, <1>7, SummarizeIsSound, CheckHashIsSound,
           InsertIsSound, RecordDocumentIsSound, EmbedIsSound, FinishIsSound
        DEF YouTubeHandle

LEMMA PodcastIsSound ==
    ASSUME MediaInv, MediaAssumption, NEW j \in Job, PodcastHandle(j)
    PROVE  Sound
<1>1. CASE PodcastStart(j)
  <2>1. CASE "doc_written" \in done[j] /\ doc # NoDoc
    BY <1>1, <2>1, ReturnIsSound DEF PodcastStart
  <2>2. CASE ~("doc_written" \in done[j] /\ doc # NoDoc)
    BY <1>1, <2>2, NothingDone, StepIsSound DEF PodcastStart, Free, PC
  <2> QED BY <2>1, <2>2
<1>2. CASE DedupeThen(j, "transcript_obtained")
  BY <1>2, DedupeIsSound DEF Free, PC, Stage
<1>3. CASE ReuseTranscript(j)
  <2>1. Effect(j)
    BY <1>3 DEF ReuseTranscript, Effect, MediaInv, MediaTypeOK, Text
  <2> QED BY <1>3, <2>1, StepIsSound DEF ReuseTranscript, Free, PC, Stage
<1>4. CASE RssTranscript(j)
  <2>1. OnlyStages
    BY <1>4, FinishedIsStage DEF RssTranscript, Stage
  <2>2. text' \in [Job -> Text]
    BY <1>4 DEF RssTranscript, MediaInv, MediaTypeOK, Text, Said
  <2>3. scratch' \in [Job -> [wav : BOOLEAN, transcript : Said]]
    BY <1>4 DEF RssTranscript, MediaInv, MediaTypeOK, Said
  <2>4. Effect(j)
    BY <1>4, <2>1, <2>2, <2>3 DEF RssTranscript, OnlyStages, Effect, MediaInv, MediaTypeOK
  <2> QED BY <1>4, <2>4, StepIsSound DEF RssTranscript, Free, PC, Stage
<1>5. CASE NoRssTranscript(j)
  BY <1>5, NothingDone, StepIsSound DEF NoRssTranscript, Free, PC, Stage
<1>6. CASE DownloadEpisode(j)
  <2>1. OnlyStages /\ scratch' \in [Job -> [wav : BOOLEAN, transcript : Said]]
    BY <1>6, MakeWavIsStage DEF DownloadEpisode, Stage
  <2>2. Effect(j)
    BY <1>6, <2>1 DEF DownloadEpisode, OnlyStages, Effect, MediaInv, MediaTypeOK
  <2> QED BY <1>6, <2>2, StepIsSound DEF DownloadEpisode, Free, PC, Stage
<1>7. CASE TranscribeEpisode(j)
  BY <1>7, WhisperIsStage, StepIsSound DEF TranscribeEpisode, Free, PC, Stage
<1>8. CASE WhisperFallbackFails(j) \/ NoTranscript(j)
  BY <1>8, RaiseRetryableIsSound, FailIsSound DEF WhisperFallbackFails, NoTranscript
<1>9. CASE ExtractMetadata(j)
  <2>1. OnlyStages
    BY <1>9, RecordIsStage DEF ExtractMetadata, Stage
  <2>2. Effect(j)
    BY <1>9, <2>1 DEF ExtractMetadata, OnlyStages, Effect, MediaInv, MediaTypeOK
  <2> QED BY <1>9, <2>2, StepIsSound DEF ExtractMetadata, Free, PC, Stage
<1> QED BY <1>1, <1>2, <1>3, <1>4, <1>5, <1>6, <1>7, <1>8, <1>9, SummarizeIsSound,
           CheckHashIsSound, InsertIsSound, RecordDocumentIsSound, EmbedIsSound,
           FinishIsSound
        DEF PodcastHandle

LEMMA VideoIsSound ==
    ASSUME MediaInv, MediaAssumption, NEW j \in Job, VideoHandle(j)
    PROVE  Sound
<1>1. CASE VideoStart(j)
  <2>1. CASE "doc_written" \in done[j] /\ doc # NoDoc
    BY <1>1, <2>1, ReturnIsSound DEF VideoStart
  <2>2. CASE ~("doc_written" \in done[j] /\ doc # NoDoc)
    BY <1>1, <2>2, NothingDone, StepIsSound DEF VideoStart, Free, PC, Stage
  <2> QED BY <2>1, <2>2
<1>2. CASE VideoUnreadable(j)
  BY <1>2, FailIsSound DEF VideoUnreadable
<1>3. CASE ComputeHash(j)
  <2>1. OnlyStages
    BY <1>3, RecordIsStage DEF ComputeHash, Stage
  <2>2. Effect(j)
    BY <1>3, <2>1 DEF ComputeHash, OnlyStages, Effect, MediaInv, MediaTypeOK
  <2> QED BY <1>3, <2>2, StepIsSound DEF ComputeHash, Free, PC
<1>4. CASE DedupeThen(j, "audio_extracted")
  BY <1>4, DedupeIsSound DEF Free, PC, Stage
<1>5. CASE ExtractAudio(j)
  <2>1. OnlyStages /\ scratch' \in [Job -> [wav : BOOLEAN, transcript : Said]]
    BY <1>5, MakeWavIsStage DEF ExtractAudio, Stage
  <2>2. Effect(j)
    BY <1>5, <2>1 DEF ExtractAudio, OnlyStages, Effect, MediaInv, MediaTypeOK
  <2> QED BY <1>5, <2>2, StepIsSound DEF ExtractAudio, Free, PC, Stage
<1>6. CASE ReuseVideoTranscript(j)
  <2>1. Effect(j)
    BY <1>6 DEF ReuseVideoTranscript, Effect, MediaInv, MediaTypeOK, Text
  <2> QED BY <1>6, <2>1, StepIsSound DEF ReuseVideoTranscript, Free, PC, Stage
<1>7. CASE TranscribeVideo(j)
  BY <1>7, WhisperIsStage, StepIsSound DEF TranscribeVideo, Free, PC, Stage
<1>8. CASE LooksTransient(j)
  BY <1>8, RaiseRetryableIsSound DEF LooksTransient, StillToDo
<1>9. CASE GoOnWithout(j)
  <2>1. CASE pc[j] = "ocr_done"
    BY <1>9, <2>1, NothingDone, StepIsSound DEF GoOnWithout, Free, PC
  <2>2. CASE pc[j] # "ocr_done"
    BY <1>9, <2>2, NothingDone, StepIsSound DEF GoOnWithout, StillToDo, Free, PC, Stage
  <2> QED BY <2>1, <2>2
<1>10. CASE ReadFrames(j)
  <2>1. OnlyStages
    BY <1>10, RecordIsStage DEF ReadFrames, Stage
  <2>2. PICK found \in BOOLEAN :
          /\ stored' = [stored EXCEPT ![j] = found]
          /\ text' = [text EXCEPT ![j].shown = found]
    BY <1>10 DEF ReadFrames
  <2>3. Effect(j)
    <3>1. text' \in [Job -> Text]
      BY <2>2 DEF MediaInv, MediaTypeOK, Text
    <3>2. stored' \in [Job -> BOOLEAN]
      BY <2>2 DEF MediaInv, MediaTypeOK
    <3>3. UNCHANGED scratch
      BY <1>10 DEF ReadFrames
    <3> QED BY <2>1, <3>1, <3>2, <3>3 DEF OnlyStages, Effect, MediaInv, MediaTypeOK
  <2> QED BY <1>10, <2>3, StepIsSound DEF ReadFrames, Free, PC
<1>11. CASE Combine(j)
  <2>1. CASE text[j] = Silence
    BY <1>11, <2>1, FailIsSound DEF Combine
  <2>2. CASE text[j] # Silence
    BY <1>11, <2>2, NothingDone, StepIsSound DEF Combine, Free, PC
  <2> QED BY <2>1, <2>2
<1> QED BY <1>1, <1>2, <1>3, <1>4, <1>5, <1>6, <1>7, <1>8, <1>9, <1>10, <1>11,
           InsertIsSound, RecordDocumentIsSound, EmbedIsSound, FinishIsSound
        DEF VideoHandle

LEMMA ArticleIsSound ==
    ASSUME MediaInv, MediaAssumption, NEW j \in Job, ArticleHandle(j)
    PROVE  Sound
<1>1. CASE ArticleStart(j)
  <2>1. CASE "doc_written" \in done[j]
    BY <1>1, <2>1, ReturnIsSound
       DEF ArticleStart, MediaInv, CheckpointNamesOwnDocument
  <2>2. CASE "doc_written" \notin done[j]
    BY <1>1, <2>2, NothingDone, StepIsSound DEF ArticleStart, Free, PC
  <2> QED BY <2>1, <2>2
<1>2. CASE FetchArticle(j)
  <2>1. Effect(j)
    BY <1>2 DEF FetchArticle, Effect, Speech, MediaInv, MediaTypeOK, Text, Said
  <2> QED BY <1>2, <2>1, StepIsSound DEF FetchArticle, Free, PC
<1>3. CASE FetchFails(j)
  BY <1>3, FailIsSound DEF FetchFails
<1>4. CASE DedupeThen(j, "vault")
  BY <1>4, DedupeIsSound DEF Free, PC
<1> QED BY <1>1, <1>2, <1>3, <1>4, InsertIsSound, RecordDocumentIsSound, EmbedIsSound,
           FinishIsSound
        DEF ArticleHandle

-----------------------------------------------------------------------------
(* The queue and the rest of the environment, and the theorems.            *)

LEMMA SubmitIsSound ==
    ASSUME MediaInv, NEW j \in Job, SubmitMedia(j)
    PROVE  Sound
<1> USE DEF MediaInv, SubmitMedia, progress, shared
<1>1. MediaTypeOK' /\ PlaceOK' /\ AttemptsOK'
  BY DEF MediaTypeOK, PlaceOK, AttemptsOK, Inserted
<1>2. CheckpointNamesOwnDocument' /\ DocumentHasVaultFile'
  BY DEF CheckpointNamesOwnDocument, DocumentHasVaultFile
<1>3. Promise!Move(j)
  <2> DEFINE request == [i \in Job |-> job[i].status]
  <2>1. /\ request[j] = <<"new", "queued">>[1]
        /\ request' = [request EXCEPT ![j] = <<"new", "queued">>[2]]
    BY DEF MediaTypeOK
  <2> QED BY <2>1 DEF Promise!Move
<1> QED BY <1>1, <1>2, <1>3 DEF Sound, Promise!PromiseNext

LEMMA ClaimIsSound ==
    ASSUME MediaInv, MediaAssumption, NEW j \in Job, ClaimMedia(j)
    PROVE  Sound
<1> USE DEF MediaInv, ClaimMedia, progress, shared
<1>1. job[j].attempts + 1 \in 0..MaxAttempts /\ job[j].attempts + 1 > 0
  BY DEF MediaTypeOK, AttemptsOK, MediaAssumption
<1>2. MediaTypeOK'
  <2>1. job' \in [Job -> [status : {"new", "queued", "running", "complete", "failed"},
                           attempts : 0..MaxAttempts]]
    BY <1>1 DEF MediaTypeOK
  <2>2. pc' \in [Job -> PC]
    BY DEF MediaTypeOK, PC
  <2> QED BY <2>1, <2>2 DEF MediaTypeOK
<1>3. PlaceOK' /\ AttemptsOK'
  BY <1>1 DEF MediaTypeOK, PlaceOK, AttemptsOK, Inserted
<1>4. CheckpointNamesOwnDocument' /\ DocumentHasVaultFile'
  BY DEF CheckpointNamesOwnDocument, DocumentHasVaultFile
<1>5. Promise!Move(j)
  <2> DEFINE request == [i \in Job |-> job[i].status]
  <2>1. /\ request[j] = <<"queued", "running">>[1]
        /\ request' = [request EXCEPT ![j] = <<"queued", "running">>[2]]
    BY DEF MediaTypeOK
  <2> QED BY <2>1 DEF Promise!Move
<1> QED BY <1>2, <1>3, <1>4, <1>5 DEF Sound, Promise!PromiseNext

LEMMA CleanScratchIsSound ==
    ASSUME MediaInv, NEW j \in Job, CleanScratch(j)
    PROVE  Sound
<1> USE DEF MediaInv, CleanScratch
<1>1. MediaTypeOK'
  BY DEF MediaTypeOK, EmptyScratch, Said
<1>2. PlaceOK' /\ AttemptsOK' /\ CheckpointNamesOwnDocument' /\ DocumentHasVaultFile'
  BY DEF PlaceOK, AttemptsOK, Inserted, CheckpointNamesOwnDocument, DocumentHasVaultFile
<1>3. UNCHANGED Promise!promiseVars
  BY DEF Promise!promiseVars
<1> QED BY <1>1, <1>2, <1>3 DEF Sound

LEMMA NextIsSound == MediaInv /\ [MediaNext]_mediaVars => Sound
<1> SUFFICES ASSUME MediaInv, [MediaNext]_mediaVars
             PROVE  Sound
  OBVIOUS
<1> USE MediaAssumption
<1>1. CASE UNCHANGED mediaVars
  <2>1. MediaInv'
    BY <1>1 DEF mediaVars, MediaInv, MediaTypeOK, PlaceOK, AttemptsOK, Inserted,
                CheckpointNamesOwnDocument, DocumentHasVaultFile
  <2>2. UNCHANGED Promise!promiseVars
    BY <1>1 DEF mediaVars, Promise!promiseVars
  <2> QED BY <2>1, <2>2 DEF Sound
<1>2. ASSUME NEW j \in Job, Handle(j)
      PROVE  Sound
  BY <1>2, YouTubeIsSound, PodcastIsSound, VideoIsSound, ArticleIsSound DEF Handle
<1>3. ASSUME NEW j \in Job, SubmitMedia(j) \/ ClaimMedia(j) \/ Die(j) \/ CleanScratch(j)
      PROVE  Sound
  BY <1>3, SubmitIsSound, ClaimIsSound, CleanScratchIsSound, FailIsSound DEF Die
<1> QED BY <1>1, <1>2, <1>3 DEF MediaNext

LEMMA InitIsSound == MediaInit => MediaInv /\ Promise!PromiseInit
<1> SUFFICES ASSUME MediaInit
             PROVE  MediaInv /\ Promise!PromiseInit
  OBVIOUS
<1> USE MediaAssumption DEF MediaInit
<1>1. MediaTypeOK
  BY DEF MediaTypeOK, PC, Silence, Text, Said, EmptyScratch
<1>2. PlaceOK /\ AttemptsOK /\ CheckpointNamesOwnDocument /\ DocumentHasVaultFile
  BY DEF PlaceOK, AttemptsOK, CheckpointNamesOwnDocument, DocumentHasVaultFile,
         MediaAssumption
<1>3. Promise!PromiseInit
  BY DEF Promise!PromiseInit, NoDoc
<1> QED BY <1>1, <1>2, <1>3 DEF MediaInv

\* Every variable stays of its type: no run of a handler is at a place it does
\* not have, and no job is claimed more often than the retries allow.
THEOREM MediaTypeCorrect == MediaSpec => []MediaTypeOK
<1>1. MediaInv => MediaTypeOK
  BY DEF MediaInv
<1> QED BY <1>1, InitIsSound, NextIsSound, PTL DEF MediaSpec, Sound

\* A documents row always has its file in the vault, whichever of the jobs for
\* the source die or are requeued where.
THEOREM DocumentsAreBacked == MediaSpec => []DocumentHasVaultFile
<1>1. MediaInv => DocumentHasVaultFile
  BY DEF MediaInv
<1> QED BY <1>1, InitIsSound, NextIsSound, PTL DEF MediaSpec, Sound

\* A doc_written checkpoint always names the row its own job inserted, for any
\* number of jobs for the source and of workers.
THEOREM CheckpointsAreTrue == MediaSpec => []CheckpointNamesOwnDocument
<1>1. MediaInv => CheckpointNamesOwnDocument
  BY DEF MediaInv
<1> QED BY <1>1, InitIsSound, NextIsSound, PTL DEF MediaSpec, Sound

\* All four handlers keep the promise of IngestPromise.
THEOREM HandlersKeepPromise == MediaSpec => ImplementsPromise
BY InitIsSound, NextIsSound, PTL DEF MediaSpec, Sound, ImplementsPromise, Promise!PromiseSpec

-----------------------------------------------------------------------------
(* What a run relies on of the runs before it: the work that is recorded,  *)
(* and the transcript.  All of it is about one job at a time, so a step is *)
(* shown to keep it for its own job and to touch nothing of the others.    *)

\* Places of a run before it has its transcript, and from there to the insert.
Early == {"out", "start", "fetch", "dedupe", "metadata_fetched", "captions_attempted",
          "transcript_obtained", "hash_computed", "audio_downloaded", "audio_extracted",
          "transcribed"}
Late == {"metadata_extracted", "ocr_done", "combine", "summarized", "hash", "vault", "insert"}

\* Places after the look for a document of the source, up to the insert.
Looked == Late \cup {"metadata_fetched", "captions_attempted", "transcript_obtained",
                     "audio_downloaded", "audio_extracted", "transcribed"}

Whispering == {"audio_downloaded", "transcribed"}

\* A stage's work was done once at most, and is there for the next run.
WorkedOnce(j) ==
    j \notin cleaned \cup Captured => \A s \in Stage :
        /\ work[j][s] <= 1
        /\ work[j][s] > 0 /\ job[j].status # "complete" => HasOutput(j, s)

\* Nobody goes on to Whisper with a transcript at hand.
NeedsWhisper(j) ==
    pc[j] \in Whispering =>
        /\ media = "youtube" => ~HasOutput(j, "transcribed")
        /\ media = "podcast" => ~HasOutput(j, "transcript_obtained")

\* Who is about to insert has not inserted.
InsertsOnce(j) == pc[j] \in Looked => ~Inserted(j)

\* A run in a capture job starts from nothing, an article from the page.
StartsEmpty(j) ==
    (j \in Captured /\ pc[j] \in Early) \/ media = "article" => scratch[j].transcript = NoText

\* The stages before a recorded transcript are recorded.
StagesBehind(j) ==
    LET told == scratch[j].transcript # NoText IN
    j \notin Captured =>
        /\ media = "youtube" /\ (told \/ pc[j] \in Whispering) =>
                "captions_attempted" \in done[j] /\ ~stored[j]
        /\ media \in {"youtube", "video"} /\ told => "transcribed" \in done[j]
        /\ media = "video" /\ told => scratch[j].wav
        /\ media = "video" /\ (told \/ pc[j] = "transcribed") => "audio_extracted" \in done[j]

\* The run holds the transcript, and the document has it.
HoldsTranscript(j) ==
    scratch[j].transcript # NoText =>
        /\ pc[j] \in Late => text[j].said = scratch[j].transcript
        /\ Inserted(j) => doc.text.said = scratch[j].transcript

RunInv(j) ==
    /\ WorkedOnce(j)
    /\ NeedsWhisper(j)
    /\ InsertsOnce(j)
    /\ StartsEmpty(j)
    /\ StagesBehind(j)
    /\ HoldsTranscript(j)

\* A step of j touches nothing of another job.
OnlyOf(j) ==
    /\ media' = media
    /\ \A i \in Job \ {j} :
        /\ job'[i] = job[i] /\ pc'[i] = pc[i] /\ text'[i] = text[i] /\ done'[i] = done[i]
        /\ stored'[i] = stored[i] /\ scratch'[i] = scratch[i] /\ work'[i] = work[i]
        /\ i \in cleaned <=> i \in cleaned'
        /\ Inserted(i)' => Inserted(i) /\ doc'.text = doc.text

Keeps(j) == RunInv(j)' /\ OnlyOf(j)

LEMMA OthersKeep ==
    ASSUME MediaTypeOK, NEW j \in Job, NEW i \in Job \ {j}, OnlyOf(j), RunInv(i)
    PROVE  RunInv(i)'
<1> USE DEF RunInv, OnlyOf
<1>1. WorkedOnce(i)'
  BY DEF WorkedOnce, HasOutput
<1>2. NeedsWhisper(i)'
  BY DEF NeedsWhisper, HasOutput
<1>3. InsertsOnce(i)' /\ StartsEmpty(i)' /\ HoldsTranscript(i)'
  BY DEF InsertsOnce, StartsEmpty, HoldsTranscript
<1>4. StagesBehind(i)'
  BY DEF StagesBehind
<1> QED BY <1>1, <1>2, <1>3, <1>4

\* The end of a run: the scratch directory may go, the checkpoints only with
\* success.
LEMMA LeaveKeeps ==
    ASSUME MediaInv, NEW j \in Job, RunInv(j), NEW status, NEW attempts,
           Leave(j, status, attempts), UNCHANGED <<stored, work, shared>>,
           \/ status = "complete" /\ done' = [done EXCEPT ![j] = {}]
                                  /\ scratch' = [scratch EXCEPT ![j] = EmptyScratch]
           \/ done' = done /\ scratch' = ScratchAfterRun(j), pc[j] # "out"
    PROVE  Keeps(j)
<1> USE DEF MediaInv, MediaTypeOK, RunInv, Leave, shared, ScratchAfterRun
<1>1. /\ pc'[j] = "out" /\ media' = media /\ cleaned' = cleaned /\ doc' = doc
      /\ work'[j] = work[j] /\ stored'[j] = stored[j] /\ job'[j].status = status
      /\ \/ status = "complete" /\ scratch'[j] = EmptyScratch
         \/ done'[j] = done[j] /\ j \in Captured /\ scratch'[j] = EmptyScratch
         \/ done'[j] = done[j] /\ j \notin Captured /\ scratch'[j] = scratch[j]
  OBVIOUS
<1>2. WorkedOnce(j)'
  BY <1>1 DEF PlaceOK, WorkedOnce, HasOutput
<1>3. NeedsWhisper(j)' /\ InsertsOnce(j)'
  BY <1>1 DEF NeedsWhisper, InsertsOnce, Whispering, Looked, Late
<1>4. StartsEmpty(j)' /\ StagesBehind(j)'
  BY <1>1 DEF StartsEmpty, StagesBehind, EmptyScratch, Whispering
<1>5. HoldsTranscript(j)'
  BY <1>1 DEF HoldsTranscript, EmptyScratch, Late, Inserted
<1>6. OnlyOf(j)
  BY DEF OnlyOf, Inserted
<1> QED BY <1>1, <1>2, <1>3, <1>4, <1>5, <1>6 DEF Keeps

LEMMA ReturnKeeps ==
    ASSUME MediaInv, NEW j \in Job, RunInv(j), pc[j] # "out", Return(j)
    PROVE  Keeps(j)
BY LeaveKeeps DEF Return

LEMMA FailKeeps ==
    ASSUME MediaInv, NEW j \in Job, RunInv(j), pc[j] # "out", Fail(j)
    PROVE  Keeps(j)
BY LeaveKeeps DEF Fail

LEMMA RequeueKeeps ==
    ASSUME MediaInv, NEW j \in Job, RunInv(j), pc[j] # "out", NEW attempts,
           Requeue(j, attempts)
    PROVE  Keeps(j)
BY LeaveKeeps DEF Requeue

LEMMA RetryKeeps ==
    ASSUME MediaInv, NEW j \in Job, RunInv(j), pc[j] # "out", RaiseRetryable(j)
    PROVE  Keeps(j)
BY FailKeeps, RequeueKeeps DEF RaiseRetryable

\* What a step within a run does to j's own row of each table, and no other.
Step(j, step) ==
    /\ pc[j] # "out" /\ pc'[j] = step /\ job'[j] = job[j]
    /\ OnlyOf(j) /\ cleaned' = cleaned
    /\ scratch[j].wav => scratch'[j].wav
    /\ scratch[j].transcript # NoText => scratch'[j].transcript # NoText

\* The work of stage s is done unless its output is there.
PaidFor(j, s) ==
    \/ work'[j] = work[j] /\ done'[j] = done[j]
    \/ /\ ~HasOutput(j, s)
       /\ work'[j] = [work[j] EXCEPT ![s] = @ + 1]
       /\ done'[j] = IF j \in Captured THEN done[j] ELSE done[j] \cup {s}
       /\ s \in {"audio_downloaded", "audio_extracted"} => scratch'[j].wav
       /\ s \in {"transcribed", "transcript_obtained"} => scratch'[j].transcript # NoText

LEMMA PaidOnce ==
    ASSUME MediaTypeOK, PlaceOK, NEW j \in Job, NEW s \in Stage, NEW step,
           WorkedOnce(j), Step(j, step), PaidFor(j, s)
    PROVE  WorkedOnce(j)'
<1> SUFFICES ASSUME j \notin cleaned \cup Captured, NEW r \in Stage
             PROVE  /\ work'[j][r] <= 1
                    /\ work'[j][r] > 0 /\ job'[j].status # "complete" => HasOutput(j, r)'
  BY DEF WorkedOnce, Step
<1> USE DEF MediaTypeOK, WorkedOnce, Step
<1>1. CASE work'[j] = work[j] /\ done'[j] = done[j]
  BY <1>1 DEF HasOutput
<1>2. CASE ~(work'[j] = work[j] /\ done'[j] = done[j])
  <2>1. work[j][s] = 0
    <3>1. job[j].status = "running" /\ ~HasOutput(j, s)
      BY <1>2 DEF PaidFor, PlaceOK
    <3>2. work[j][s] \in Nat /\ ~(work[j][s] > 0)
      BY <3>1
    <3> QED BY <3>2
  <2>2. work'[j][s] = 1 /\ s \in done'[j]
    BY <1>2, <2>1 DEF PaidFor
  <2>3. r # s => work'[j][r] = work[j][r]
    BY <1>2 DEF PaidFor
  <2>4. done[j] \subseteq done'[j]
    BY <1>2 DEF PaidFor
  <2>5. CASE r = s
    BY <1>2, <2>2, <2>5 DEF PaidFor, HasOutput
  <2>6. CASE r # s
    BY <2>3, <2>4, <2>6 DEF HasOutput
  <2> QED BY <2>5, <2>6
<1> QED BY <1>1, <1>2

LEMMA FinishedPays ==
    ASSUME MediaTypeOK, NEW j \in Job, NEW s \in Stage, Finished(j, s), ~HasOutput(j, s),
           s \in {"audio_downloaded", "audio_extracted"} => scratch'[j].wav,
           s \in {"transcribed", "transcript_obtained"} => scratch'[j].transcript # NoText
    PROVE  PaidFor(j, s) /\ \A i \in Job \ {j} : work'[i] = work[i] /\ done'[i] = done[i]
BY DEF MediaTypeOK, Finished, Complete, PaidFor

LEMMA RecordPays ==
    ASSUME MediaTypeOK, NEW j \in Job, NEW s \in Stage, Record(j, s),
           s \notin {"audio_downloaded", "audio_extracted", "transcribed", "transcript_obtained"}
    PROVE  PaidFor(j, s) /\ \A i \in Job \ {j} : work'[i] = work[i] /\ done'[i] = done[i]
BY FinishedPays DEF Record, PaidFor

LEMMA MakeWavPays ==
    ASSUME MediaTypeOK, NEW j \in Job, NEW s \in {"audio_downloaded", "audio_extracted"},
           MakeWav(j, s)
    PROVE  /\ PaidFor(j, s)
           /\ scratch'[j].wav /\ scratch'[j].transcript = scratch[j].transcript
           /\ j \notin Captured => s \in done'[j]
           /\ \A i \in Job \ {j} : /\ work'[i] = work[i] /\ done'[i] = done[i]
                                   /\ scratch'[i] = scratch[i]
<1>1. s \in Stage
  BY DEF Stage
<1>2. CASE HasOutput(j, s)
  BY <1>2 DEF MakeWav, PaidFor, HasOutput
<1>3. CASE ~HasOutput(j, s)
  <2>1. Finished(j, s) /\ scratch' = [scratch EXCEPT ![j].wav = TRUE]
    BY <1>3 DEF MakeWav
  <2>2. /\ scratch'[j].wav /\ scratch'[j].transcript = scratch[j].transcript
        /\ \A i \in Job \ {j} : scratch'[i] = scratch[i]
    BY <2>1 DEF MediaTypeOK
  <2>3. j \notin Captured => s \in done'[j]
    BY <2>1 DEF Finished, Complete, MediaTypeOK
  <2>4. PaidFor(j, s) /\ \A i \in Job \ {j} : work'[i] = work[i] /\ done'[i] = done[i]
    BY <1>1, <1>3, <2>1, <2>2, FinishedPays
  <2> QED BY <2>2, <2>3, <2>4
<1> QED BY <1>2, <1>3

LEMMA SaidChanges ==
    ASSUME MediaTypeOK, NEW j \in Job, NEW t, text' = [text EXCEPT ![j].said = t]
    PROVE  text'[j].said = t /\ \A i \in Job \ {j} : text'[i] = text[i]
<1>1. text[j] \in Text /\ text'[j] = [text[j] EXCEPT !.said = t]
  BY DEF MediaTypeOK
<1>2. text'[j].said = t
  BY <1>1 DEF Text
<1> QED BY <1>2 DEF MediaTypeOK

LEMMA WhisperPays ==
    ASSUME MediaInv, NEW j \in Job,
           NEW s \in {"transcribed", "transcript_obtained"}, Whisper(j, s), ~HasOutput(j, s)
    PROVE  /\ PaidFor(j, s)
           /\ scratch[j].wav /\ scratch'[j].wav /\ scratch'[j].transcript # NoText
           /\ text'[j].said = scratch'[j].transcript /\ stored' = stored
           /\ j \notin Captured => done'[j] = done[j] \cup {s}
           /\ \A i \in Job \ {j} : /\ work'[i] = work[i] /\ done'[i] = done[i]
                                   /\ scratch'[i] = scratch[i] /\ text'[i] = text[i]
<1>1. PICK t \in Transcript :
        /\ text' = [text EXCEPT ![j].said = t]
        /\ scratch' = [scratch EXCEPT ![j].transcript = t]
  BY DEF Whisper
<1>2. t # NoText
  BY TextAssumption DEF NoText
<1>3. /\ scratch[j].wav /\ scratch'[j].wav /\ scratch'[j].transcript = t
      /\ text'[j].said = t /\ stored' = stored
      /\ \A i \in Job \ {j} : scratch'[i] = scratch[i] /\ text'[i] = text[i]
  <2>2. text'[j].said = t /\ \A i \in Job \ {j} : text'[i] = text[i]
    BY <1>1, SaidChanges DEF MediaInv
  <2>3. scratch[j].wav /\ stored' = stored
    BY DEF Whisper
  <2>4. scratch'[j].wav /\ scratch'[j].transcript = t
    BY <1>1, <2>3 DEF MediaInv, MediaTypeOK
  <2> QED BY <1>1, <2>2, <2>3, <2>4 DEF MediaInv, MediaTypeOK
<1>4. s \in Stage
  BY DEF Stage
<1>5. Finished(j, s)
  BY DEF Whisper
<1>6. PaidFor(j, s) /\ \A i \in Job \ {j} : work'[i] = work[i] /\ done'[i] = done[i]
  BY <1>2, <1>3, <1>4, <1>5, FinishedPays DEF MediaInv
<1>7. j \notin Captured => done'[j] = done[j] \cup {s}
  BY <1>5 DEF Finished, Complete, MediaInv, MediaTypeOK
<1> QED BY <1>2, <1>3, <1>6, <1>7

\* What remains to be said of a step once the work is accounted for.
Rest(j) ==
    NeedsWhisper(j) /\ InsertsOnce(j) /\ StartsEmpty(j) /\ StagesBehind(j) /\ HoldsTranscript(j)

LEMMA StepKeeps ==
    ASSUME MediaInv, NEW j \in Job, NEW s \in Stage, NEW step, RunInv(j), Step(j, step),
           PaidFor(j, s), Rest(j)'
    PROVE  Keeps(j)
BY PaidOnce DEF MediaInv, RunInv, Rest, Keeps, Step

LEMMA GoOnKeeps ==
    ASSUME MediaInv, NEW j \in Job, NEW step \in PC, RunInv(j), pc[j] # "out",
           GoTo(j, step), UNCHANGED progress,
           step \in Looked => doc = NoDoc \/ pc[j] \in Looked,
           step \in Early => pc[j] \in Early,
           step \in Late => \/ pc[j] \in Late
                            \/ scratch[j].transcript = NoText,
           step \in Whispering => /\ step = "audio_downloaded" /\ media = "podcast"
                                  /\ ~HasOutput(j, "transcript_obtained")
    PROVE  Keeps(j)
<1>1. /\ Step(j, step) /\ UNCHANGED <<media, doc, progress>>
      /\ work'[j] = work[j] /\ done'[j] = done[j]
  BY DEF GoTo, shared, progress, Step, OnlyOf, Inserted, MediaInv, MediaTypeOK
<1>2. PaidFor(j, "summarized") /\ "summarized" \in Stage
  BY <1>1 DEF PaidFor, Stage
<1> USE DEF RunInv, Step, progress
<1>3. NeedsWhisper(j)'
  BY <1>1 DEF NeedsWhisper, HasOutput
<1>4. InsertsOnce(j)' /\ StartsEmpty(j)'
  BY <1>1 DEF InsertsOnce, Inserted, StartsEmpty
<1>5. StagesBehind(j)' /\ HoldsTranscript(j)'
  BY <1>1 DEF StagesBehind, HoldsTranscript, Inserted, Whispering
<1> QED BY <1>1, <1>2, <1>3, <1>4, <1>5, StepKeeps DEF Rest

\* A stage other than the transcript's own is done, or was.
LEMMA StageKeeps ==
    ASSUME MediaInv, NEW j \in Job, NEW step \in PC, NEW s \in Stage, RunInv(j), pc[j] # "out",
           GoTo(j, step), PaidFor(j, s),
           \A i \in Job \ {j} : work'[i] = work[i] /\ done'[i] = done[i],
           \A i \in Job \ {j} : scratch'[i] = scratch[i],
           UNCHANGED <<text, stored>>,
           scratch'[j].transcript = scratch[j].transcript,
           scratch[j].wav => scratch'[j].wav,
           s \notin {"transcribed", "transcript_obtained"},
           step \in Looked => pc[j] \in Looked,
           step \in Early => pc[j] \in Early,
           step \in Late => pc[j] \in Late,
           step \in Whispering => pc[j] = "audio_downloaded" \/ media = "video",
           media = "video" /\ j \notin Captured /\ step = "transcribed" =>
                "audio_extracted" \in done'[j]
    PROVE  Keeps(j)
<1>1. Step(j, step) /\ UNCHANGED <<media, doc, text, stored, cleaned>>
  BY DEF GoTo, shared, Step, OnlyOf, Inserted, MediaInv, MediaTypeOK
<1>2. done[j] \subseteq done'[j] /\ done'[j] \subseteq done[j] \cup {s}
  BY DEF PaidFor
<1> USE DEF RunInv, Step
<1>3. NeedsWhisper(j)'
  BY <1>1, <1>2 DEF NeedsWhisper, HasOutput, Whispering
<1>4. InsertsOnce(j)' /\ StartsEmpty(j)'
  BY <1>1 DEF InsertsOnce, Inserted, StartsEmpty
<1>5. StagesBehind(j)'
  BY <1>1, <1>2 DEF StagesBehind, Whispering
<1>6. HoldsTranscript(j)'
  BY <1>1 DEF HoldsTranscript, Inserted
<1> QED BY <1>1, <1>3, <1>4, <1>5, <1>6, StepKeeps DEF Rest

\* The transcript is made, by Whisper or from the feed.
LEMMA ToldKeeps ==
    ASSUME MediaInv, NEW j \in Job, NEW step \in Late, RunInv(j), pc[j] \in Looked,
           NEW s \in {"transcribed", "transcript_obtained"}, GoTo(j, step), PaidFor(j, s),
           \A i \in Job \ {j} : /\ work'[i] = work[i] /\ done'[i] = done[i]
                               /\ scratch'[i] = scratch[i] /\ text'[i] = text[i],
           UNCHANGED stored,
           scratch[j].wav => scratch'[j].wav,
           scratch'[j].transcript # NoText,
           text'[j].said = scratch'[j].transcript,
           j \notin Captured => done'[j] = done[j] \cup {s},
           media # "article",
           media \in {"youtube", "video"} => /\ s = "transcribed" /\ pc[j] = "transcribed"
                                            /\ scratch[j].wav
    PROVE  Keeps(j)
<1>1. Step(j, step) /\ UNCHANGED <<media, doc, stored, cleaned>> /\ s \in Stage
  BY DEF GoTo, shared, Step, OnlyOf, Inserted, MediaInv, MediaTypeOK, Looked, Late, Stage
<1> USE DEF RunInv, Step
<1>3. NeedsWhisper(j)' /\ InsertsOnce(j)'
  BY <1>1 DEF NeedsWhisper, Whispering, Late, InsertsOnce, Inserted
<1>4. StartsEmpty(j)'
  BY <1>1 DEF StartsEmpty, Early, Late
<1>5. StagesBehind(j)'
  BY <1>1 DEF StagesBehind, Whispering, Late
<1>6. HoldsTranscript(j)'
  BY <1>1 DEF HoldsTranscript, Inserted, InsertsOnce
<1> QED BY <1>1, <1>3, <1>4, <1>5, <1>6, StepKeeps DEF Rest

\* Only what the run has in its hands changes.
LEMMA ReadKeeps ==
    ASSUME MediaInv, NEW j \in Job, NEW step \in PC, RunInv(j), pc[j] # "out",
           GoTo(j, step), UNCHANGED <<done, stored, scratch, work>>,
           \A i \in Job \ {j} : text'[i] = text[i],
           step \in Looked => pc[j] \in Looked,
           step \in Early => pc[j] \in Early,
           step \notin Whispering,
           step \in Late => text'[j].said = scratch[j].transcript
    PROVE  Keeps(j)
<1>1. /\ Step(j, step) /\ UNCHANGED <<media, doc, done, stored, scratch, work, cleaned>>
      /\ PaidFor(j, "summarized") /\ "summarized" \in Stage
  BY DEF GoTo, shared, Step, OnlyOf, Inserted, MediaInv, MediaTypeOK, PaidFor, Stage
<1> USE DEF RunInv, Step
<1>2. NeedsWhisper(j)' /\ InsertsOnce(j)' /\ StartsEmpty(j)'
  BY <1>1 DEF NeedsWhisper, InsertsOnce, Inserted, StartsEmpty
<1>3. StagesBehind(j)' /\ HoldsTranscript(j)'
  BY <1>1 DEF StagesBehind, HoldsTranscript, Inserted, Whispering
<1> QED BY <1>1, <1>2, <1>3, StepKeeps DEF Rest

\* From the vault on nothing is read or worked on any more.
LEMMA StoreKeeps ==
    ASSUME MediaInv, NEW j \in Job, NEW step \in PC \ Early, RunInv(j), pc[j] # "out",
           pc' = [pc EXCEPT ![j] = step], UNCHANGED <<media, job, progress, cleaned>>,
           step \in Late => doc' = doc /\ pc[j] \in Late,
           \/ doc' = doc
           \/ /\ doc = NoDoc /\ doc'.by = j /\ doc'.text = text[j] /\ pc[j] \in Late
           \/ /\ Inserted(j) /\ doc'.by = j /\ doc'.text = doc.text
    PROVE  Keeps(j)
<1>1. Step(j, step)
  BY DEF progress, Step, OnlyOf, Inserted, MediaInv, MediaTypeOK
<1>2. PaidFor(j, "summarized") /\ "summarized" \in Stage
  BY DEF PaidFor, Stage, progress
<1> USE <1>1 DEF RunInv, Step, progress
<1>3. NeedsWhisper(j)' /\ InsertsOnce(j)'
  BY DEF NeedsWhisper, Whispering, Early, InsertsOnce, Inserted, Looked, Late
<1>4. StartsEmpty(j)' /\ StagesBehind(j)'
  BY DEF StartsEmpty, StagesBehind, Whispering, Early
<1>5. HoldsTranscript(j)'
  BY DEF HoldsTranscript, Inserted
<1> QED BY <1>1, <1>2, <1>3, <1>4, <1>5, StepKeeps DEF Rest

-----------------------------------------------------------------------------
(* The shared steps and the handlers again, now for the work.              *)

LEMMA DedupeKeeps ==
    ASSUME MediaInv, NEW j \in Job, RunInv(j), NEW step \in PC, DedupeThen(j, step),
           step \notin Whispering, step \in Late => media = "article"
    PROVE  Keeps(j)
<1>1. CASE AlreadyIngested
  BY <1>1, ReturnKeeps DEF DedupeThen, AlreadyIngested
<1>2. CASE ~AlreadyIngested
  <2>1. step \in Late => scratch[j].transcript = NoText
    BY DEF RunInv, StartsEmpty
  <2>2. /\ pc[j] = "dedupe" /\ doc = NoDoc /\ GoTo(j, step) /\ UNCHANGED progress
        /\ pc[j] \in Early
    BY <1>2 DEF DedupeThen, AlreadyIngested, Early
  <2> QED BY <2>1, <2>2, GoOnKeeps
<1> QED BY <1>1, <1>2

LEMMA RecordKeeps ==
    ASSUME MediaInv, NEW j \in Job, RunInv(j), NEW step \in PC \ Whispering,
           NEW s \in Stage \ {"audio_downloaded", "audio_extracted", "transcribed",
                              "transcript_obtained"},
           pc[j] # "out", GoTo(j, step), Record(j, s), UNCHANGED <<text, stored, scratch>>,
           step \in Looked => pc[j] \in Looked,
           step \in Early => pc[j] \in Early,
           step \in Late => pc[j] \in Late
    PROVE  Keeps(j)
<1>1. PaidFor(j, s) /\ \A i \in Job \ {j} : work'[i] = work[i] /\ done'[i] = done[i]
  BY RecordPays DEF MediaInv
<1> QED BY <1>1, StageKeeps DEF Whispering

LEMMA FinishKeeps ==
    ASSUME MediaInv, NEW j \in Job, RunInv(j), Finish(j)
    PROVE  Keeps(j)
<1>1. CASE WriteVaultFile(j)
  BY <1>1, StoreKeeps DEF WriteVaultFile, PC, Early, Late
<1>2. CASE EmbedCircuitOpen(j)
  BY <1>2, RequeueKeeps DEF EmbedCircuitOpen
<1>3. CASE ReturnResult(j)
  BY <1>3, ReturnKeeps DEF ReturnResult
<1>4. CASE StoreFails(j)
  BY <1>4, FailKeeps DEF StoreFails
<1> QED BY <1>1, <1>2, <1>3, <1>4 DEF Finish

LEMMA InsertKeeps ==
    ASSUME MediaInv, NEW j \in Job, RunInv(j), NEW step \in {"doc_written", "embed"},
           InsertThen(j, step)
    PROVE  Keeps(j)
<1>1. CASE doc # NoDoc
  BY <1>1, FailKeeps DEF InsertThen
<1>2. CASE doc = NoDoc
  <2>1. /\ pc[j] = "insert" /\ doc' = NewDocument(j) /\ pc' = [pc EXCEPT ![j] = step]
        /\ UNCHANGED <<media, job, progress, vault, cleaned>>
    BY <1>2 DEF InsertThen
  <2>2. doc'.by = j /\ doc'.text = text[j]
    BY <2>1 DEF NewDocument
  <2>3. step \in PC \ Early /\ step \notin Late /\ pc[j] \in Late
    BY <2>1 DEF PC, Early, Late
  <2> QED BY <1>2, <2>1, <2>2, <2>3, StoreKeeps
<1> QED BY <1>1, <1>2

LEMMA EmbedKeeps ==
    ASSUME MediaInv, NEW j \in Job, RunInv(j), NEW step \in {"doc_written", "return"},
           EmbedThen(j, step)
    PROVE  Keeps(j)
<1>1. Inserted(j) /\ doc \in [by : Job, text : Text, status : {"ingesting", "embedded"}]
  BY DEF EmbedThen, MediaInv, MediaTypeOK, PlaceOK, Inserted
<1>2. doc'.by = j /\ doc'.text = doc.text
  BY <1>1 DEF EmbedThen, Inserted
<1> QED BY <1>1, <1>2, StoreKeeps DEF EmbedThen, PC, Early, Late

LEMMA RecordDocumentKeeps ==
    ASSUME MediaInv, NEW j \in Job, RunInv(j), NEW step \in {"embed", "return"},
           RecordDocumentThen(j, step)
    PROVE  Keeps(j)
<1>1. /\ pc[j] = "doc_written" /\ Step(j, step)
      /\ UNCHANGED <<media, doc, text, stored, scratch, work, cleaned>>
      /\ done[j] \subseteq done'[j] /\ done'[j] \subseteq done[j] \cup {"doc_written"}
  BY DEF RecordDocumentThen, GoTo, shared, Complete, Step, OnlyOf, Inserted, MediaInv, MediaTypeOK
<1> USE <1>1 DEF RunInv, Step
<1>2. WorkedOnce(j)'
  BY DEF WorkedOnce, HasOutput
<1>3. NeedsWhisper(j)' /\ InsertsOnce(j)' /\ StartsEmpty(j)'
  BY DEF NeedsWhisper, Whispering, InsertsOnce, Looked, Late, StartsEmpty, Early
<1>4. StagesBehind(j)' /\ HoldsTranscript(j)'
  BY DEF StagesBehind, Whispering, HoldsTranscript, Late, Inserted
<1> QED BY <1>1, <1>2, <1>3, <1>4 DEF Keeps

LEMMA CaptionsKeep ==
    ASSUME MediaInv, NEW j \in Job, RunInv(j), media = "youtube",
           AttemptCaptions(j)
    PROVE  Keeps(j)
<1>1. PICK usable \in BOOLEAN :
        /\ HasOutput(j, "captions_attempted") => usable = stored[j]
        /\ stored' = [stored EXCEPT ![j] = usable]
        /\ text' = [text EXCEPT ![j].said = Obtained(j, usable)]
        /\ GoTo(j, AfterCaptions(j, usable))
  BY DEF AttemptCaptions
<1> DEFINE step == AfterCaptions(j, usable)
<1>2. /\ PaidFor(j, "captions_attempted") /\ "captions_attempted" \in Stage
      /\ \A i \in Job \ {j} : work'[i] = work[i] /\ done'[i] = done[i]
  BY RecordPays DEF AttemptCaptions, Stage, MediaInv
<1>3. /\ done[j] \subseteq done'[j] /\ done'[j] \subseteq done[j] \cup {"captions_attempted"}
      /\ j \notin Captured => "captions_attempted" \in done'[j]
  <2>1. Record(j, "captions_attempted")
    BY DEF AttemptCaptions
  <2>2. CASE HasOutput(j, "captions_attempted")
    BY <2>1, <2>2 DEF Record, HasOutput
  <2>3. CASE ~HasOutput(j, "captions_attempted")
    <3>1. done'[j] = IF j \in Captured THEN done[j] ELSE done[j] \cup {"captions_attempted"}
      BY <2>1, <2>3 DEF Record, Finished, Complete, MediaInv, MediaTypeOK
    <3> QED BY <3>1
  <2> QED BY <2>2, <2>3
<1>4. text'[j].said = Obtained(j, usable) /\ \A i \in Job \ {j} : text'[i] = text[i]
  BY <1>1, SaidChanges DEF MediaInv
<1>5. /\ Step(j, step) /\ UNCHANGED <<media, doc, scratch, cleaned>>
      /\ stored'[j] = usable /\ pc[j] = "captions_attempted"
  BY <1>1, <1>2, <1>4 DEF AttemptCaptions, GoTo, shared, Step, OnlyOf, Inserted,
                          MediaInv, MediaTypeOK
<1>6. step \in {"audio_downloaded", "summarized"}
  BY DEF AfterCaptions
<1>7. scratch[j].transcript # NoText =>
        /\ j \notin Captured /\ ~usable
        /\ Obtained(j, usable) = scratch[j].transcript /\ step = "summarized"
  <2> SUFFICES ASSUME scratch[j].transcript # NoText
               PROVE  /\ j \notin Captured /\ ~usable
                      /\ Obtained(j, usable) = scratch[j].transcript /\ step = "summarized"
    OBVIOUS
  <2>1. j \notin Captured
    BY <1>5 DEF RunInv, StartsEmpty, Early
  <2>2. "captions_attempted" \in done[j] /\ ~stored[j] /\ "transcribed" \in done[j]
    BY <2>1 DEF RunInv, StagesBehind
  <2>3. ~usable /\ HasOutput(j, "transcribed")
    BY <1>1, <2>2 DEF HasOutput
  <2> QED BY <2>1, <2>3 DEF Obtained, AfterCaptions
<1>8. step = "audio_downloaded" => ~usable
  BY TextAssumption DEF AfterCaptions, Obtained, NoText
<1> HIDE DEF step
<1> USE DEF RunInv, Step
<1>9. NeedsWhisper(j)'
  BY <1>5, <1>7, <1>6 DEF NeedsWhisper, HasOutput, Whispering
<1>10. InsertsOnce(j)' /\ StartsEmpty(j)'
  BY <1>5, <1>6 DEF InsertsOnce, Inserted, Looked, StartsEmpty, Early
<1>11. StagesBehind(j)'
  BY <1>3, <1>5, <1>6, <1>7, <1>8 DEF StagesBehind, Whispering
<1>12. HoldsTranscript(j)'
  BY <1>4, <1>5, <1>7 DEF HoldsTranscript, InsertsOnce, Inserted, Looked
<1> QED BY <1>2, <1>5, <1>9, <1>10, <1>11, <1>12, StepKeeps DEF Rest

LEMMA YouTubeKeeps ==
    ASSUME MediaInv, NEW j \in Job, RunInv(j), media = "youtube",
           YouTubeHandle(j)
    PROVE  Keeps(j)
<1>1. CASE YouTubeStart(j)
  <2>1. CASE "doc_written" \in done[j]
    BY <1>1, <2>1, ReturnKeeps DEF YouTubeStart
  <2>2. CASE "doc_written" \notin done[j]
    BY <1>1, <2>2, GoOnKeeps DEF YouTubeStart, PC, Looked, Early, Late, Whispering
  <2> QED BY <2>1, <2>2
<1>2. CASE DedupeThen(j, "metadata_fetched")
  BY <1>2, DedupeKeeps DEF PC, Stage, Whispering, Late
<1>3. CASE FetchMetadata(j)
  BY <1>3, RecordKeeps DEF FetchMetadata, PC, Stage, Whispering, Looked, Early, Late
<1>4. CASE AttemptCaptions(j)
  BY <1>4, CaptionsKeep
<1>5. CASE DownloadAudio(j)
  BY <1>5, MakeWavPays, StageKeeps
     DEF DownloadAudio, MediaInv, PC, Stage, Whispering, Looked, Early, Late
<1>6. CASE Transcribe(j)
  <2>1. ~HasOutput(j, "transcribed")
    BY <1>6 DEF Transcribe, RunInv, NeedsWhisper, Whispering
  <2> QED BY <1>6, <2>1, WhisperPays, ToldKeeps DEF Transcribe, Looked, Late
<1>7. CASE TransientFailure(j) \/ PermanentFailure(j)
  BY <1>7, RetryKeeps, FailKeeps DEF TransientFailure, PermanentFailure, CanFail
<1>8. CASE Summarize(j)
  BY <1>8, RecordKeeps DEF Summarize, PC, Stage, Whispering, Looked, Early, Late
<1>9. CASE CheckHash(j)
  <2>1. CASE doc # NoDoc /\ doc.text = text[j]
    BY <1>9, <2>1, ReturnKeeps DEF CheckHash
  <2>2. CASE ~(doc # NoDoc /\ doc.text = text[j])
    BY <1>9, <2>2, GoOnKeeps DEF CheckHash, PC, Looked, Early, Late, Whispering
  <2> QED BY <2>1, <2>2
<1> QED BY <1>1, <1>2, <1>3, <1>4, <1>5, <1>6, <1>7, <1>8, <1>9, InsertKeeps,
           RecordDocumentKeeps, EmbedKeeps, FinishKeeps
        DEF YouTubeHandle

LEMMA PodcastKeeps ==
    ASSUME MediaInv, NEW j \in Job, RunInv(j), media = "podcast",
           PodcastHandle(j)
    PROVE  Keeps(j)
<1>1. CASE PodcastStart(j)
  <2>1. CASE "doc_written" \in done[j] /\ doc # NoDoc
    BY <1>1, <2>1, ReturnKeeps DEF PodcastStart
  <2>2. CASE ~("doc_written" \in done[j] /\ doc # NoDoc)
    BY <1>1, <2>2, GoOnKeeps DEF PodcastStart, PC, Looked, Early, Late, Whispering
  <2> QED BY <2>1, <2>2
<1>2. CASE DedupeThen(j, "transcript_obtained")
  BY <1>2, DedupeKeeps DEF PC, Stage, Whispering, Late
<1>3. CASE ReuseTranscript(j)
  <2>1. text'[j].said = scratch[j].transcript /\ \A i \in Job \ {j} : text'[i] = text[i]
    BY <1>3 DEF ReuseTranscript, MediaInv, MediaTypeOK, Text
  <2> QED BY <1>3, <2>1, ReadKeeps
          DEF ReuseTranscript, PC, Stage, Looked, Early, Late, Whispering
<1>4. CASE RssTranscript(j)
  <2>1. /\ text'[j].said = Published /\ scratch'[j].transcript = Published
        /\ scratch'[j].wav = scratch[j].wav
        /\ \A i \in Job \ {j} : scratch'[i] = scratch[i] /\ text'[i] = text[i]
    <3>1. scratch' = [scratch EXCEPT ![j].transcript = Published]
      BY <1>4 DEF RssTranscript
    <3>2. text' = [text EXCEPT ![j].said = Published]
      BY <1>4 DEF RssTranscript
    <3>3. text'[j].said = Published /\ \A i \in Job \ {j} : text'[i] = text[i]
      BY <3>2, SaidChanges DEF MediaInv
    <3> QED BY <3>1, <3>3 DEF MediaInv, MediaTypeOK
  <2>2. Published # NoText
    BY TextAssumption DEF NoText
  <2>3. /\ PaidFor(j, "transcript_obtained")
        /\ \A i \in Job \ {j} : work'[i] = work[i] /\ done'[i] = done[i]
    BY <1>4, <2>1, <2>2, FinishedPays DEF RssTranscript, Stage, MediaInv
  <2>4. j \notin Captured => done'[j] = done[j] \cup {"transcript_obtained"}
    BY <1>4 DEF RssTranscript, Finished, Complete, MediaInv, MediaTypeOK
  <2> QED BY <1>4, <2>1, <2>2, <2>3, <2>4, ToldKeeps DEF RssTranscript, Looked, Late
<1>5. CASE NoRssTranscript(j)
  BY <1>5, GoOnKeeps DEF NoRssTranscript, PC, Stage, Looked, Early, Late, Whispering
<1>6. CASE DownloadEpisode(j)
  BY <1>6, MakeWavPays, StageKeeps
     DEF DownloadEpisode, MediaInv, PC, Stage, Whispering, Looked, Early, Late
<1>7. CASE TranscribeEpisode(j)
  <2>1. ~HasOutput(j, "transcript_obtained")
    BY <1>7 DEF TranscribeEpisode, RunInv, NeedsWhisper, Whispering
  <2> QED BY <1>7, <2>1, WhisperPays, ToldKeeps DEF TranscribeEpisode, Looked, Late
<1>8. CASE WhisperFallbackFails(j) \/ NoTranscript(j)
  BY <1>8, RetryKeeps, FailKeeps DEF WhisperFallbackFails, NoTranscript
<1>9. CASE ExtractMetadata(j)
  BY <1>9, RecordKeeps DEF ExtractMetadata, PC, Stage, Whispering, Looked, Early, Late
<1>10. CASE Summarize(j)
  BY <1>10, RecordKeeps DEF Summarize, PC, Stage, Whispering, Looked, Early, Late
<1>11. CASE CheckHash(j)
  <2>1. CASE doc # NoDoc /\ doc.text = text[j]
    BY <1>11, <2>1, ReturnKeeps DEF CheckHash
  <2>2. CASE ~(doc # NoDoc /\ doc.text = text[j])
    BY <1>11, <2>2, GoOnKeeps DEF CheckHash, PC, Looked, Early, Late, Whispering
  <2> QED BY <2>1, <2>2
<1> QED BY <1>1, <1>2, <1>3, <1>4, <1>5, <1>6, <1>7, <1>8, <1>9, <1>10, <1>11,
           InsertKeeps, RecordDocumentKeeps, EmbedKeeps, FinishKeeps
        DEF PodcastHandle

LEMMA ReadFramesKeeps ==
    ASSUME MediaInv, NEW j \in Job, RunInv(j), media = "video", ReadFrames(j)
    PROVE  Keeps(j)
<1>1. PICK found \in BOOLEAN :
        /\ stored' = [stored EXCEPT ![j] = found]
        /\ text' = [text EXCEPT ![j].shown = found]
  BY DEF ReadFrames
<1>2. text'[j].said = text[j].said /\ \A i \in Job \ {j} : text'[i] = text[i]
  <2>1. text[j] \in Text /\ text'[j] = [text[j] EXCEPT !.shown = found]
    BY <1>1 DEF MediaInv, MediaTypeOK
  <2>2. text'[j].said = text[j].said
    BY <2>1 DEF Text
  <2> QED BY <1>1, <2>2 DEF MediaInv, MediaTypeOK
<1>3. /\ PaidFor(j, "ocr_done") /\ "ocr_done" \in Stage
      /\ \A i \in Job \ {j} : work'[i] = work[i] /\ done'[i] = done[i]
  BY RecordPays DEF ReadFrames, Stage, MediaInv
<1>4. done[j] \subseteq done'[j] /\ done'[j] \subseteq done[j] \cup {"ocr_done"}
  BY <1>3 DEF PaidFor
<1>5. /\ Step(j, "combine") /\ UNCHANGED <<media, doc, scratch, cleaned>>
      /\ pc[j] = "ocr_done"
  BY <1>1, <1>2, <1>3 DEF ReadFrames, GoTo, shared, Step, OnlyOf, Inserted,
                          MediaInv, MediaTypeOK
<1> USE DEF RunInv, Step
<1>6. NeedsWhisper(j)' /\ InsertsOnce(j)' /\ StartsEmpty(j)'
  BY <1>5 DEF NeedsWhisper, Whispering, InsertsOnce, Inserted, Looked, Late, StartsEmpty, Early
<1>7. StagesBehind(j)'
  BY <1>4, <1>5 DEF StagesBehind, Whispering
<1>8. HoldsTranscript(j)'
  BY <1>2, <1>5 DEF HoldsTranscript, Inserted, Late
<1> QED BY <1>3, <1>5, <1>6, <1>7, <1>8, StepKeeps DEF Rest

LEMMA VideoKeeps ==
    ASSUME MediaInv, NEW j \in Job, RunInv(j), media = "video", VideoHandle(j)
    PROVE  Keeps(j)
<1>1. CASE VideoStart(j)
  <2>1. CASE "doc_written" \in done[j] /\ doc # NoDoc
    BY <1>1, <2>1, ReturnKeeps DEF VideoStart
  <2>2. CASE ~("doc_written" \in done[j] /\ doc # NoDoc)
    BY <1>1, <2>2, GoOnKeeps DEF VideoStart, PC, Stage, Looked, Early, Late, Whispering
  <2> QED BY <2>1, <2>2
<1>2. CASE VideoUnreadable(j)
  BY <1>2, FailKeeps DEF VideoUnreadable
<1>3. CASE ComputeHash(j)
  BY <1>3, RecordKeeps DEF ComputeHash, PC, Stage, Whispering, Looked, Early, Late
<1>4. CASE DedupeThen(j, "audio_extracted")
  BY <1>4, DedupeKeeps DEF PC, Stage, Whispering, Late
<1>5. CASE ExtractAudio(j)
  BY <1>5, MakeWavPays, StageKeeps
     DEF ExtractAudio, MediaInv, PC, Stage, Whispering, Looked, Early, Late
<1>6. CASE ReuseVideoTranscript(j)
  <2>1. text'[j].said = scratch[j].transcript /\ \A i \in Job \ {j} : text'[i] = text[i]
    BY <1>6, SaidChanges DEF ReuseVideoTranscript, MediaInv
  <2> QED BY <1>6, <2>1, ReadKeeps
          DEF ReuseVideoTranscript, PC, Stage, Looked, Early, Late, Whispering
<1>7. CASE TranscribeVideo(j)
  BY <1>7, WhisperPays, ToldKeeps DEF TranscribeVideo, Looked, Late
<1>8. CASE LooksTransient(j)
  BY <1>8, RetryKeeps DEF LooksTransient, StillToDo
<1>9. CASE GoOnWithout(j)
  <2>1. CASE pc[j] = "ocr_done"
    BY <1>9, <2>1, GoOnKeeps DEF GoOnWithout, PC, Looked, Early, Late, Whispering
  <2>2. CASE pc[j] # "ocr_done"
    <3>1. pc[j] \in {"audio_extracted", "transcribed"} /\ ~HasOutput(j, pc[j])
      BY <1>9, <2>2 DEF GoOnWithout, StillToDo
    <3>2. scratch[j].transcript = NoText
      BY <3>1 DEF RunInv, StartsEmpty, StagesBehind, Early, HasOutput
    <3>3. GoTo(j, "ocr_done") /\ UNCHANGED progress
      BY <1>9, <2>2 DEF GoOnWithout
    <3> QED BY <3>1, <3>2, <3>3, GoOnKeeps DEF PC, Stage, Looked, Early, Late, Whispering
  <2> QED BY <2>1, <2>2
<1>10. CASE ReadFrames(j)
  BY <1>10, ReadFramesKeeps
<1>11. CASE Combine(j)
  <2>1. CASE text[j] = Silence
    BY <1>11, <2>1, FailKeeps DEF Combine
  <2>2. CASE text[j] # Silence
    BY <1>11, <2>2, GoOnKeeps DEF Combine, PC, Looked, Early, Late, Whispering
  <2> QED BY <2>1, <2>2
<1> QED BY <1>1, <1>2, <1>3, <1>4, <1>5, <1>6, <1>7, <1>8, <1>9, <1>10, <1>11,
           InsertKeeps, RecordDocumentKeeps, EmbedKeeps, FinishKeeps
        DEF VideoHandle

LEMMA ArticleKeeps ==
    ASSUME MediaInv, NEW j \in Job, RunInv(j), media = "article", ArticleHandle(j)
    PROVE  Keeps(j)
<1>1. CASE ArticleStart(j)
  <2>1. CASE "doc_written" \in done[j]
    BY <1>1, <2>1, ReturnKeeps DEF ArticleStart
  <2>2. CASE "doc_written" \notin done[j]
    BY <1>1, <2>2, GoOnKeeps DEF ArticleStart, PC, Looked, Early, Late, Whispering
  <2> QED BY <2>1, <2>2
<1>2. CASE FetchArticle(j)
  <2>1. \A i \in Job \ {j} : text'[i] = text[i]
    BY <1>2 DEF FetchArticle, MediaInv, MediaTypeOK
  <2> QED BY <1>2, <2>1, ReadKeeps DEF FetchArticle, PC, Looked, Early, Late, Whispering
<1>3. CASE FetchFails(j)
  BY <1>3, FailKeeps DEF FetchFails
<1>4. CASE DedupeThen(j, "vault")
  BY <1>4, DedupeKeeps DEF PC, Whispering
<1> QED BY <1>1, <1>2, <1>3, <1>4, InsertKeeps, RecordDocumentKeeps, EmbedKeeps, FinishKeeps
        DEF ArticleHandle

LEMMA QueueKeeps ==
    ASSUME MediaInv, NEW j \in Job, RunInv(j), SubmitMedia(j) \/ ClaimMedia(j) \/ Die(j)
    PROVE  Keeps(j)
<1>1. CASE Die(j)
  BY <1>1, FailKeeps DEF Die
<1>2. CASE SubmitMedia(j) \/ ClaimMedia(j)
  <2>1. /\ UNCHANGED <<progress, shared>>
        /\ pc'[j] \in {"start", "out"} /\ pc[j] = "out"
        /\ job[j].status \in {"new", "queued"}
        /\ \A i \in Job \ {j} : job'[i] = job[i] /\ pc'[i] = pc[i]
    BY <1>2 DEF SubmitMedia, ClaimMedia, MediaInv, MediaTypeOK, PlaceOK
  <2> USE DEF RunInv, progress, shared
  <2>2. WorkedOnce(j)'
    BY <2>1 DEF WorkedOnce, HasOutput
  <2>3. NeedsWhisper(j)' /\ InsertsOnce(j)'
    BY <2>1 DEF NeedsWhisper, Whispering, InsertsOnce, Looked, Late
  <2>4. StartsEmpty(j)' /\ StagesBehind(j)' /\ HoldsTranscript(j)'
    BY <2>1 DEF StartsEmpty, Early, StagesBehind, Whispering, HoldsTranscript, Late, Inserted
  <2>5. OnlyOf(j)
    BY <2>1 DEF OnlyOf, Inserted
  <2> QED BY <2>2, <2>3, <2>4, <2>5 DEF Keeps
<1> QED BY <1>1, <1>2

LEMMA CleanKeeps ==
    ASSUME MediaInv, NEW j \in Job, RunInv(j), CleanScratch(j)
    PROVE  Keeps(j)
<1>1. /\ scratch'[j] = EmptyScratch /\ j \in cleaned'
      /\ UNCHANGED <<media, job, pc, text, done, stored, vault, doc, work>>
      /\ OnlyOf(j)
  BY DEF CleanScratch, OnlyOf, Inserted, MediaInv, MediaTypeOK
<1> USE DEF RunInv, EmptyScratch
<1>2. WorkedOnce(j)' /\ NeedsWhisper(j)'
  BY <1>1 DEF WorkedOnce, NeedsWhisper, HasOutput
<1>3. InsertsOnce(j)' /\ StartsEmpty(j)' /\ HoldsTranscript(j)'
  BY <1>1 DEF InsertsOnce, Inserted, StartsEmpty, HoldsTranscript
<1>4. StagesBehind(j)'
  BY <1>1 DEF StagesBehind
<1> QED BY <1>1, <1>2, <1>3, <1>4 DEF Keeps

RunsInv == \A j \in Job : RunInv(j)

LEMMA NextKeepsRuns == MediaInv /\ RunsInv /\ [MediaNext]_mediaVars => RunsInv'
<1> SUFFICES ASSUME MediaInv, \A j \in Job : RunInv(j), [MediaNext]_mediaVars, NEW k \in Job
             PROVE  RunInv(k)'
  BY DEF RunsInv
<1>1. CASE UNCHANGED mediaVars
  BY <1>1 DEF mediaVars, RunInv, WorkedOnce, NeedsWhisper, InsertsOnce, StartsEmpty,
              StagesBehind, HoldsTranscript, HasOutput, Inserted
<1>2. ASSUME NEW j \in Job,
             SubmitMedia(j) \/ ClaimMedia(j) \/ Handle(j) \/ Die(j) \/ CleanScratch(j)
      PROVE  RunInv(k)'
  <2>1. Keeps(j)
    BY <1>2, YouTubeKeeps, PodcastKeeps, VideoKeeps, ArticleKeeps, QueueKeeps,
       CleanKeeps DEF Handle
  <2> QED BY <2>1, OthersKeep DEF Keeps, MediaInv
<1> QED BY <1>1, <1>2 DEF MediaNext

LEMMA InitHasRuns == MediaInit => RunsInv
<1> SUFFICES ASSUME MediaInit, NEW j \in Job
             PROVE  RunInv(j)
  BY DEF RunsInv
<1> USE DEF MediaInit
<1>1. WorkedOnce(j) /\ NeedsWhisper(j)
  BY DEF WorkedOnce, NeedsWhisper, Whispering
<1>2. InsertsOnce(j) /\ StartsEmpty(j) /\ StagesBehind(j) /\ HoldsTranscript(j)
  BY DEF InsertsOnce, Looked, Late, StartsEmpty, EmptyScratch, StagesBehind, Whispering,
         HoldsTranscript
<1> QED BY <1>1, <1>2 DEF RunInv

LEMMA RunsStay == MediaSpec => []RunsInv
BY InitIsSound, NextIsSound, InitHasRuns, NextKeepsRuns, PTL DEF MediaSpec, Sound

\* What a checkpoint says was done no later run of the job does again, over any
\* number of retries and requeues, beside any number of other jobs.
THEOREM WorkIsPaidOnce == MediaSpec => []NoRework
<1>1. RunsInv => NoRework
  BY DEF RunsInv, RunInv, WorkedOnce, NoRework
<1> QED BY <1>1, RunsStay, PTL

\* The transcript a job has on disk is the one in the document it inserted,
\* whatever video.py swallowed and wherever the job was requeued in between.
THEOREM TranscriptsAreUsed == MediaSpec => []TranscriptIsUsed
<1>1. RunsInv => TranscriptIsUsed
  BY DEF RunsInv, RunInv, HoldsTranscript, Inserted, TranscriptIsUsed
<1> QED BY <1>1, RunsStay, PTL
=============================================================================
