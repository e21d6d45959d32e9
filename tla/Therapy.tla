------------------------------ MODULE Therapy ------------------------------
(***************************************************************************)
(* One therapy session: a Notion page, therapy_watcher.py, which submits a *)
(* job when the page was edited after the edit the database knows, and     *)
(* handle_therapy_session_ingest, which fetches the page in parts, keeps   *)
(* the parts as checkpoints of its job, and refreshes the document. The    *)
(* page is edited while all of that goes on. Sessions have nothing in      *)
(* common, so one stands for all. The watcher is a single process (flock), *)
(* as is the worker, which takes the oldest job first.                     *)
(***************************************************************************)
EXTENDS Naturals, Sequences, FiniteSets

CONSTANTS
    MaxVersion,     \* bound: edits of the page
    MaxRefusals     \* bound: requests and embeddings that fail, deaths

ASSUME TherapyAssumption == MaxVersion \in Nat \ {0} /\ MaxRefusals \in Nat

VARIABLES
    version,        \* the edits of the page so far: its last_edited_time
    session,        \* the documents row, its therapy_session_meta and its chunks
    jobs,           \* the ingest_therapy_session jobs that are not over, oldest first
    watcher,        \* what the watcher does
    refusals        \* how much went wrong so far

therapyVars == <<version, session, jobs, watcher, refusals>>

\* What is not there yet: in a column, in a checkpoint.
None == 0
Away == [pc |-> "away"]
NoText == [blocks |-> None, children |-> None]

\* The worker holds the first job while it runs; "lost" is a row its worker left running.
FreshJob == [status |-> "queued", edited |-> None, text |-> NoText, stored |-> FALSE]

TherapyInit ==
    /\ version = 1
    /\ session = [edited |-> None, text |-> NoText, chunks |-> NoText, status |-> "none"]
    /\ jobs = <<>>
    /\ watcher = Away
    /\ refusals = 0

Refused == refusals < MaxRefusals /\ refusals' = refusals + 1

EditPage ==
    /\ version < MaxVersion /\ version' = version + 1
    /\ UNCHANGED <<session, jobs, watcher, refusals>>

-----------------------------------------------------------------------------
(* run_watch.                                                              *)

GetPage ==
    /\ watcher = Away
    /\ watcher' = [pc |-> "compare", seen |-> version]
    /\ UNCHANGED <<version, session, jobs, refusals>>

\* Mutant: a session that is stored is known.
ChangedUnlessStored(seen) == session.edited = None

\* Nothing stored, or an earlier edit.
Changed(seen) == seen > session.edited

ComparePage ==
    /\ watcher.pc = "compare"
    /\ watcher' = IF Changed(watcher.seen) THEN [pc |-> "submit"] ELSE Away
    /\ UNCHANGED <<version, session, jobs, refusals>>

\* Unless a queued or a running row has this payload.
SubmitSession ==
    /\ watcher.pc = "submit"
    /\ jobs' = IF jobs # <<>> THEN jobs ELSE Append(jobs, FreshJob)
    /\ watcher' = Away
    /\ UNCHANGED <<version, session, refusals>>

\* Somebody submits the page by hand, through the server.
SubmitByHand ==
    /\ Len(jobs) < 2
    /\ jobs' = Append(jobs, FreshJob)
    /\ UNCHANGED <<version, session, watcher, refusals>>

-----------------------------------------------------------------------------
(* handle_therapy_session_ingest.                                          *)

Job == Head(jobs)
InHandler == jobs # <<>> /\ Job.status = "running"
Records(record) == jobs' = [jobs EXCEPT ![1] = record]

ClaimSession ==
    /\ jobs # <<>> /\ Job.status = "queued"
    /\ Records([Job EXCEPT !.status = "running"])
    /\ UNCHANGED <<version, session, watcher, refusals>>

FetchMetadata ==
    /\ InHandler /\ Job.edited = None
    /\ Records([Job EXCEPT !.edited = version])
    /\ UNCHANGED <<version, session, watcher, refusals>>

\* fetch_block_tree: the blocks of the page, and then those below them. The checkpoint
\* comes after both.
FetchBlocks ==
    /\ InHandler /\ Job.edited # None /\ Job.text.blocks = None
    /\ Records([Job EXCEPT !.text.blocks = version])
    /\ UNCHANGED <<version, session, watcher, refusals>>

FetchChildren ==
    /\ InHandler /\ Job.text.blocks # None /\ Job.text.children = None
    /\ Records([Job EXCEPT !.text.children = version])
    /\ UNCHANGED <<version, session, watcher, refusals>>

ToBeStored == InHandler /\ Job.text.children # None /\ ~Job.stored

\* The row with its chunks deleted, and the last edit.
Upserted ==
    [edited |-> Job.edited, text |-> Job.text, chunks |-> NoText, status |-> "ingesting"]

\* The vault file, the row, the checkpoint.
UpsertDocument ==
    /\ ToBeStored
    /\ session' = Upserted
    /\ Records([Job EXCEPT !.stored = TRUE])
    /\ UNCHANGED <<version, watcher, refusals>>

\* embed_document leaves a document alone that has chunks; the job is complete.
EmbedSession ==
    /\ InHandler /\ Job.stored
    /\ session' = IF session.chunks # NoText THEN session
                  ELSE [session EXCEPT !.chunks = Job.text, !.status = "embedded"]
    /\ jobs' = Tail(jobs)
    /\ UNCHANGED <<version, watcher, refusals>>

\* An open circuit queues the job again, at its old place, with its checkpoints.
CircuitOpen ==
    /\ InHandler /\ Job.stored /\ Refused
    /\ Records([Job EXCEPT !.status = "queued"])
    /\ UNCHANGED <<version, session, watcher>>

\* Notion, a title that is no date, Ollama: the job is failed.
SessionFails ==
    /\ InHandler /\ Refused
    /\ jobs' = Tail(jobs)
    /\ UNCHANGED <<version, session, watcher>>

\* The process dies, before or after the commit of the row and of its checkpoint; the
\* job is running until the watchdog fails it.
SessionWorkerDies ==
    /\ InHandler /\ Refused
    /\ session' \in {session} \cup (IF ToBeStored THEN {Upserted} ELSE {})
    /\ Records([Job EXCEPT !.status = "lost"])
    /\ UNCHANGED <<version, watcher>>

FailLostSession ==
    /\ jobs # <<>> /\ Job.status = "lost"
    /\ jobs' = Tail(jobs)
    /\ UNCHANGED <<version, session, watcher, refusals>>

-----------------------------------------------------------------------------
SessionStep ==
    \/ ClaimSession \/ FetchMetadata \/ FetchBlocks \/ FetchChildren
    \/ UpsertDocument \/ EmbedSession

TherapyNext ==
    \/ EditPage \/ GetPage \/ ComparePage \/ SubmitSession \/ SubmitByHand
    \/ SessionStep \/ CircuitOpen \/ SessionFails \/ SessionWorkerDies \/ FailLostSession

\* launchd starts the watcher every day and the watchdog every five minutes; the worker
\* goes on.
TherapyFairness ==
    /\ WF_therapyVars(GetPage \/ ComparePage \/ SubmitSession)
    /\ WF_therapyVars(SessionStep) /\ WF_therapyVars(FailLostSession)

TherapySpec == TherapyInit /\ [][TherapyNext]_therapyVars /\ TherapyFairness

-----------------------------------------------------------------------------
\* The edit the watcher compares with is never later than any part of the text that is
\* stored, although the page is edited between the requests, and between the attempts
\* that share their answers: no edit is taken for known that is not in the text.
EditIsInText ==
    session.edited # None =>
        session.edited <= session.text.blocks /\ session.edited <= session.text.children

\* The chunks are those of the text that is stored, or there are none.
ChunksAreOfText == session.chunks \in {NoText, session.text}

\* Both hold always, and however the jobs fail, the last edit is what the database holds
\* in the end.
LastEditIsStored ==
    /\ []EditIsInText
    /\ []ChunksAreOfText
    /\ <>[](session.edited = version
               /\ session.text = [blocks |-> version, children |-> version])

\* Refuted: it is also embedded in the end. The edit is recorded before the embedding,
\* and a failed job is not submitted again for an edit that is known.
LastEditIsEmbedded == <>[](session.chunks = session.text)
=============================================================================
