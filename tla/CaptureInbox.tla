---------------------------- MODULE CaptureInbox ----------------------------
(***************************************************************************)
(* POST /capture and what becomes of it: the server writes the request as  *)
(* a file of the inbox, named by the second and a hash of the body, and    *)
(* submits a job; the worker's dispatcher reads the file, takes its        *)
(* content into documents and moves the file on.  Files and rows are       *)
(* written separately, and both processes may die in between.             *)
(***************************************************************************)
EXTENDS Naturals, Sequences, FiniteSets

CONSTANTS
    Content,        \* bodies of requests
    Kind,           \* their kinds: text, note, or one with a typed handler
    LastSecond,     \* bound: the clock, in seconds, which names the files
    MaxRequests,    \* bound: requests that were accepted
    MaxAttempts     \* COMMONPLACE_MAX_ATTEMPTS

ASSUME CaptureAssumption ==
    /\ Kind \in [Content -> {"text", "note", "typed"}]
    /\ LastSecond \in Nat /\ MaxRequests \in Nat /\ MaxAttempts \in Nat \ {0}

VARIABLES
    second,     \* the clock
    posting,    \* the file written by a request that has no job yet
    inbox,      \* files in the inbox
    filed,      \* files in inbox/processed, or for notes in the vault
    jobs,       \* rows of kind capture, by id
    doc,        \* status of the document of each content
    worker      \* the job the worker runs, and how far it is

captureVars == <<second, posting, inbox, filed, jobs, doc, worker>>

File == [at : 0..LastSecond, content : Content]
None == [none |-> TRUE]
Status == {"queued", "running", "complete", "failed"}
Job == [file : File, status : Status, attempts : 0..MaxAttempts]
Resting == [job |-> 0, pc |-> "rest"]

CaptureTypeOK ==
    /\ second \in 0..LastSecond
    /\ posting \in File \cup {None}
    /\ inbox \subseteq File /\ filed \subseteq File
    /\ jobs \in Seq(Job) /\ Len(jobs) <= MaxRequests
    /\ doc \in [Content -> {"absent", "pending", "embedded"}]
    /\ worker \in [job : 0..MaxRequests, pc : {"rest", "read", "take", "embed", "move", "done"}]

CaptureInit ==
    /\ second = 0
    /\ posting = None
    /\ inbox = {} /\ filed = {}
    /\ jobs = << >>
    /\ doc = [c \in Content |-> "absent"]
    /\ worker = Resting

-----------------------------------------------------------------------------
(* The server.  The route calls handle_capture inside its coroutine, so      *)
(* requests do not interleave.                                             *)

Tick ==
    /\ second < LastSecond
    /\ second' = second + 1
    /\ UNCHANGED <<posting, inbox, filed, jobs, doc, worker>>

\* Write, fsync, rename: a file of the same name is replaced by its equal.
WriteInboxFile(c) ==
    LET f == [at |-> second, content |-> c] IN
    /\ posting = None /\ Len(jobs) < MaxRequests
    /\ posting' = f
    /\ inbox' = inbox \cup {f}
    /\ UNCHANGED <<second, filed, jobs, doc, worker>>

\* The job is committed and the client gets its 202.
SubmitCapture ==
    /\ posting # None
    /\ jobs' = Append(jobs, [file |-> posting, status |-> "queued", attempts |-> 0])
    /\ posting' = None
    /\ UNCHANGED <<second, inbox, filed, doc, worker>>

\* The server dies, or the insert fails and the client gets a 500.
ServerFails ==
    /\ posting # None
    /\ posting' = None
    /\ UNCHANGED <<second, inbox, filed, jobs, doc, worker>>

-----------------------------------------------------------------------------
(* The worker.                                                             *)

file == jobs[worker.job].file
kind == Kind[file.content]
At(pc) == worker.pc = pc
Go(pc) == worker' = [worker EXCEPT !.pc = pc]

\* Oldest queued row first; a requeued row keeps its place.
ClaimCapture ==
    /\ worker = Resting
    /\ \E j \in DOMAIN jobs :
        /\ jobs[j].status = "queued"
        /\ \A i \in 1..(j - 1) : jobs[i].status # "queued"
        /\ jobs' = [jobs EXCEPT ![j].status = "running", ![j].attempts = @ + 1]
        /\ worker' = [job |-> j, pc |-> "read"]
    /\ UNCHANGED <<second, posting, inbox, filed, doc>>

\* The row's last update of this run.
EndJob(status) ==
    /\ jobs' = [jobs EXCEPT ![worker.job].status = status]
    /\ worker' = Resting

\* Mutant: a file that is not there yet is waited for.
InboxFileMissingRequeued ==
    /\ At("read") /\ file \notin inbox
    /\ jobs' = [jobs EXCEPT ![worker.job].status = "queued", ![worker.job].attempts = @ - 1]
    /\ worker' = Resting
    /\ UNCHANGED <<second, posting, inbox, filed, doc>>

\* FileNotFoundError, when an equal capture of the same second was faster.
InboxFileMissing ==
    /\ At("read") /\ file \notin inbox
    /\ EndJob("failed")
    /\ UNCHANGED <<second, posting, inbox, filed, doc>>

\* Mutant: the file is moved out of the inbox first, so that no other run takes it.
ReadInboxFileMovesIt ==
    /\ At("read") /\ file \in inbox
    /\ inbox' = inbox \ {file}
    /\ filed' = filed \cup {file}
    /\ Go(IF kind = "note" THEN "move" ELSE "take")
    /\ UNCHANGED <<second, posting, jobs, doc>>

ReadInboxFile ==
    /\ At("read") /\ file \in inbox
    /\ Go(IF kind = "note" THEN "move" ELSE "take")
    /\ UNCHANGED <<second, posting, inbox, filed, jobs, doc>>

\* INSERT OR IGNORE by content hash: lastrowid is 0 when the row exists, and
\* nothing is embedded.  The typed handlers look up the source first.
TakeContent ==
    /\ At("take")
    /\ IF doc[file.content] = "absent"
       THEN doc' = [doc EXCEPT ![file.content] = "pending"] /\ Go("embed")
       ELSE UNCHANGED doc /\ Go("move")
    /\ UNCHANGED <<second, posting, inbox, filed, jobs>>

\* A typed handler fails before it has a document: for good, or retryably.
FetchFails ==
    /\ At("take") /\ kind = "typed" /\ doc[file.content] = "absent"
    /\ \/ EndJob("failed")
       \/ EndJob(IF jobs[worker.job].attempts < MaxAttempts THEN "queued" ELSE "failed")
    /\ UNCHANGED <<second, posting, inbox, filed, doc>>

Embed ==
    /\ At("embed")
    /\ doc' = [doc EXCEPT ![file.content] = "embedded"]
    /\ Go("move")
    /\ UNCHANGED <<second, posting, inbox, filed, jobs>>

EmbedRaises ==
    /\ At("embed")
    /\ EndJob("failed")
    /\ UNCHANGED <<second, posting, inbox, filed, doc>>

\* Back to 'queued', with the attempt given back.
EmbedCircuitOpen ==
    /\ At("embed")
    /\ jobs' = [jobs EXCEPT ![worker.job].status = "queued",
                            ![worker.job].attempts = @ - 1]
    /\ worker' = Resting
    /\ UNCHANGED <<second, posting, inbox, filed, doc>>

\* _move_to_processed, or for a note _move_to_vault.
MoveFile ==
    /\ At("move")
    /\ inbox' = inbox \ {file}
    /\ filed' = filed \cup {file}
    /\ Go("done")
    /\ UNCHANGED <<second, posting, jobs, doc>>

MarkComplete ==
    /\ At("done")
    /\ EndJob("complete")
    /\ UNCHANGED <<second, posting, inbox, filed, doc>>

WorkerDies ==
    /\ worker # Resting
    /\ worker' = Resting
    /\ UNCHANGED <<second, posting, inbox, filed, jobs, doc>>

\* The zombie watchdog, in time; that it may fail a live run is JobQueue's.
FailZombie ==
    /\ \E j \in DOMAIN jobs :
        /\ jobs[j].status = "running" /\ worker.job # j
        /\ jobs' = [jobs EXCEPT ![j].status = "failed"]
    /\ UNCHANGED <<second, posting, inbox, filed, doc, worker>>

-----------------------------------------------------------------------------
Server == Tick \/ (\E c \in Content : WriteInboxFile(c)) \/ SubmitCapture \/ ServerFails

Dispatch ==
    \/ ClaimCapture \/ InboxFileMissing \/ ReadInboxFile \/ TakeContent \/ FetchFails
    \/ Embed \/ EmbedRaises \/ EmbedCircuitOpen \/ MoveFile \/ MarkComplete

CaptureNext == Server \/ Dispatch \/ WorkerDies \/ FailZombie

CaptureSpec == CaptureInit /\ [][CaptureNext]_captureVars

\* The worker goes on and the watchdog comes round; nothing is assumed of Ollama.
CaptureFairSpec == CaptureSpec /\ WF_captureVars(Dispatch) /\ WF_captureVars(FailZombie)

-----------------------------------------------------------------------------
\* A capture that was answered 202 is not lost, whatever dies when: its file is
\* in the inbox until its content has a document (or is a note in the vault).
\* And a complete job has moved it on, through retries and equal captures.
AcceptedIsKept ==
    \A j \in DOMAIN jobs :
        LET f == jobs[j].file IN
        /\ jobs[j].status = "complete" => f \in filed
        /\ f \in inbox \/ (f \in filed /\ (Kind[f.content] = "note" \/ doc[f.content] # "absent"))

\* Every accepted capture is dispatched in the end, or failed for the user to see.
CaptureEnds ==
    \A j \in 1..MaxRequests :
        j \in DOMAIN jobs
        ~> j \in DOMAIN jobs /\ jobs[j].status \in {"complete", "failed"}

\* "Move an inbox file to the processed directory after successful dispatch",
\* where a text is to be embedded: what is processed can be searched.
ProcessedIsEmbedded ==
    \A f \in filed : Kind[f.content] # "note" => doc[f.content] = "embedded"

\* "A valid request with correct bearer returns 202 and creates inbox file"
\* (tests/test_capture.py): the dispatcher of an accepted request finds a file.
DispatcherFindsFile == At("read") => file \in inbox
=============================================================================
