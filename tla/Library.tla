------------------------------ MODULE Library ------------------------------
(***************************************************************************)
(* The books folder: scripts/library_scan.py, which tells by the size and  *)
(* the time of a file, and only then by its hash, whether it has to be     *)
(* read, and handle_library_ingest, which reads it into a documents row.   *)
(* The folder is on Google Drive: files are replaced while both are at     *)
(* work, and a copy may hang. What becomes of a row that is not embedded   *)
(* is in StuckRepair.                                                      *)
(***************************************************************************)
EXTENDS Naturals, Sequences, FiniteSets

CONSTANTS
    BookFile,       \* the paths in the folder with a supported suffix
    Content,        \* what a file may hold
    Size,           \* the size of each content
    Unreadable,     \* the contents no text can be extracted from
    MaxEdits,       \* bound: replaced files
    MaxHangs        \* bound: copies, embeddings and workers that fail

ASSUME LibraryAssumption ==
    /\ Size \in [Content -> Nat]
    /\ Unreadable \subseteq Content
    /\ MaxEdits \in Nat /\ MaxHangs \in Nat

VARIABLES
    file,           \* content and mtime of each path
    rows,           \* the documents rows of the handler, in the order of their ids
    queue,          \* the paths of the ingest_library jobs that wait
    reader,         \* what the worker does
    scan,           \* what the scan does
    edits, hangs    \* how often so far

libVars == <<file, rows, queue, reader, scan, edits, hangs>>

NotReading == [pc |-> "idle"]
\* Before and after: nothing left to stat, and nothing to check of what was found.
NotScanning == [left |-> {}, found |-> {}]

LibInit ==
    /\ file \in [BookFile -> [content : Content, mtime : {0}]]
    /\ rows = <<>> /\ queue = {}
    /\ reader = NotReading /\ scan = NotScanning
    /\ edits = 0 /\ hangs = 0

-----------------------------------------------------------------------------
\* st_size and st_mtime.
Stat(f) == [size |-> Size[f.content], mtime |-> f.mtime]
NoStat == [size |-> "null"]

RowsOf(path) == {n \in DOMAIN rows : rows[n].path = path}
Known(content) == \E n \in DOMAIN rows : rows[n].hash = content

\* fetchone over the index of source_uri: the oldest row of the path.
OldestRow(path) == CHOOSE n \in RowsOf(path) : \A k \in RowsOf(path) : n <= k

\* Already ingested, by path, size and mtime.
FastPath(path, st) == RowsOf(path) # {} /\ rows[OldestRow(path)].stat = st

\* The owner, or Drive, puts another file in its place.
ReplaceFile(path) ==
    /\ edits < MaxEdits /\ edits' = edits + 1
    /\ \E c \in Content \ {file[path].content} :
        file' = [file EXCEPT ![path] = [content |-> c, mtime |-> @.mtime + 1]]
    /\ UNCHANGED <<rows, queue, reader, scan, hangs>>

Hang == hangs < MaxHangs /\ hangs' = hangs + 1

-----------------------------------------------------------------------------
(* library_scan.py.                                                        *)

StartLibraryScan ==
    /\ scan = NotScanning
    /\ scan' = [left |-> BookFile, found |-> {}]
    /\ UNCHANGED <<file, rows, queue, reader, edits, hangs>>

\* The whole folder is looked at first.
ScanStat(path) ==
    /\ path \in scan.left
    /\ scan' = [left |-> scan.left \ {path},
                found |-> scan.found \cup {[path |-> path, stat |-> Stat(file[path])]}]
    /\ UNCHANGED <<file, rows, queue, reader, edits, hangs>>

\* The hash is of the file as it is by now. The queue is not looked at: a path that
\* waits is submitted again, and its second job finds what the first has done.
ScanCheck ==
    /\ scan.left = {}
    /\ \E f \in scan.found :
        /\ queue' = IF FastPath(f.path, f.stat) \/ Known(file[f.path].content)
                      THEN queue
                    ELSE queue \cup {f.path}
        /\ scan' = [scan EXCEPT !.found = @ \ {f}]
    /\ UNCHANGED <<file, rows, reader, edits, hangs>>

-----------------------------------------------------------------------------
(* handle_library_ingest.                                                  *)

\* stat before the copy, of the original.
TakeBook(path) ==
    /\ reader = NotReading /\ path \in queue
    /\ queue' = queue \ {path}
    /\ reader' = [pc |-> "copy", path |-> path, stat |-> Stat(file[path])]
    /\ UNCHANGED <<file, rows, scan, edits, hangs>>

\* copyfile to a temporary file, from which everything else is read.
Copy ==
    /\ reader.pc = "copy"
    /\ reader' = [pc |-> "insert", path |-> reader.path, stat |-> reader.stat,
                  content |-> file[reader.path].content]
    /\ UNCHANGED <<file, rows, queue, scan, edits, hangs>>

\* CopyTimeout, after COPY_TIMEOUT_SECONDS of Drive's open(): the job fails.
CopyHangs ==
    /\ reader.pc = "copy" /\ Hang
    /\ reader' = NotReading
    /\ UNCHANGED <<file, rows, queue, scan, edits>>

Row(status, stat) ==
    [path |-> reader.path, hash |-> reader.content, stat |-> stat, status |-> status]

AlreadyKnown ==
    /\ reader.pc = "insert" /\ Known(reader.content)
    /\ reader' = NotReading
    /\ UNCHANGED <<file, rows, queue, scan, edits, hangs>>

\* A row for the record, without size and mtime, and the job fails.
ExtractionFails ==
    /\ reader.pc = "insert" /\ ~Known(reader.content) /\ reader.content \in Unreadable
    /\ rows' = Append(rows, Row("failed", NoStat))
    /\ reader' = NotReading
    /\ UNCHANGED <<file, queue, scan, edits, hangs>>

\* Mutant: the file is looked at when its row is written.
InsertBookStatLate ==
    /\ reader.pc = "insert" /\ ~Known(reader.content) /\ reader.content \notin Unreadable
    /\ rows' = Append(rows, Row("ingesting", Stat(file[reader.path])))
    /\ reader' = [pc |-> "embed", row |-> Len(rows) + 1]
    /\ UNCHANGED <<file, queue, scan, edits, hangs>>

InsertBook ==
    /\ reader.pc = "insert" /\ ~Known(reader.content) /\ reader.content \notin Unreadable
    /\ rows' = Append(rows, Row("ingesting", reader.stat))
    /\ reader' = [pc |-> "embed", row |-> Len(rows) + 1]
    /\ UNCHANGED <<file, queue, scan, edits, hangs>>

EmbedBookText ==
    /\ reader.pc = "embed"
    /\ rows' = [rows EXCEPT ![reader.row].status = "embedded"]
    /\ reader' = NotReading
    /\ UNCHANGED <<file, queue, scan, edits, hangs>>

\* Ollama fails, or the worker dies and the watchdog fails the job.
ReadingEnds ==
    /\ reader # NotReading /\ Hang
    /\ reader' = NotReading
    /\ UNCHANGED <<file, rows, queue, scan, edits>>

-----------------------------------------------------------------------------
Reading == Copy \/ AlreadyKnown \/ ExtractionFails \/ InsertBook \/ EmbedBookText

Scanning == StartLibraryScan \/ ScanCheck \/ \E path \in BookFile : ScanStat(path)

LibNext ==
    \/ \E path \in BookFile : ReplaceFile(path) \/ TakeBook(path)
    \/ Scanning \/ Reading \/ CopyHangs \/ ReadingEnds

\* The scan is run by launchd and goes over the whole folder; the worker is never idle
\* while a job waits.
LibFairness ==
    /\ WF_libVars(Scanning)
    /\ WF_libVars(Reading \/ \E path \in BookFile : TakeBook(path))

LibSpec == LibInit /\ [][LibNext]_libVars /\ LibFairness

-----------------------------------------------------------------------------
\* What the folder holds in the end is in the documents, or recorded as unreadable,
\* whatever was replaced, hung or died before: the fast path hides no file that was
\* replaced under the handler.
NewestIsRecorded == <>[](\A path \in BookFile : Known(file[path].content))
=============================================================================
