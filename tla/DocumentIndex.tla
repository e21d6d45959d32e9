--------------------------- MODULE DocumentIndex ---------------------------
(***************************************************************************)
(* The search index: documents, their chunks, and the vectors of the       *)
(* sqlite-vec table chunk_vectors, which no foreign key cascades to.  Two  *)
(* processes write it: the worker, whose handlers insert or refresh a      *)
(* document and call embed_document, and scripts/reembed_documents.py,     *)
(* which deletes a document's chunks and calls embed_document again.  One  *)
(* chunk stands for the chunks of a document.  Row ids are SQLite's: one   *)
(* more than the largest in use, so the id of a deleted last row is given  *)
(* out again.                                                              *)
(***************************************************************************)
EXTENDS Naturals, FiniteSets

CONSTANTS
    Source,         \* what is ingested: a book, a conversation, a journal entry
    Kinds,          \* the handlers the sources may have: book, conversation, dayone
    MaxVersion,     \* bound: edits of one source
    MaxId           \* bound: row ids of documents and of chunks

ASSUME IndexAssumption ==
    /\ Kinds \subseteq [Source -> {"book", "conversation", "dayone"}]
    /\ MaxVersion \in Nat \ {0}
    /\ MaxId \in Nat \ {0}

VARIABLES
    latest,     \* the version of each source
    jobs,       \* statuses of the job rows with this source and version, the
                \* complete ones left out
    docs,       \* documents
    chunk,      \* chunks
    vec,        \* chunk_vectors: the text the vector was computed from
    at,         \* what the worker and the script are doing
    kind,       \* the handler of each source, for good
    quiet       \* scripts are run only while the worker is stopped, and back

habits == <<kind, quiet>>
indexVars == <<latest, jobs, docs, chunk, vec, at, habits>>

Version == 1..MaxVersion
Id == 1..MaxId
Text == [src : Source, v : Version]
None == [none |-> TRUE]
NoText == None
Actor == {"worker", "reembed"}
Document == [text : Text, status : {"ingesting", "embedded", "failed"}]
Chunk == [doc : Id, text : Text]
Doing == [pc : {"idle", "upsert", "insert", "delete", "guard", "vectors", "store"},
          doc : Id \cup {0}, text : Text \cup {NoText}]
Idle == [pc |-> "idle", doc |-> 0, text |-> NoText]

IndexTypeOK ==
    /\ latest \in [Source -> Version]
    /\ jobs \in [Text -> SUBSET {"queued", "running", "failed"}]
    /\ docs \in [Id -> Document \cup {None}]
    /\ chunk \in [Id -> Chunk \cup {None}]
    /\ vec \in [Id -> Text \cup {None}]
    /\ at \in [Actor -> Doing]
    /\ kind \in Kinds /\ quiet \in BOOLEAN

IndexInit ==
    /\ latest = [s \in Source |-> 1]
    /\ jobs = [t \in Text |-> {}]
    /\ docs = [i \in Id |-> None]
    /\ chunk = [i \in Id |-> None]
    /\ vec = [i \in Id |-> None]
    /\ at = [a \in Actor |-> Idle]
    /\ kind \in Kinds /\ quiet \in BOOLEAN

-----------------------------------------------------------------------------
(* The tables.                                                             *)

\* The rowid SQLite gives to a new row of the table.
IsNextId(table, i) ==
    /\ table[i] = None
    /\ \A k \in Id : table[k] # None => k < i
    /\ i > 1 => table[i - 1] # None

ChunksOf(d) == {c \in Id : chunk[c] # None /\ chunk[c].doc = d}

\* The row a handler finds for the source: books by content hash, the others by
\* (content_type, source_id).
Find(t) ==
    {d \in Id : /\ docs[d] # None
                /\ docs[d].text.src = t.src
                /\ kind[t.src] = "book" => docs[d].text = t}

\* INSERT INTO documents, status 'ingesting'; the actor goes on to embed it.
InsertDocument(a, t) ==
    \E d \in Id :
        /\ IsNextId(docs, d)
        /\ docs' = [docs EXCEPT ![d] = [text |-> t, status |-> "ingesting"]]
        /\ at' = [at EXCEPT ![a] = [pc |-> "guard", doc |-> d, text |-> t]]

\* _delete_document_chunks, and the same lines of reembed_one.
DeleteChunks(d) ==
    /\ chunk' = [c \in Id |-> IF c \in ChunksOf(d) THEN None ELSE chunk[c]]
    /\ vec' = [c \in Id |-> IF c \in ChunksOf(d) THEN None ELSE vec[c]]

-----------------------------------------------------------------------------
(* Jobs and sources.                                                       *)

Running == at["worker"].pc # "idle"

JobDone(t, status) ==
    jobs' = [jobs EXCEPT ![t] = (@ \ {"running"}) \cup ({status} \ {"complete"})]

EditSource(s) ==
    /\ kind[s] # "book" /\ latest[s] < MaxVersion
    /\ latest' = [latest EXCEPT ![s] = @ + 1]
    /\ UNCHANGED <<jobs, docs, chunk, vec, at>>

SubmitIngest(s) ==
    /\ jobs' = [jobs EXCEPT ![[src |-> s, v |-> latest[s]]] = @ \cup {"queued"}]
    /\ UNCHANGED <<latest, docs, chunk, vec, at>>

\* Who may start: if quiet, the worker and the scripts never overlap.
MayStart(a) == at[a] = Idle /\ (quiet => \A b \in Actor : at[b] = Idle)

TakeJob(t) ==
    /\ MayStart("worker") /\ "queued" \in jobs[t]
    /\ jobs' = [jobs EXCEPT ![t] = (@ \ {"queued"}) \cup {"running"}]
    /\ at' = [at EXCEPT !["worker"] = [pc |-> "upsert", doc |-> 0, text |-> t]]
    /\ UNCHANGED <<latest, docs, chunk, vec>>

\* The worker's run ends.
EndRun(status) ==
    /\ JobDone(at["worker"].text, status)
    /\ at' = [at EXCEPT !["worker"] = Idle]

-----------------------------------------------------------------------------
(* The handlers, up to the call of embed_document.                         *)

Upserting(k) == at["worker"].pc = "upsert" /\ kind[at["worker"].text.src] = k

\* The same content is there already, embedded or not.
AlreadyIngested ==
    /\ at["worker"].pc = "upsert"
    /\ \E d \in Find(at["worker"].text) : docs[d].text = at["worker"].text
    /\ EndRun("complete")
    /\ UNCHANGED <<latest, docs, chunk, vec>>

NewDocument ==
    /\ at["worker"].pc = "upsert"
    /\ Find(at["worker"].text) = {}
    /\ InsertDocument("worker", at["worker"].text)
    /\ UNCHANGED <<latest, jobs, chunk, vec>>

\* A book no text can be extracted from: a row for the record, and the job fails.
ExtractFails ==
    /\ Upserting("book")
    /\ Find(at["worker"].text) = {}
    /\ \E d \in Id :
        /\ IsNextId(docs, d)
        /\ docs' = [docs EXCEPT ![d] = [text |-> at["worker"].text, status |-> "failed"]]
    /\ EndRun("failed")
    /\ UNCHANGED <<latest, chunk, vec>>

\* Mutant: the old chunks are left to embed_document.
RefreshKeepsChunks ==
    /\ Upserting("conversation")
    /\ \E d \in Find(at["worker"].text) :
        /\ docs[d].text # at["worker"].text
        /\ docs' = [docs EXCEPT ![d] = [text |-> at["worker"].text, status |-> "ingesting"]]
        /\ at' = [at EXCEPT !["worker"].pc = "guard", !["worker"].doc = d]
    /\ UNCHANGED <<latest, jobs, chunk, vec>>

\* New content under a known source: chunks and vectors out, row updated, in
\* one transaction.
RefreshDocument ==
    /\ Upserting("conversation")
    /\ \E d \in Find(at["worker"].text) :
        /\ docs[d].text # at["worker"].text
        /\ DeleteChunks(d)
        /\ docs' = [docs EXCEPT ![d] = [text |-> at["worker"].text, status |-> "ingesting"]]
        /\ at' = [at EXCEPT !["worker"].pc = "guard", !["worker"].doc = d]
    /\ UNCHANGED <<latest, jobs>>

\* An edited journal entry: the row is deleted in a transaction of its own and
\* the chunks cascade; the vectors do not.
ReplaceEntry ==
    /\ Upserting("dayone")
    /\ \E d \in Find(at["worker"].text) :
        /\ docs[d].text # at["worker"].text
        /\ docs' = [docs EXCEPT ![d] = None]
        /\ chunk' = [c \in Id |-> IF c \in ChunksOf(d) THEN None ELSE chunk[c]]
        /\ at' = [at EXCEPT !["worker"].pc = "insert"]
    /\ UNCHANGED <<latest, jobs, vec>>

InsertEntry ==
    /\ at["worker"].pc = "insert"
    /\ InsertDocument("worker", at["worker"].text)
    /\ UNCHANGED <<latest, jobs, chunk, vec>>

-----------------------------------------------------------------------------
(* embed_document.                                                         *)

\* How the caller ends.
Leave(a, status) ==
    IF a = "worker" THEN EndRun(status)
    ELSE at' = [at EXCEPT ![a] = Idle] /\ UNCHANGED <<jobs>>

\* An exception of embed_document: the Day One sweep logs it and goes on, every
\* other handler lets it fail the job.
Raise(a) ==
    Leave(a, IF a = "worker" /\ kind[at[a].text.src] = "dayone" THEN "complete" ELSE "failed")

\* Chunks exist: "we already ran".
EmbedGuard(a) ==
    /\ at[a].pc = "guard"
    /\ IF ChunksOf(at[a].doc) # {} THEN Leave(a, "complete")
       ELSE at' = [at EXCEPT ![a].pc = "vectors"] /\ UNCHANGED <<jobs>>
    /\ UNCHANGED <<latest, docs, chunk, vec>>

ComputeVectors(a) ==
    /\ at[a].pc = "vectors"
    /\ at' = [at EXCEPT ![a].pc = "store"]
    /\ UNCHANGED <<latest, jobs, docs, chunk, vec>>

\* Ollama fails, or the circuit is open and the job is requeued.
EmbedFails(a) ==
    /\ at[a].pc = "vectors"
    /\ \/ Raise(a)
       \/ a = "worker" /\ kind[at[a].text.src] # "dayone" /\ Leave(a, "queued")
    /\ UNCHANGED <<latest, docs, chunk, vec>>

\* The process dies between two transactions; a worker's row is failed by the
\* watchdog.
Die(a) ==
    /\ at[a] # Idle
    /\ Leave(a, "failed")
    /\ UNCHANGED <<latest, docs, chunk, vec>>

\* Mutant: a vector left under the chunk id is taken for this chunk's.
StoreKeepsVector(a) ==
    LET d == at[a].doc IN
    /\ at[a].pc = "store"
    /\ IF docs[d] = None
       THEN Raise(a) /\ UNCHANGED <<docs, chunk, vec>>
       ELSE /\ \E c \in Id :
                /\ IsNextId(chunk, c)
                /\ chunk' = [chunk EXCEPT ![c] = [doc |-> d, text |-> at[a].text]]
                /\ vec' = [vec EXCEPT ![c] = IF @ = None THEN at[a].text ELSE @]
            /\ docs' = [docs EXCEPT ![d].status = "embedded"]
            /\ Leave(a, "complete")
    /\ UNCHANGED latest

\* Chunk, embedding, vector and status in one transaction.  A document deleted
\* meanwhile fails the foreign key.
Store(a) ==
    LET d == at[a].doc IN
    /\ at[a].pc = "store"
    /\ IF docs[d] = None
       THEN Raise(a) /\ UNCHANGED <<docs, chunk, vec>>
       ELSE /\ \E c \in Id :
                /\ IsNextId(chunk, c)
                /\ chunk' = [chunk EXCEPT ![c] = [doc |-> d, text |-> at[a].text]]
                /\ vec' = [vec EXCEPT ![c] = at[a].text]
            /\ docs' = [docs EXCEPT ![d].status = "embedded"]
            /\ Leave(a, "complete")
    /\ UNCHANGED latest

-----------------------------------------------------------------------------
(* reembed_documents.py --ids d: the text is what the chunks say.          *)

ReembedRead(d) ==
    /\ MayStart("reembed") /\ docs[d] # None
    /\ \E c \in ChunksOf(d) :
        at' = [at EXCEPT !["reembed"] = [pc |-> "delete", doc |-> d, text |-> chunk[c].text]]
    /\ UNCHANGED <<latest, jobs, docs, chunk, vec>>

ReembedDelete ==
    /\ at["reembed"].pc = "delete"
    /\ DeleteChunks(at["reembed"].doc)
    /\ at' = [at EXCEPT !["reembed"].pc = "guard"]
    /\ UNCHANGED <<latest, jobs, docs>>

-----------------------------------------------------------------------------
EmbedDocument(a) ==
    EmbedGuard(a) \/ ComputeVectors(a) \/ EmbedFails(a) \/ Store(a)

Worker ==
    \/ \E t \in Text : TakeJob(t)
    \/ AlreadyIngested \/ NewDocument \/ ExtractFails
    \/ RefreshDocument \/ ReplaceEntry \/ InsertEntry
    \/ EmbedDocument("worker") \/ Die("worker")

Reembed ==
    (\E d \in Id : ReembedRead(d)) \/ ReembedDelete \/ EmbedDocument("reembed") \/ Die("reembed")

User == \E s \in Source : EditSource(s) \/ SubmitIngest(s)

IndexNext == (Worker \/ Reembed \/ User) /\ UNCHANGED habits

IndexSpec == IndexInit /\ [][IndexNext]_indexVars

-----------------------------------------------------------------------------
\* Every chunk can be found: its vector exists and is the vector of its text,
\* although chunk ids are given out again and old vectors are left behind.
ChunkHasItsVector == \A c \in Id : chunk[c] # None => vec[c] = chunk[c].text

\* embed_document "is idempotent": a document has the chunks of one embedding.
EmbeddedOnce == \A d \in Id : Cardinality(ChunksOf(d)) <= 1

\* The chunks of a document are those of the content its row has the hash of,
\* through refreshes, replacements and re-embeddings, as long as scripts and worker
\* take turns; and while it is 'ingesting' there are none, so that the repair may go
\* by the status.
ChunksMatchDocument ==
    quiet => \A c \in Id : chunk[c] # None =>
        LET doc == docs[chunk[c].doc] IN
        doc # None /\ chunk[c].text = doc.text /\ doc.status # "ingesting"

\* "6. Marks documents.status = 'embedded'" (pipeline.py), after the chunks: so
\* an embedded document has chunks.
EmbeddedHasChunks ==
    \A d \in Id : docs[d] # None /\ docs[d].status = "embedded"
        /\ at["reembed"].doc # d => ChunksOf(d) # {}

\* "already ingested": what is skipped is there for search.
SkippedIsEmbedded ==
    [][AlreadyIngested =>
         \A d \in Find(at["worker"].text) : docs[d].status = "embedded"]_indexVars
=============================================================================
