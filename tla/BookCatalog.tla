---------------------------- MODULE BookCatalog ----------------------------
(***************************************************************************)
(* What is known of the books that were heard and read: the handler        *)
(* ingest_audiobook, fed by scripts/audiobooks_scan.py, the StoryGraph     *)
(* export read by scripts/import_storygraph.py, and the handler            *)
(* ingest_book_enrichment, fed by scripts/book_enrichment_scan.py, with    *)
(* the clients of Open Library and Google Books and their caches. A name   *)
(* is the sequence of its words, in lower case; a missing one is empty.    *)
(***************************************************************************)
EXTENDS Naturals, Sequences, FiniteSets, FiniteSetsExt, SequencesExt

CONSTANTS
    Shelf,          \* the top of the audiobooks folder
    Recordings,     \* by path: the tags of the first audio file, the name of the path
    ReadList,       \* the rows of the StoryGraph export
    OpenLibrary,    \* by title: what Open Library knows
    GoogleBooks,    \* by title: what Google Books knows
    MaxTrouble      \* bound: requests that fail, deaths

ASSUME CatalogAssumption == Len(ReadList) \in Nat /\ MaxTrouble \in Nat

VARIABLES
    docs,           \* the documents rows, by id
    job,            \* the job the worker runs
    classify,       \* the documents of the classify_book jobs
    cache,          \* the cache files of both clients, by title and author
    trouble         \* how much went wrong

catVars == <<docs, job, classify, cache, trouble>>

Idle == [pc |-> "idle"]
Missing == <<>>
NoData == [found |-> FALSE]
NoFrames == [title |-> Missing, author |-> Missing, narrator |-> Missing]

-----------------------------------------------------------------------------
(* What a recording says of itself.                                        *)

\* _find_books: files and folders of audio, and one level down in the others.
FindBooks ==
    {e.path : e \in {e \in Shelf : e.audio}}
        \cup UNION {e.nested : e \in {e \in Shelf : ~e.file /\ ~e.audio}}

FirstOf(a, b) == IF a # Missing THEN a ELSE b

\* _extract_tags: the MP4 atoms, and for each one that is missing the ID3 frame.
Tags(r) == [f \in DOMAIN NoFrames |-> FirstOf(r.mp4[f], r.id3[f])]

\* _parse_dir_name: "Author - Title - Subtitle", if the first part looks like a
\* name, or a title.
DirMeta(r) ==
    IF Len(r.name) > 1 /\ r.nameFirst
      THEN [author |-> Head(r.name), title |-> FlattenSeq(Tail(r.name))]
    ELSE [author |-> Missing, title |-> FlattenSeq(r.name)]

Metadata(path) ==
    LET r == Recordings[path]
    IN  [title |-> FirstOf(Tags(r).title, DirMeta(r).title),
         author |-> FirstOf(Tags(r).author, DirMeta(r).author),
         narrator |-> Tags(r).narrator]

-----------------------------------------------------------------------------
(* The documents table.                                                    *)

Entries == {d \in DOMAIN docs : docs[d].type = "storygraph_entry"}
RecordingsOf(path) == {d \in DOMAIN docs : docs[d].type = "audiobook" /\ docs[d].path = path}
Ingested(path) == RecordingsOf(path) # {}

\* _token_overlap, a fraction: of no words there is none.
Common(a, b) == Cardinality(ToSet(a) \cap ToSet(b))
Either(a, b) == Cardinality(ToSet(a) \cup ToSet(b))
Overlaps(a, b) == a # Missing /\ b # Missing /\ 10 * Common(a, b) >= 7 * Either(a, b)

\* Score >= score as fractions: seven tenths for the title, three for the author
\* if both have one.
Score(row, meta) ==
    LET ti == Common(row.title, meta.title) tu == Either(row.title, meta.title)
        ai == Common(row.author, meta.author) au == Either(row.author, meta.author)
    IN  IF row.author # Missing /\ meta.author # Missing
          THEN <<7 * ti * au + 3 * ai * tu, 10 * tu * au>>
        ELSE <<ti, tu>>

AtLeast(s, t) == s[1] * t[2] >= t[1] * s[2]

\* _fuzzy_merge: the first of the entries that score best, 0 for none.
FuzzyMerge(meta) ==
    LET near == {d \in Entries : Overlaps(docs[d].title, meta.title)}
        best == {d \in near : \A e \in near : AtLeast(Score(docs[d], meta), Score(docs[e], meta))}
    IN  IF best = {} THEN 0 ELSE Min(best)

NewRow(type, meta, path) ==
    [type |-> type, title |-> meta.title, author |-> meta.author, narrator |-> meta.narrator,
     path |-> path, id |-> "", rating |-> 0,
     description |-> "", subjects |-> {}, source |-> "", text |-> <<>>]

\* content_hash of an entry is that of its title and author.
SameBook(rows, meta) ==
    \E d \in DOMAIN rows :
        /\ rows[d].type = "storygraph_entry"
        /\ rows[d].title = meta.title /\ rows[d].author = meta.author

CatInit ==
    /\ docs = <<>> /\ job = Idle /\ classify = <<>>
    /\ cache = [client \in {"open_library", "google_books"} |-> <<>>]
    /\ trouble = 0

Trouble == trouble < MaxTrouble /\ trouble' = trouble + 1

-----------------------------------------------------------------------------
(* import_storygraph.py: one transaction, INSERT OR IGNORE row by row.     *)

AddRead(rows, r) ==
    IF \/ r.status # "read" \/ r.title = Missing
       \/ SameBook(rows, r)
       \/ r.id # "" /\ \E d \in DOMAIN rows : rows[d].id = r.id
      THEN rows
    ELSE Append(rows, [NewRow("storygraph_entry", [title |-> r.title, author |-> r.author,
                               narrator |-> Missing], "") EXCEPT !.id = r.id, !.rating = r.rating])

\* The table with the first n rows of the export.
AllAdded ==
    LET table[n \in 0..Len(ReadList)] ==
            IF n = 0 THEN docs ELSE AddRead(table[n - 1], ReadList[n])
    IN  table[Len(ReadList)]

ImportReadList ==
    /\ docs' = AllAdded /\ docs' # docs
    /\ UNCHANGED <<job, classify, cache, trouble>>

-----------------------------------------------------------------------------
(* audiobooks_scan.py and handle_audiobook_ingest, which writes in three   *)
(* transactions.                                                           *)

\* The scan looks at the documents only, so that a book's job may be in the queue
\* twice, or be there long after the book has its document.
Submitted(path) == path \in FindBooks

Begin(started) ==
    /\ job = Idle /\ job' = started
    /\ UNCHANGED <<docs, classify, cache, trouble>>

\* Mutant: a path that has its document is ingested again.
IngestAudiobookAgain(path) ==
    /\ Submitted(path)
    /\ Begin([pc |-> "entry", path |-> path, match |-> FuzzyMerge(Metadata(path))])

\* The checks, the tags and the merge, before anything is written. While the drive
\* is not mounted the job fails, and the next scan has nothing to list.
IngestAudiobook(path) ==
    /\ Submitted(path) /\ ~Ingested(path)
    /\ Begin([pc |-> "entry", path |-> path, match |-> FuzzyMerge(Metadata(path))])

UpdateEntry ==
    /\ job.pc = "entry" /\ job.match # 0
    /\ docs' = [docs EXCEPT ![job.match].path = job.path,
                            ![job.match].narrator = Metadata(job.path).narrator]
    /\ job' = [pc |-> "document", path |-> job.path]
    /\ UNCHANGED <<classify, cache, trouble>>

\* INSERT OR IGNORE: an export read since the merge may have the very book.
InsertEntry ==
    LET meta == Metadata(job.path)
    IN  /\ job.pc = "entry" /\ job.match = 0
        /\ docs' = IF SameBook(docs, meta) THEN docs
                   ELSE Append(docs, NewRow("storygraph_entry", meta, job.path))
        /\ job' = [pc |-> "document", path |-> job.path]
        /\ UNCHANGED <<classify, cache, trouble>>

InsertDocument ==
    /\ job.pc = "document"
    /\ docs' = IF Ingested(job.path) THEN docs
               ELSE Append(docs, NewRow("audiobook", Metadata(job.path), job.path))
    /\ job' = [pc |-> "classify", path |-> job.path]
    /\ UNCHANGED <<classify, cache, trouble>>

EnqueueClassify ==
    /\ job.pc = "classify"
    /\ classify' = Append(classify, Min(RecordingsOf(job.path)))
    /\ job' = Idle
    /\ UNCHANGED <<docs, cache, trouble>>

-----------------------------------------------------------------------------
(* book_enrichment_scan.py and ingest_book_enrichment.                     *)

\* enriched_at and description: a row enriched without a description is tried again.
NeedsEnrichment(row) == row.source = "" \/ row.description = ""

\* Whatever the scan saw, the handler looks again.
EnrichBook(d, force) ==
    /\ d \in DOMAIN docs /\ (force \/ NeedsEnrichment(docs[d]))
    /\ Begin([pc |-> "open_library", doc |-> d])

Title == docs[job.doc].title
Book == <<docs[job.doc].title, docs[job.doc].author>>

Found(description, subjects, source) ==
    [found |-> TRUE, description |-> description, subjects |-> subjects, source |-> source]

Cached(client) == IF Book \in DOMAIN cache[client] THEN cache[client][Book] ELSE NoData

\* Mutant: what was not found is remembered too.
RememberMisses(client, data) ==
    cache' = [cache EXCEPT ![client] =
                (Book :> IF data = NoData THEN Found("", {}, client) ELSE data) @@ @]

\* _save_cache: what was found, and only that.
Remember(client, data) ==
    cache' = IF data = NoData THEN cache
             ELSE [cache EXCEPT ![client] = (Book :> data) @@ @]

\* What the handler goes on with: the data of the first client, or both.
OpenLibrarySays(data) ==
    /\ Remember("open_library", data)
    /\ job' = IF data.found /\ data.description # ""
                THEN [pc |-> "write", doc |-> job.doc, data |-> data]
              ELSE [pc |-> "google_books", doc |-> job.doc, data |-> data]

\* get_book_data of openlibrary.py: a search, and one request more for the
\* description. Two requests may fail, each after three attempts; a description
\* that could not be fetched is cached as none.
AskOpenLibrary ==
    LET known == OpenLibrary[Title]
    IN  /\ job.pc = "open_library"
        /\ IF Cached("open_library").found
             THEN OpenLibrarySays(Cached("open_library")) /\ UNCHANGED trouble
           ELSE \/ ~known.found /\ OpenLibrarySays(NoData) /\ UNCHANGED trouble
                \/ /\ known.found /\ UNCHANGED trouble
                   /\ OpenLibrarySays(Found(known.description, known.subjects, "open_library"))
                \/ Trouble /\ OpenLibrarySays(NoData)
                \/ known.found /\ Trouble /\ OpenLibrarySays(Found("", known.subjects, "open_library"))
        /\ UNCHANGED <<docs, classify>>

\* Open Library's data, the gaps filled.
Merged(ol, gb) ==
    IF ~ol.found THEN gb
    ELSE IF ~gb.found THEN ol
    ELSE Found(gb.description, IF ol.subjects = {} THEN gb.subjects ELSE ol.subjects,
               IF gb.description = "" THEN ol.source ELSE gb.source)

GoogleBooksSays(data) ==
    /\ Remember("google_books", data)
    /\ LET all == Merged(job.data, data)
       IN  job' = IF all.found THEN [pc |-> "write", doc |-> job.doc, data |-> all]
                  ELSE [pc |-> "embed", doc |-> job.doc, description |-> "",
                        subjects |-> docs[job.doc].subjects]

AskGoogleBooks ==
    LET known == GoogleBooks[Title]
    IN  /\ job.pc = "google_books"
        /\ IF Cached("google_books").found
             THEN GoogleBooksSays(Cached("google_books")) /\ UNCHANGED trouble
           ELSE \/ /\ UNCHANGED trouble
                   /\ GoogleBooksSays(IF known.found
                         THEN Found(known.description, known.subjects, "google_books") ELSE NoData)
                \/ Trouble /\ GoogleBooksSays(NoData)
        /\ UNCHANGED <<docs, classify>>

\* The row is written as the data is, with less than it had or with more.
WriteEnrichment ==
    LET data == job.data
    IN  /\ job.pc = "write"
        /\ docs' = [docs EXCEPT ![job.doc].description = data.description,
                                ![job.doc].subjects = data.subjects,
                                ![job.doc].source = data.source]
        /\ job' = [pc |-> "embed", doc |-> job.doc, description |-> data.description,
                   subjects |-> IF data.subjects # {} THEN data.subjects
                                ELSE docs[job.doc].subjects]
        /\ UNCHANGED <<classify, cache, trouble>>

\* _compose_fallback_embed_text
FallbackText(row, subjects) == <<row.type, row.title, row.author, row.narrator, subjects>>

\* embed_document leaves a document that has chunks as it is.
EmbedBook ==
    /\ job.pc = "embed"
    /\ docs' = [docs EXCEPT ![job.doc].text =
                  IF @ # <<>> THEN @
                  ELSE IF job.description # "" THEN <<job.description>>
                  ELSE FallbackText(docs[job.doc], job.subjects)]
    /\ job' = Idle
    /\ UNCHANGED <<classify, cache, trouble>>

\* _embed_description: the exception is logged, the job completes.
EmbeddingFails ==
    /\ job.pc = "embed" /\ Trouble
    /\ job' = Idle
    /\ UNCHANGED <<docs, classify, cache>>

\* The job is failed by the watchdog.
WorkerDies ==
    /\ job # Idle /\ Trouble
    /\ job' = Idle
    /\ UNCHANGED <<docs, classify, cache>>

-----------------------------------------------------------------------------
\* At most two rows for a recording.
Rows == 1 .. 2 * Cardinality(DOMAIN Recordings) + Len(ReadList)

HandlerStep ==
    \/ UpdateEntry \/ InsertEntry \/ InsertDocument \/ EnqueueClassify
    \/ AskOpenLibrary \/ AskGoogleBooks \/ WriteEnrichment \/ EmbedBook

CatNext ==
    \/ \E path \in DOMAIN Recordings : IngestAudiobook(path)
    \/ \E d \in Rows, force \in BOOLEAN : EnrichBook(d, force)
    \/ HandlerStep \/ EmbeddingFails \/ WorkerDies \/ ImportReadList

EnrichTitle(t) == \E d \in Rows : d \in DOMAIN docs /\ docs[d].title = t /\ EnrichBook(d, FALSE)

\* The scans run every night and submit what is not done; the worker comes to every
\* job, as QueueDrains of JobQueue says, and goes on with what it began. Of the
\* rows with one title no more is assumed than that one of them has its turn.
CatFairness ==
    /\ SF_catVars(\E path \in DOMAIN Recordings : IngestAudiobook(path))
    /\ \A t \in DOMAIN GoogleBooks : SF_catVars(EnrichTitle(t))
    /\ WF_catVars(HandlerStep)

CatSpec == CatInit /\ [][CatNext]_catVars /\ CatFairness

-----------------------------------------------------------------------------
\* However often its job is submitted and wherever a worker dies, an audiobook
\* that has its document has an entry of about its title in the reading list, and
\* was given to classify_book at most once.
AudiobookIsCatalogued ==
    \A d \in DOMAIN docs : docs[d].type = "audiobook" =>
        /\ \E e \in Entries : docs[e].title = docs[d].title \/ Overlaps(docs[e].title, docs[d].title)
        /\ Cardinality({n \in DOMAIN classify : classify[n] = d}) <= 1

\* In the end every recording on the shelf has its document, and every book
\* Google Books describes has a description, whatever failed before and whatever
\* Open Library's cache remembers of it.
CatalogCompletes ==
    <>[](/\ \A path \in FindBooks : Ingested(path)
         /\ \A d \in DOMAIN docs :
               GoogleBooks[docs[d].title].found /\ GoogleBooks[docs[d].title].description # "" =>
                   docs[d].description # "")

\* book_enrichment.py:15: the document is embedded "so the serendipity judge has
\* something to match on even for books with few or zero highlights".
EnrichedIsEmbedded ==
    job = Idle => \A d \in DOMAIN docs :
        docs[d].source # "" => docs[d].text # <<>>
=============================================================================
