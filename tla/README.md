# Commonplace, verified in TLA+

Commonplace is a personal knowledge server: an MCP server and a capture endpoint
(`commonplace_server`), a worker that ingests books, videos, podcasts, articles,
journals, highlights and liturgical texts (`commonplace_worker`), scripts started by
launchd or by hand (`scripts`), and one SQLite file, `library.db`, that all of them
open at once (`commonplace_db`).  Nothing else is shared: no broker, no lock server.
What makes the system hard is exactly that: several processes, each with its own
connection, that commit in small transactions, are killed at any time, and find what
others left.

This directory holds TLA+ modules for the parts where that matters, TLC
configurations that check them on small instances, and TLAPS proofs of what should
hold for every instance.

Run a configuration with `tlc -config X.cfg MCModule` and a proof with
`tlapm Module.tla`; `PROJECT.json` lists runs, mutants (small bugs planted in a
definition, each of which must break the property it is listed under), the source
lines behind every definition, the hazards, and the findings.

## 1. The system

| part | state it keeps | operations | what makes it correct |
|---|---|---|---|
| job queue (`jobs.py`, `worker.py`) | `job_queue` | submit, cancel, claim, mark complete / failed / requeued / retry | a claim is exclusive while the handler runs; attempts count retries; every job ends; a job is not lost |
| watchdog (`zombie_job_watchdog.py`) | none; reads and fails rows | find, fail, prune | no row stays running; live work is left alone |
| checkpoints (`checkpoints.py`) | `job_stage_checkpoints`, a scratch directory per job | start, complete, read back, purge | paid work is not repeated; what a checkpoint says is true |
| embedding client (`embedding.py`) | a circuit breaker per process, under a lock | before call, after success, after failure | opens after the threshold, closes again |
| media handlers (`youtube.py`, `podcast.py`, `video.py`, `article.py`) | vault files, `documents` | stages from download to embedding | resumable, idempotent per source |
| surface (`server.py`, `surface.py`) | `surface_invocations` | the MCP tool, its threads, the judge subprocess, feedback | one row per request, first verdict stands, every call is answered |
| capture (`capture.py`, `worker.py`) | `inbox/`, `inbox/processed/`, jobs | POST, dispatch, move | an accepted capture is never lost |
| migrations (`db.py`) | the schema, `schema_version` | migrate, on every connection | recorded means applied; the process comes up |
| index (`pipeline.py`, handlers, `reembed_documents.py`) | `documents`, `chunks`, `embeddings`, `chunk_vectors` | insert, refresh, replace, embed, re-embed | chunks are those of the content and have its vectors |
| repair (`repair_stuck_ingestions.py`) | a plan | build, apply | repairs what is stuck and nothing else |
| search (`search.py`) | none | query under a deadline and a cancel event | an interrupt hits only its own query |
| liturgical parsers (`liturgical_parsers/`) | a builder for the unit at hand | read a page element by element | text goes to the unit it is printed under, none is lost |
| liturgical calendar (`liturgical_calendar.py`) | none (pure) | the feast of every day of a year | feasts on allowed days, lost only to their equals |
| liturgical import (`liturgy_bcp.py`, `liturgy_lff.py`, `feast_import.py`) | `documents`, `liturgical_unit_meta`, `commemoration_bio`, `feast` | one job for each book, a script for the feasts | a run without errors has stored everything |
| audiobooks, reading list, enrichment (`audiobooks.py`, `import_storygraph.py`, `book_enrichment.py`) | `documents`, two caches on disk | tag, merge, describe, embed | a recording is catalogued once; every book gets its description |
| books folder (`library_scan.py`, `library.py`) | `documents` with size and time of the file | scan, copy, extract | what the folder holds is recorded |
| therapy sessions (`therapy_watcher.py`, `therapy_session.py`) | `therapy_session_meta`, checkpoints | compare, fetch in parts, refresh | no edit is taken for known whose text is not stored |
| Bluesky, Kindle (`bluesky.py`, `kindle.py`, two backfills) | `documents` | fetch, insert what is new | every item gets stored, however runs end |
| films and series (`video_metadata_scan.py`, `video_metadata.py`) | `documents` | scan a drive, ask TMDB | what an outage kept away is made up for |
| profile (`corrections.py`, `profile.py`) | `current.md`, `history/`, `inbox/` | correct, regenerate once a month | no directive is lost, no addition archived unread |
| Day One (`dayone.py`) | `documents` | sweep | idempotent per entry |
| chunking, judge parser, images, transcription | none | compute, call programs | agree with their definition |

They interact through rows.  The server and the scans (started by launchd: the books
folder every quarter of an hour, Day One every hour, Bluesky every six hours, the others every
day, the profile every month) `submit`; the worker claims,
calls a handler, and the handler calls `embed_document`, which calls Ollama through
the breaker; `CircuitOpenError` travels back to the worker, which requeues the job.
The watchdog and the repair read and write the same rows on their own clock.  The
complete list of parts, modelled or not, is in `PROJECT.json` under `components`.

The behaviours that are hard to test, and which the properties below are about:
interleavings of processes between two transactions; a death between a file and a
row, or between two rows; values read before a commit of somebody else and used
after it; sources (files, pages, feeds) that change between two requests; retries that find what the first attempt left; cancellation of a coroutine
whose threads go on; ids that SQLite gives out again.

## 2. The modules

Each component module has its state as VARIABLES, one action per transaction or per
step another actor can see, a type invariant, and its properties at the end.  An
`MC` module gives values to the constants the `.cfg` cannot write down; the breaker, the
media handlers and the surface need none.  A definition whose name is announced by
`Mutant:` in its comment is a planted bug, used by no specification.  The theorems are in
the eight modules whose names end in `Proofs` (section 4).

### JobQueue, JobLifecycle

`jobs` is the table, `worker` the local variables of `poll_once` in each worker,
`watchdog` the ids `find_zombies` has read.  `poll_once` is cut at its transactions:
`Claim` (the `UPDATE ... RETURNING`), `RejectUnrunnable`, `SkipPoisonPill`,
`StartHandler`, `RecordStage` (the handler writes a checkpoint), then one of
`HandlerReturns`, `HandlerFails`, `HandlerRetryable`, `HandlerExhausted`,
`HandlerCircuitOpen`, and `PurgeForJob`.  All of them write by id alone, as the code
does, so a cancellation or the watchdog may have changed the row in between.  `Crash`
is the death of the process, `FindZombies`, `FailZombies`, `PurgeOldRecords` and
`WatchdogCrash` the watchdog.  Time is `age`, the column the row's status makes
relevant, and `Tick`.

`JobLifecycle` is the promise: a job is waiting, taken by one worker, lost (its worker
died) or over.  `JobQueue` implements it with a job *taken* as long as a worker is in
it, whatever its row says meanwhile.

### CircuitBreaker

The breaker of one process and the threads that embed through it.  `BeforeCall` and
the verdicts are steps of their own, under the lock in the code; the POST is in
between, so an answer may arrive in any later state.  `PostGarbled` is an exception
that is neither a success nor an `httpx.HTTPError`: the breaker never hears of it.

### MediaJob, YouTubeIngest, PodcastIngest, VideoIngest, ArticleIngest

`MediaJob` is what the four handlers of media share: several jobs for one source, the
queue as a handler sees it, the checkpointer, the scratch directory, and the steps that
are the same in each of them (look for the document, write the vault file, insert, record,
embed).  What survives a run is in `done`, `stored`, `scratch`, `vault` and `doc`; what
does not is `text`.  `Die`, a retryable or final failure and `EmbedCircuitOpen` end a run
at any stage the code lets them, and `CleanScratch` clears a cache directory.  `Captured`
are the jobs that `_capture_handler` runs for a captured link: it hands the handler a
payload without `_job_id`, so they have neither checkpoints nor a lasting directory.

Each handler module has the stages of its handler and what may fail there, and ends in one
disjunction, the handler's body: `YouTubeHandle` (captions, else Whisper; a document
checkpoint that is believed without looking), `PodcastHandle` (feed, else Whisper, whose
every failure is worth a retry), `VideoHandle` (two halves of the text, either of which
may be lost to a swallowed failure; identified by the hash of the file), `ArticleHandle`
(one checkpoint, and it comes last).

One observation made here: nobody reads the `summarized` checkpoint, nor the
`doc_written` checkpoint of a video or an article, since nothing after them requeues the
job.  The comment at `article.py:255` counts on "the next attempt" after a crash; a
crashed job has none.

### MediaIngest, IngestPromise

`MediaIngest` puts the handlers under the worker, one kind at a time (`media`).
`IngestPromise` is what they promise of a source, however many jobs ask for it: at most one
document, inserted and embedded by the same job in that order, never taken back, and no job
that succeeds before there is one.  `ImplementsPromise` maps `author` to the job in the
`documents` row and `request` to the status of the jobs.

### SurfaceInvocation

One coroutine per request (`tool`), the thread that inserts the row (`beginner`), the
thread of `run_surface` (`runner`), and the client, who may cancel at each await and
send feedback.  Every telemetry write may be lost to an exception the code logs.  A request
that names content types is searched for once per type (`left`); between two searches
only the deadline is looked at, and the cancel event is seen by a handler SQLite calls every
1000 steps of a query, so a query may end in spite of it (`BeginQuery`, `QueryEnds`).
`late` is where the cancellation found the thread and what it has begun since.

### CaptureInbox

The endpoint up to its 202, the inbox as sets of files named by second and content,
and the worker's dispatcher for the three ways a capture is taken: embedded in place,
moved to the vault, or handed to a handler of its own.

### Migrations

`migrate` by several processes.  A migration is a sequence of statements, each of which
ensures an object, adds one (and fails if it is there), or drops one with the rows that
go with it; `executescript` commits each statement, and the version row is one more
transaction.  `MCDependencies` has the shapes of 0001/0002 (`Additive`) and of 0016
(`Rebuild`), and puts the migrations and `CircuitBreaker`, which share nothing, side by side.

### DocumentIndex, StuckRepair

The four tables of the index and the two programs that write them, with SQLite's row
ids (the id of a deleted last row is given out again).  One chunk stands for the chunks
of a document.  The kind of a source decides how its handler treats known content:
books are found by hash (`library.py`), conversations are refreshed in place
(`conversation_summary.py`, `therapy_session.py` alike), journal entries are deleted and inserted
(`dayone.py`).  `StuckRepair` composes the index with
`repair_stuck_ingestions.py`.  `quiet` says that scripts run only while the worker is
stopped; `quiet` is chosen in `RepairInit`, so one run has both.

### PrayerBook, the six parsers, LiturgicalParsers, Anthology

`PrayerBook` is what the parsers of `liturgical_parsers/` share: a page is a sequence of
elements, known by what the parser's predicates tell apart, read once; the text of an
element is its position.  An element is drawn when the parser gets to it, so the pages
are all sequences of elements up to a length.  Each parser has a module of its own, with
the loop's branches as actions in the order of its tests: `DailyOfficeParser` (which looks
ahead, and begins with its whole page), `CollectsParser`, `PsalterParser`,
`ProperLiturgyParser`, `PrayersParser`, `LesserFeastsParser` (a PDF's spans, two kinds of
page, and the running date).  `LiturgicalParsers` puts them side by side and states what
is printed where.  `Anthology` is what all promise: a finished unit is on the shelf and
stays as it is, and nothing is added but what was just read; `ImplementsAnthology` is
the refinement.

### LiturgicalCalendar

`resolve_with_precedence` places the principal feasts, then the holy days, then the lesser
commemorations, one by one, into a calendar; a day is its number in the year and a year is
the date of Easter and whether it is a leap year.  The table is a constant: the one of
`seed/feasts.yaml` (double entries included), and every table of up to three feasts from a
pool of those that get in each other's way.

### LiturgyImport

The jobs `ingest_liturgy_bcp` and `ingest_liturgy_lff`, and `feast_import.py`, which fills
the table the second looks its saints up in.  Every commit is a step: the row of a unit,
its metadata, its embedding.  A failure is counted and passed over, as in the code, and a
job or the script may die at any of them.  The units are what the parsers return, a
constant here.

### MCLiturgicalYear

The parsers, the calendar and the import side by side: they share no state while they run,
so a behaviour is one of a parser, of the calendar, or of the import.

### BookCatalog

Audiobooks, the StoryGraph reading list and book enrichment over one `documents` table.
`Metadata` is the precedence of tags and directory names, `FuzzyMerge` the search for the
entry with the most common words.  `ingest_audiobook` is cut at its four transactions, the
enrichment at its two services, their caches and the write; both run after one another on
the single worker.

### Library

`library_scan.py` stats the whole folder first and then tells file by file, by path, size
and time, else by hash, whether a job is needed; `handle_library_ingest` stats, copies
(`CopyHangs` is the timeout on Drive), checks the hash, inserts and embeds.  Files are
replaced at any moment.  `DocumentIndex` has the same handler where its chunks matter,
`Library` where the file does.

### Therapy

One Notion page, edited at any moment: the watcher (`GetPage`, `ComparePage`,
`SubmitSession`) and the handler, whose requests for the page, its blocks and the blocks
below them are three steps with two checkpoints, shared by the attempts of a job.

### Feeds

Posts and highlights: `service` says whose handler it is.  A run fetches what there is,
newest first, and takes item by item: look up, insert, embed, each another transaction.  The
backfill script and a job may run at once.  The code fetches the highlights of one book
after another; here a run fetches them all at once, and an edit between two books is an
edit before or after.

### FilmCatalog

`video_metadata_scan.py` goes over the entries of the drive and submits those without a
plot; `_handle_video` asks TMDB, whose client gives `None` for an error as for a title it
does not know, writes over the row, and embeds.

### Profile

`current.md` as two sets of directives: bullets, the form the answer of the model is
validated against, and the lines `correct` writes.  `correct_profile` is a read and a
write, the regeneration a read of the profile, one of the inbox, the answer, a snapshot, a
write, and the archiving of an inbox that is listed again.  The answer is any set of
bullets with those that were read: nothing in the code compares the other way round, so the
model may bring in new ones.  `calm` marks the behaviours in which nobody corrects during a
regeneration; `latecomers` are the files that came in after the inbox was read and before it
was listed again.

### MCSources

The six modules above, one source at a time: what one of them writes
into a row no other reads.

## 3. The runs

| run | instance | what it shows |
|---|---|---|
| `queue_safety` | 2 workers, 2 rows, a good and an unrunnable payload, 2 attempts | `NoDoubleExecution`: no job is in two workers nor offered while one is in it, although every write after the claim ignores the status it overwrites. `RetriesCounted`: attempts are retryable failures, no more and no less. `ImplementsLifecycle`. |
| `queue_poison` | 2 workers, 3 rows, threshold 1, 1 attempt | `PoisonBrakeBounds`: no more handlers crash on one payload than the threshold plus those already past the guard, one of which may be while the other worker crashes. |
| `queue_progress` | 1 worker, 2 rows | `QueueDrains`: every queued job is claimed, and no row stays running. |
| `media` | 1 job with checkpoints and 1 captured job, 2 workers, 2 transcripts, 2 attempts, each of the four kinds | `NoRework`: what a checkpoint says was done is never done again. `TranscriptIsUsed`: a transcript that was paid for is in the document its job inserts, though `video.py` swallows failures. `CheckpointNamesOwnDocument`, `DocumentHasVaultFile`, `MediaJobEnds`, `ImplementsPromise`. |
| `surface` | 1 request, up to 3 types | `OneRowPerRequest`, `FirstVerdictStands`, `OrphanRowsExplained` (the four causes of a row left running, and no fifth), `BoundedLateWork` (what is begun after the client has gone depends on where that found the thread: the searches that were left, or one claude process, or nothing), `CallEnds`. |
| `capture` | 3 kinds of content, 2 seconds, 2 requests, 2 attempts | `AcceptedIsKept`: an accepted capture has its file or its document, and a complete one is where its kind belongs. `CaptureEnds`. |
| `dependencies` | 2 processes, 3 additive migrations, 2 deaths; 3 threads, threshold 3, cool-down 2 | `RecordedIsApplied`: the version table never says more than is there. `ComesUpUndisturbed`: both come up if nobody is killed, although they fail each other. `ClosedBelowThreshold`: closed exactly below the threshold, so one failed probe reopens. `Heals`: an Ollama that is back for good closes the circuit for good. |
| `repair` | a conversation or a journal entry, and a book, 2 versions, 2 ids; scripts and worker in turns, or all at once | `ChunksMatchDocument` and `DeletedHasJob`, in turns. `RepairSparesChunks`: an old plan never takes chunks with it. `ChunkKeepsItsVector`: only the repair parts a chunk from its vector. |
| `liturgical_year` | every page of four elements (offices, proper liturgies) or six (the others), saints' pages from four beginnings on; every date of Easter, Western and Orthodox, in common and leap years, with the seed's tables and 1,159 small ones; five prayer-book pages, two saints, four versions of the feast file, one failure or death | `TextInItsPlace`, `NoTextLost`, `ImplementsAnthology`: text goes to the unit, page, section and date it is printed under, and stays. `ObservedWhereAllowed`, `LostOnlyToItsEqual`: what the rules promise of the year, whatever moves. `CleanRunIsComplete`: an import that reports no error has stored everything, whatever failed or died before. |
| `sources` | 2 recordings and 3 lines of a reading list; 2 book files, 2 contents, 2 replacements; 3 edits of a page; 3 items of a feed with 2 texts; 3 entries of a drive; 2 directives and 1 addition; one failure or death anywhere, two for the page and the drive | `AudiobookIsCatalogued` and `CatalogCompletes`, `NewestIsRecorded`, `LastEditIsStored`, `FeedIsStored`, `FilmsAreCatalogued`, `DirectiveIsKept` and `AdditionIsHeeded`: what a source holds in the end is recorded although it changes under the readers, a stale look never hides it from later ones, and nothing is catalogued twice or lost. |
| `doc_processed_is_embedded` | 1 text, 1 request | finding 1 |
| `doc_directives_survive` | 2 directives, 1 addition, nothing fails | finding 2 |

### Bounds, and why they are enough

Two workers, two threads of a kind or two processes exhibit every race between a pair,
and no code here counts actors (the breaker does, hence three threads, the number of
its threshold).  Two rows let one job stand before another; the third status of a row
is reached by the same id being pruned and given out again.  `queue_poison` has three rows
because its bound is two for two workers and a threshold of one, and only a third row could
exceed it; it has one attempt and the shortest window and ages in return.  Requests of
`surface` share no row, no thread and no variable (only the crash of the server, which ends each
of them by itself), so one has the behaviours of each; the proofs are for any number.  Two attempts separate
"retry" from "exhausted"; the code's 3 adds no branch.  Ages saturate one above the
largest threshold.  Two ids for documents and chunks are what it takes to delete the
last row and give its id to another document.  Two versions of a source are an edit.
`MaxDeaths` of `Migrations` and `LastSecond`, `MaxRequests` of `CaptureInbox` bound
counters that would grow for ever; two captures of one second and of two seconds are
the two cases of the file name.  Pages of four elements hold a
heading, a text, something between, and the next heading, which is what the loops look at;
the look-ahead of the daily office ends within them.  Three feasts are one that moves, one in its
way and one behind that.  In `sources`, two contents let a file go back to what it was, three items with two
texts make two items share one with a third between them, and one entry of the drive has a
plot, one has none, one has no title.  No symmetry is used where liveness is checked.

Deadlock is checked in `dependencies` and `sources`.  The other configurations
switch it off because the modelled system comes to rest: the queue is empty, every
request is answered, the bounded ids are used up, the page is read, the year is full.

### Fairness

`JobQueue`: the worker polls (launchd `KeepAlive`; `run_forever` loops), the watchdog
is started every five minutes and gets through its three transactions, time passes.
Handlers end, strongly fair, because their subprocesses and HTTP calls have timeouts
and an outage or a crash loop does not go on for ever; `HangingSpec` is the same
without it. `CircuitBreaker`: texts keep coming and an Ollama that is up does not
garble every answer; nothing forces it to be up. `MediaIngest`: the worker claims and
a handler's next step comes, or its row is failed by the watchdog (`Die`).
`SurfaceInvocation`: every wait of a thread has a timeout and the event loop runs; the
client need not do anything. `CaptureInbox`: the dispatcher goes on and the watchdog
comes round; nothing is assumed of Ollama. `Migrations`: a process that ended is
started again. The sources: launchd starts every scan and backfill again, daily or more often
(`build/STATE.md`, `scripts/com.commonplace.*.plist`), each goes over the whole of its source, and the worker goes on with
what it began; all of it is weakly fair.  Only in `BookCatalog`, where the queue is not modelled,
the turn of a recording or a title is strongly fair, which is `QueueDrains`. `liturgical_year`
has no liveness.
Crashes, cancellations, failures, edits and submissions by hand are never fair.

## 4. The proofs

TLC shows a property for two workers; a theorem shows it for any sets and numbers that
satisfy the named assumptions: `QueueAssumption`, `WorkerAssumption`,
`BreakerAssumption`, `MigrationAssumption`, `MediaAssumption`, `TextAssumption`,
`IndexAssumption`, `CaptureAssumption`, `ProfileAssumption`, `TherapyAssumption`,
`SurfaceAssumption`, `CatalogAssumption`, `BooksAssumption`, `YearsAssumption`, `TablesAssumption`,
`TextsAssumption`, `NamesAssumption`, `OfficeAssumption`, `LibraryAssumption` and
`FilmAssumption`.  Most say that a bound is a number.
Four say more:
`WorkerAssumption` that the workers are finitely many, `YearsAssumption` that Easter lies
between March 22 and May 8 (both computi), and `NamesAssumption` that no two saints have
the same slug, which the repository tests (`tests/test_lff_2024_parser.py:258`).
`OfficeAssumption` says that a page of the daily office is there as a whole before it is read:
the parser makes the list of its elements first and looks ahead in it
(`bcp_daily_office.py`), while the other parsers see one element after the other.

Every proof has the same shape.  A property is seldom inductive; the invariant that is
says for each actor what its place in the program implies about the shared rows *now*,
since every actor writes what it read some transactions ago.  `Init` implies it, each
action is one step of the proof that it is kept, and it implies the property.  The
modules put what many actions share into lemmas.

### JobQueueProofs

* `TypeCorrect`, `ClaimsAreExclusive`, `AttemptsCountRetries`.  `NoDoubleExecution` is
  not inductive: a row could be `queued` while its holder is still to write, unless the
  holder's row is never queued by anybody else.  The invariant therefore says for each
  worker that its row exists, is not queued, has nobody else on it and the attempts of the
  worker's copy, and for each row what its status implies about `retried`.  The interesting
  actions are `FailZombies` (which never queues a row) and `PurgeOldRecords` (which needs
  the assumption that no handler outlives the retention time, stated in the module as
  an assumption about the environment).
* `QueueImplementsLifecycle`: under that invariant every step of the queue is a step of
  `JobLifecycle` or leaves it alone.
* `PoisonIsBraked`: `PoisonBrakeBounds` counts two kinds of things together, recent crashes
  of a payload and handlers at work on it.  A handler moves from one to the other when its
  process dies, so their sum is what is inductive, and it grows in `StartHandler` alone, where
  the guard has just seen fewer crashes than the threshold.  The sets are finite because
  the ids are bounded and by `WorkerAssumption`.

### SharedStateProofs

* `StateAgreesWithCount`: `ClosedBelowThreshold` for any number of threads and any
  thresholds, from an invariant that adds the types.
* `RecordedWasApplied` for the migrations up to 0015, which drop nothing
  (`NothingIsDropped`; with a script that drops, `RebuildSettles` below shows that it fails).
  A process in a script has ensured everything up to its statement; that it records a version
  only when all lower ones are recorded is `VersionsAreInOrder`, whose least missing
  version exists by well-foundedness.
* `CaptureTypeCorrect`, `AcceptedCaptureIsKept`.  `CaptureInv` says where the file of each
  job is in each place of the worker.  A file under way has to be kept too, and not
  only by its own job: two equal captures of one second share a file, and the job of the
  one moves the file of the other.
* `SurfaceTypeCorrect`, `RowsAreSingle`, `VerdictsStand`, `OrphansAreExplained`,
  `LateWorkIsBounded`.  All of it is about one request at a time.  The invariant says who may
  still insert the row (the thread that begins, or `run_surface` when that thread is known to
  have failed, never both), who knows its id, that a verdict is written before the thread that
  found it ends, and for each place the cancelled coroutine may have left its thread what that
  has begun since: the searches begun and those left are never more than the types, and a
  thread found before or in a search never gets past `CheckJudge`.

### MediaIngestProofs

* `MediaTypeCorrect`, `DocumentsAreBacked`, `HandlersKeepPromise`: for any number of jobs
  for the source, captured or not, of workers and of attempts.  `MediaInv` adds to the types
  what a place in a handler says (a run that is about to insert has written its file, one past
  the insert is the author of the row) and that a job which may be claimed has an attempt
  left.  Nearly every action of the four handlers is one of two kinds, a step within a run or
  the end of a run; one lemma for each kind shows that the invariant survives and that the
  step stutters or is a step of the promise, and a dozen lemmas say of which kind the shared
  steps are.  What is left is the insert, the embedding, the file, and the queue.
* `CheckpointsAreTrue`, `WorkIsPaidOnce`, `TranscriptsAreUsed`: each adds an invariant of
  one job, `RunInv`: what its run holds in memory agrees with what its checkpoints say.  A
  lemma for each says that a step of another job keeps it, so only the job's own stages remain.

### StuckRepairProofs

* `RepairTypeCorrect`, `ChunksAreCurrent`, `EmbeddedOnceInTurns`.  `IndexInv` consists of the
  types, what each program at work holds (`Places`), that a job in the worker is a row that
  is running (`RunsAreHeld`), the property itself, and that in quiet times programs take turns.
* `RepairTakesNoChunk` needs `RepairSound`: what a plan lists as an orphan was one when the
  plan was made, and a chunk that has appeared since is none of its rows.
* `DeletedHasItsJob` adds what the plan still owes a source; that part is not kept if the
  script dies with its plan, which is the finding `DeletedHasJob` below.
  `ChunksAreCurrentThroughDeaths` shows that the chunks are kept even then.
* `VectorsStayWithChunks` is an action property over all three programs.

### LiturgyProofs

* `FeastsOnAllowedDays`, `FeastsKeepTheirOrder` (`ObservedWhereAllowed`), `OnlyEqualsDisplace`.
  Every placed feast stands where the rules allow and every unplaced one has its reason on
  the calendar; the search for an open day ends because more days follow than feasts can
  occupy (a pigeonhole).  The proof of `OnlyEqualsDisplace` showed that
  `LostOnlyToItsEqual` was false as it stood: a principal feast of a fixed date does not move
  out of the closed weeks around Easter, only a holy day does.  No table of the run has such a
  feast.  The property now says what the code does.
  For the order, `OrderInv` keeps of every feast that was moved what it passed over on the way:
  days with feasts that are there to stay, Sundays, Ash Wednesday.  The feasts of one kind are
  placed by date, so one with a later date can overtake an earlier one only by staying on a day
  that the earlier one passed over, which is possible on the Sundays of
  `SUNDAY_OVERRIDE_FIXED_DATES` alone, and takes six feasts on the six days before.  The
  property names this exception (`CrowdedWeek`); with a table of such a week TLC finds the
  order broken.
* `CleanRunsAreComplete`.  Rows only say more and a counter of errors only grows, so what
  a run without an error has passed is there for good; the run holds the row it has just made.
  The saints' slugs have to be different, else one saint's row hides the other's.

### ParserProofs

`ParsersKeepPromise`: `ParserSpec => ImplementsAnthology`, for any beginnings and any
lengths of the pages, so for pages of any kind.  Every branch of every loop is a step of one
of three kinds, with a lemma each: `PageIsRead` closes the unit at hand, `BeginStep` closes
it and begins a new one, `GoOnStep` keeps it and may add to it; a step of such a kind is
a `ReadOn` of the anthology or leaves it alone (`ReadStep`).  `BookInv` is what they need.
`PageRead`: every piece of every unit lies before the element to be read next, so what a
step adds is new.  For each parser, why no text is thrown away with a unit that is
dropped: a collect or a prayer has its body before any other text, a psalm its verses, a
life the name of its saint, or else it holds rubrics and headings only (`CollectsInv`,
`PrayersInv`, `PsalterInv`, `LivesInv`).  The psalter sorts its psalms at the end and
the lives drop separators; that sorting keeps the set of units, and dropping nothing
but separators, rests on `SelectedIs`: the positions that are kept have ranks from 1 to
their number (`RanksAre`, by counting).

### PlaceProofs

`TextIsInItsPlace` (`TextInItsPlace`) and `TextIsNeverLost` (`NoTextLost`), for the six
parsers and pages of any length, by an invariant `PlaceInv` with a part for each parser.
Both properties look back over the page: which heading, marker, section, label or date was
printed last before a piece of text.  The parsers do not look back; they keep a unit at hand, a
page number, a section, a state.  The invariant says what these variables tell of the elements
read so far, and TLC checked it on the run's pages before it was proved.

* Where looking back is the same in several books, it is stated for any set of
  headings, texts and markers.  `LatestIn(S, k)` is the last element of `S` up to `k`.  `Kept` says
  that the units emitted and the one at hand have the texts that stand under their headings and no
  others, `Paged` that each has the page printed before it; for each there is a lemma for a new
  heading, for a text, for an element passed over and for the end of the page.  The collects and
  the prayers are instances (`CollectsPlaced`, `PrayersPlaced`), the latter with its sections.
* The psalter (`PsalterPlaced`) sorts the psalms at the end, which moves no text, and holds
  subheadings back until a verse follows; those that wait stand under the psalm at hand (`Waiting`).  The proper liturgies
  (`ProperPlaced`) relate section, page and heading of each unit.
* The daily office looks ahead.  A season that stands alone takes the paragraph below it for its
  sentence and jumps over it, and whether an element is such a sentence depends on
  all seasons before it: `TakenBySeason` is a recursive function.  That every page has one is shown by
  well-foundedness (`SeasonsTake`); afterwards only its defining equation is used (`TakenIs`).
  `OfficePlaced` says that `at` never points into what was jumped over.
* The lives are a state machine over kinds of pages, so `LivesPlaced` first says for each state
  what has been read on this page (`Machine`), then which texts the life at hand has
  (`LivesKept`), to which rite (`RitesKept`) and which date (`DatesKept`), and how a life begins
  (`LivesBegin`).  The proof showed that two `CASE` arms of `LesserFeastsParser` overlapped, where
  the code has `if`s in a row and `CASE` promises no order; they are disjoint now.

### SourcesProofs

* `ProfileTypeCorrect`, `DirectivesAreKept` (the whole of `DirectiveIsKept`),
  `ArchivedWasHeeded` (the safety part of `AdditionIsHeeded`).  Two processes read the
  profile and write all of it back with no lock, so the invariant `ProInv` says what each of
  them holds in relation to the file: the server read no bullet that is gone, and the
  regeneration will write every bullet there is (`WritersOverlap`).  So only a correction can
  take a bullet out, and only one that came in after it had read, which is what `Settled`
  excludes; `BulletsSurvive` below is the loss.  For the behaviours in which the two do not
  overlap, the invariant adds that the snapshot the regeneration took is still the file when it writes
  (`CalmKeeps`); for the inbox, that it holds nothing but what was read and what came in
  since (`InboxIsHeeded`).
* `KnownEditIsStored` (the safety parts of `LastEditIsStored`).  Of the jobs in the queue
  only the first was ever claimed, so it alone has checkpoints; the page was read no later
  than its blocks, and these no later than the blocks below them.
* `RecordingsAreCatalogued` (`AudiobookIsCatalogued`).  Rows of the table only grow.  The
  import is a fold over the export; what it keeps of the earlier rows is shown by
  induction on their number, through the least counterexample.
* `FastPathHidesNothing` (the safety part of `NewestIsRecorded`).  A time in a row is never
  later than that of the file, and if they are equal the row has the content of the file
  (`RowsWereThere`); so has the copy the handler works with (`ReaderSaw`), since it took the
  time before the copy: had it taken it after, `RowsWereThere` would not hold.  It rests on
  the time of a file growing with each replacement, as `ReplaceFile` has it.
* `PlotsAreKept` (the safety part of `FilmsAreCatalogued`).  An entry may be submitted again
  right after its job was done, and the answer of TMDB is written over the row whether it says
  anything or not; what keeps the plot is that the one worker looked whether it is there
  (`ReviewInHand`).

### Only model-checked

* Liveness, fairness and ENABLED, which the prover does not have: all leads-to properties, and the
  `<>[]` parts of `LastEditIsStored`, `AdditionIsHeeded`, `NewestIsRecorded` and
  `FilmsAreCatalogued`, and `FeedIsStored`, whose steps are safe one by one: the table takes
  each id and each text once.

## 5. Findings

Two disagreements have runs that produce the counterexample:

1. `worker.py:68`, `worker.py:89`: a text is embedded and its file moved "after
   successful dispatch".  After an open circuit the second run gets `lastrowid` 0 from
   `INSERT OR IGNORE`, skips the embedding and completes (`worker.py:138`).
2. `docs/profile-regen.md:24`: a regeneration fails "if ... any `[directive, YYYY-MM-DD]`
   line from the input is missing from the output".  `correct` writes
   `[directive, <date>] <text>` (`corrections.py:61`); `verify_directives_preserved` knows
   only bullets that end in the tag, and `parse` accepts only bullets.  So a
   regeneration may drop what was corrected since the last one, and completes; such a line
   outlasts it only if the model makes a bullet of it of its own accord.

More were met while modelling.  Each is stated as a formula in its module, at the end,
and TLC refutes it with the constants given; they have no run of their own, to keep
the runs to one for each question.

| formula | module, specification | what the code does |
|---|---|---|
| `TerminalNeverPickedUpAgain` | JobQueue `Spec`, 1 worker | `commonplace_db/maintenance.py:17` says so; a job cancelled under its handler is queued again when the handler asks for a retry (`worker.py:605`, `worker.py:623` update by id alone) |
| `WatchdogFailsOnlyStale` | JobQueue `Spec`, 1 worker | `fail_zombie` tests the status again, not `started_at` (`zombie_job_watchdog.py:151`) |
| `CrashedJobResumes` | JobQueue `FairSpec` | migration 0011 promises a next attempt; a crashed job is failed |
| `CheckpointsHaveJob` | JobQueue `Spec` | pruning runs with foreign keys off, stage rows stay (`zombie_job_watchdog.py:229`) |
| `RequeuedLooksFresh` | JobQueue `Spec` | `_mark_requeued` leaves `error` (`worker.py:623`) |
| `RetryGivesAttemptBack` | JobQueue `Spec` | `errors.py:24` says the attempt is given back; it is kept |
| `NeverWedged` | JobQueue `HangingSpec`, 1 worker | the watchdog frees the row, not the worker in the hanging handler |
| `SingleTrialCall` | CircuitBreaker, 2 threads | a half-open circuit lets every thread in (`embedding.py:93`) |
| `CompleteIsEmbedded` | MediaIngest `MediaSpec` | after an open circuit the job returns at the `doc_written` checkpoint (`youtube.py:671`) or at the row (`video.py:563`, `article.py:173`), and the document is never embedded |
| `NoReworkInProduction` | MediaIngest `MediaSpec` | `for_payload` (`checkpoints.py:171`) promises "an enabled checkpointer in production"; the dispatcher of captures passes no `_job_id` (`worker.py:151`), and a retry downloads and transcribes again |
| `ResponseNamesRow` | SurfaceInvocation, 1 request | a row inserted by `run_surface` is not in the answer (`server.py:783`) |
| `CancellationRecorded` | SurfaceInvocation, 1 request | a cancellation during the insert is never recorded (`server.py:753`) |
| `OneSearchIsLate` | SurfaceInvocation, 1 request, 2 types | "When set during KNN work, raises `SearchCancelledError`" (`search.py:342`); a short query ends before the event is seen (`search.py:103`), and `surface.py:797` goes on to the next type |
| `DispatcherFindsFile` | CaptureInbox, 1 text, 2 requests, 1 second | equal captures of one second share a file (`capture.py:167`) |
| `RebuildSettles` | Migrations, `Rebuild`, 2 processes, 1 death | the slower process drops the index the faster recorded (`db.py:110`) |
| `ComesUp` | Migrations, 1 process, 1 death | `db.py:90`: a migration "is run exactly once"; one killed after an `ALTER TABLE` and before its version row fails every later `migrate` (`db.py:124`) |
| `EmbeddedOnce` | StuckRepair, `quiet` false | the guard of `embed_document` is outside the transaction (`pipeline.py:96`) |
| `EmbeddedHasChunks` | StuckRepair | re-embedding deletes before it embeds (`reembed_documents.py:148`) |
| `SkippedIsEmbedded` | StuckRepair, a journal entry | the hash is stored before the embedding fails (`dayone.py:179`) |
| `ChunkHasItsVector` | StuckRepair, `quiet` false | the repair deletes orphans by an old plan (`repair_stuck_ingestions.py:329`) |
| `DeletedHasJob` | StuckRepair `DyingRepairSpec`, two books | deletions are committed with the first of several jobs (`repair_stuck_ingestions.py:368`) |
| `StuckIsRepairable` | StuckRepair, a book | a requeued ingest skips its own half-made document and completes (`library.py:182`) |
| `SkippedForHigherFeast` | LiturgicalCalendar | "a higher-precedence feast won it" (`liturgical_calendar.py:824`): St John is lost to a transferred St Stephen, Philip and James to a transferred Mark |
| `RerunIsNoOp` | LiturgyImport | `liturgy_lff.py:31`; every run adds a `commemoration_bio` row (`liturgy_lff.py:215`) |
| `EnrichedIsEmbedded` | BookCatalog | a book described once is never looked at again, also when its embedding failed (`book_enrichment.py:311`) |
| `LastEditIsEmbedded` | Therapy | the edit is recorded before the embedding, and a known edit is not submitted again (`therapy_session.py:184`) |
| `SnippetsAreEmbedded` | Feeds | an item with a row is skipped, embedded or not (`bluesky.py:286`, `kindle.py:117`) |
| `HighlightsAreCurrent` | Feeds, kindle | a highlight edited at its place is found by its place (`kindle.py:112`) |
| `PlotIsEmbedded` | FilmCatalog | what was embedded without a plot is not embedded again with one (`video_metadata.py:206`) |
| `BulletsSurvive` | Profile | a regeneration writes a new bullet between the two halves of a correction, which writes the profile back without it (`corrections.py:143`); only the prompt forbids new ones (`skills/regenerate_profile/SKILL.md:56`) |
| `ArchivedIsHeeded` | Profile | the inbox is listed again after the profile is written (`profile.py:310`) |

Seen in the code the same way, and left to the text because no doc or comment is at stake
or the module abstracts from it:

* Parsers.  In the daily office the sentences of a season after its first are lost, and a
  lone season's look-ahead takes over the heading behind it; a section's title beside an
  empty anchor becomes part of the prayer before it; a day of the month between two psalms
  goes to the one above; the first line beside the label "I" of a saint's collects is lost
  when it follows the name.  The properties state what holds, these exceptions named in
  their definitions (`LiturgicalParsers`).
* Calendar.  Rule 3 speaks of "within the week", which nothing enforces;
  `last_{weekday}_of_{month}` is a form the schema accepts and no branch computes.
* Imports.  A cross reference removed from the file stays in the table; a unit whose
  metadata failed is skipped by every later run; the docstrings of both handlers
  (`liturgy_bcp.py:41`) speak of one transaction where the code commits per statement.
* Books.  A StoryGraph export read after the audiobook handler made the entry is ignored
  for it (`import_storygraph.py:197`); two editions of one title share an entry and
  overwrite its path; a file whose text could not be extracted is never tried again.
* Profile.  The sample of Bluesky posts asks for `content_type = 'bluesky'`
  (`profile.py:206`), the handler writes `bluesky_post` (`bluesky.py:312`), so it is
  always empty.
* Kindle.  `kindle_scraper.py:22` caps a run at 200 requests; the handler passes no counter,
  so its pass has no cap, and the backfill spends the cap on looking through the library
  before it ingests, so a library of 200 books is never ingested by it
  (`kindle_backfill.py:195`).  `Feeds` takes the library to be smaller.

## 6. Abstractions

Texts, vectors, prompts and payloads are model values.  The MCP framing, HTTP details,
logging, and the wording of notes and errors are left out.  A SQLite transaction is one
step; `busy_timeout` failures are among the exceptions a handler or a telemetry write
may meet.  `created_at` has a resolution of a second and ties are broken by id, which is
what SQLite's scan does.  The retention of 90 days is longer than any handler: this is
an assumption, `NoHandlerOutlivesPurge`.  In `MediaJob` a requeued job's row is
never failed by the watchdog under a live run; that race is in `JobQueue`.

In the calendar a feast is its precedence, its rule and its place in the table.  In
the parsers a text is its position, so how it is cleaned is not seen; HTML and PDF are
read up to the elements the loops test.  The profile is its directives: inferred items
and the sample of the corpus are text.

Not modelled, with the reason, part by part: see `components` in `PROJECT.json`.
Read-only reports, prompts and operator scripts have no state that another part relies on;
chunking and the judge parser are pure and planned; images and transcription call external programs
around one insert.

## 7. Plan

1. `QueryDeadline`: the timer thread, the lock and the connection of `search.py`; an
   interrupt never hits the next query.  To be composed with `SurfaceInvocation`'s
   search step.
2. `Chunking` (coverage, overlap, limits) and `JudgeVerdict` (the parser's caps and
   completeness), pure modules to be checked in one run.
3. `_alarm_timeout.py`: a signal that arrives while the handler is in a finally block.
