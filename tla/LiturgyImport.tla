--------------------------- MODULE LiturgyImport ---------------------------
(***************************************************************************)
(* From the parsed books to the documents table: the jobs                  *)
(* ingest_liturgy_bcp and ingest_liturgy_lff (also run inline by           *)
(* scripts/inline_ingest_liturgy.py, with the worker stopped), and         *)
(* scripts/feast_import.py, which fills the feast table the second job     *)
(* looks its saints up in.  A text stands for its hash, its chunks and,    *)
(* with its header, its vector; embed_document is in DocumentIndex.        *)
(***************************************************************************)
EXTENDS Naturals, Sequences, FiniteSets, FiniteSetsExt, SequencesExt

CONSTANTS
    Pages,          \* Pages[p]: the units parser p reads, in order
    Saints,         \* the commemorations parse_lff_2024 reads, in order
    FeastFiles,     \* what feasts.yaml may hold, each a sequence of entries
    Subjects,       \* theological_subjects.yaml
    MaxJobs,        \* bound: jobs
    MaxFailures     \* bound: failures and deaths

VARIABLES
    docs,       \* documents, by <<content_type, source_id>>
    bios,       \* commemoration_bio: how many rows link a saint's feast to the bio
    feasts,     \* the feast table, by slug
    job,        \* the job that runs, if any
    script,     \* feast_import.py
    written,    \* the file of the last import, if it ended in success
    clean,      \* the parsers, and "lff", a run of which ended without an error
                \* and, but for "lff", without a skipped unit
    known,      \* the feasts a clean run of "lff" found in the table
    jobs,       \* how many jobs were submitted
    failures    \* how much went wrong

litVars == <<docs, bios, feasts, job, script, written, clean, known, jobs, failures>>
tables == <<docs, bios, feasts>>

None == "none"
NoMeta == [source |-> None]
NoFile == <<>>
NoJob == [pc |-> "idle"]
NotRunning == [pc |-> "idle"]

-----------------------------------------------------------------------------
(* What a unit becomes.                                                    *)

Parsers == <<"collects", "daily_office", "psalter", "proper_liturgies", "prayers">>

\* _normalise_language_register and _humanize_rite: "both" and "none" are no rite.
Rite(rite) == IF rite \in {"rite_i", "rite_ii"} THEN rite ELSE None

\* _normalise_office: what the schema has no word for is "other", or nothing.
Office(office) ==
    CASE office \in {"morning_prayer", "evening_prayer", "compline", "noonday"} -> office
      [] office \in {"daily_devotions", "canticle", "great_litany"} -> "other"
      [] OTHER -> None

\* The structural prefix the embedder sees, chunks.text does not.
CollectHeader(u) == <<"collect", u.slug, Rite(u.rite), u.place>>
OfficeHeader(u) == <<u.kind, u.slug, u.place, Rite(u.rite)>>
PsalmHeader(u) == <<"psalm", u.slug>>
LiturgyHeader(u) == <<u.kind, u.slug, u.place>>
PrayerHeader(u) == <<u.kind, u.slug, u.place>>
SaintHeader(saint, rite) == <<"collect", saint.slug, rite>>

BcpMeta(genre, register, office) ==
    [source |-> "bcp_1979", genre |-> genre, register |-> register, office |-> office,
     anchor |-> None]

\* One per parser: the name, the header and the description of a unit.
CollectRow(u) ==
    [id |-> <<u.slug, u.rite>>, header |-> CollectHeader(u),
     meta |-> BcpMeta("collect", Rite(u.rite), None)]

\* A text of one rite carries the rite in its name: a canticle is in both.
OfficeRow(u) ==
    [id |-> IF Rite(u.rite) = None THEN <<u.slug>> ELSE <<u.slug, u.rite>>,
     header |-> OfficeHeader(u), meta |-> BcpMeta(u.kind, Rite(u.rite), Office(u.place))]

PsalmRow(u) ==
    [id |-> <<u.slug>>, header |-> PsalmHeader(u), meta |-> BcpMeta("psalm", None, None)]

\* slug_counters: the units of a liturgy that share a slug are numbered as they come.
LiturgyRow(units, n) ==
    LET u == units[n]
        before == {k \in 1 .. n - 1 : units[k].slug = u.slug /\ units[k].place = u.place}
    IN  [id |-> <<u.place, u.slug>> \o (IF before = {} THEN <<>> ELSE <<Cardinality(before)>>),
         header |-> LiturgyHeader(u), meta |-> BcpMeta(u.kind, None, None)]

PrayerRow(u) ==
    [id |-> <<u.slug>>, header |-> PrayerHeader(u), meta |-> BcpMeta(u.kind, None, None)]

UnitRow(p, n) ==
    LET u == Pages[p][n]
    IN  CASE p = "collects" -> CollectRow(u)
          [] p = "daily_office" -> OfficeRow(u)
          [] p = "psalter" -> PsalmRow(u)
          [] p = "proper_liturgies" -> LiturgyRow(Pages[p], n)
          [] p = "prayers" -> PrayerRow(u)

Key(p, n) == <<"liturgical_unit", UnitRow(p, n).id>>

BioKey(saint) == <<"prose", <<saint.slug>>>>
CollectKey(saint, rite) == <<"liturgical_unit", <<saint.slug, "collect", rite>>>>

\* Pages, saints and files are sequences, and no text is the mark of a missing one.
ASSUME TextsAssumption ==
    /\ \A p \in ToSet(Parsers) :
          /\ Pages[p] \in Seq(ToSet(Pages[p]))
          /\ \A n \in DOMAIN Pages[p] : Pages[p][n].text # None
    /\ Saints \in Seq(ToSet(Saints))
    /\ \A n \in DOMAIN Saints :
          /\ Saints[n].bio # None
          /\ Saints[n].collects \in Seq(ToSet(Saints[n].collects))
          /\ \A c \in ToSet(Saints[n].collects) : c.text # None
    /\ \A file \in FeastFiles : file \in Seq(ToSet(file))

\* A saint has a name of its own, as test_lff_2024_parser.py:258 has it, and its
\* tradition in it, which no unit of the prayer book has; and one collect in a rite.
ASSUME NamesAssumption ==
    /\ \A m, n \in DOMAIN Saints : Saints[m].slug = Saints[n].slug => m = n
    /\ \A n \in DOMAIN Saints : \A c, d \in ToSet(Saints[n].collects) : c.rite = d.rite => c = d
    /\ \A p \in ToSet(Parsers) : \A i \in DOMAIN Pages[p] : \A n \in DOMAIN Saints :
          \A c \in ToSet(Saints[n].collects) : Key(p, i) # CollectKey(Saints[n], c.rite)

-----------------------------------------------------------------------------
(* The documents table.                                                    *)

RowsWith(text) == {key \in DOMAIN docs : docs[key].hash = text}

\* INSERT OR IGNORE goes through: UNIQUE (content_type, source_id), UNIQUE (content_hash).
Insertable(key, text) == key \notin DOMAIN docs /\ RowsWith(text) = {}

Row(hash) == [hash |-> hash, chunk |-> None, vector |-> <<>>, meta |-> NoMeta]

Put(key, row) == [k \in DOMAIN docs \cup {key} |-> IF k = key THEN row ELSE docs[k]]

\* embed_document, when it comes to its end: a document with chunks is left as it is.
Embedded(row, header, text) ==
    IF row.chunk # None THEN row ELSE [row EXCEPT !.chunk = text, !.vector = <<header, text>>]

LitInit ==
    /\ docs = <<>> /\ bios = [n \in 1 .. Len(Saints) |-> 0] /\ feasts = <<>>
    /\ job = NoJob /\ script = NotRunning
    /\ written = NoFile /\ clean = {} /\ known = {} /\ jobs = 0 /\ failures = 0

Fails == failures < MaxFailures /\ failures' = failures + 1

-----------------------------------------------------------------------------
(* handle_liturgy_bcp_ingest: parser by parser, unit by unit, and for a    *)
(* unit three transactions.  An exception costs the unit, or the parser.   *)

\* A parser the payload does not name is here one that fails.
StartBcp ==
    /\ job = NoJob /\ jobs < MaxJobs
    /\ jobs' = jobs + 1
    /\ job' = [pc |-> "parse", left |-> Parsers]
    /\ UNCHANGED <<tables, script, written, clean, known, failures>>

Bcp(pc) == job.pc = pc

\* The parser raises, or its directory is not there.
ParserFails ==
    /\ Bcp("parse") /\ job.left # <<>>
    /\ job' = [job EXCEPT !.left = Tail(@)]
    /\ UNCHANGED <<tables, script, written, clean, known, jobs, failures>>

ParsePages ==
    /\ Bcp("parse") /\ job.left # <<>>
    /\ job' = [pc |-> "insert", left |-> Tail(job.left), parser |-> Head(job.left), n |-> 1,
               clean |-> TRUE]
    /\ UNCHANGED <<tables, script, written, clean, known, jobs, failures>>

InUnit(pc) == Bcp(pc) /\ job.n <= Len(Pages[job.parser])
Unit == Pages[job.parser][job.n]
NextUnit(isClean) == job' = [job EXCEPT !.pc = "insert", !.n = @ + 1, !.clean = @ /\ isClean]

\* _psalm_body_text may come out empty.
SkipEmptyPsalm ==
    /\ InUnit("insert") /\ job.parser = "psalter" /\ Unit.text = ""
    /\ NextUnit(TRUE)
    /\ UNCHANGED <<tables, script, written, clean, known, jobs, failures>>

\* Mutant: a body that is there already under another name is the unit, as in
\* the other handler.
UpsertUnitByText ==
    LET key == Key(job.parser, job.n) IN
    /\ InUnit("insert") /\ Unit.text # ""
    /\ IF Insertable(key, Unit.text)
         THEN /\ docs' = Put(key, Row(Unit.text))
              /\ job' = [job EXCEPT !.pc = "meta"]
         ELSE NextUnit(key \notin DOMAIN docs) /\ UNCHANGED docs
    /\ UNCHANGED <<bios, feasts, script, written, clean, known, jobs, failures>>

\* _upsert_document: a body that is there already under another name costs the
\* row its content_hash.
UpsertUnit ==
    LET key == Key(job.parser, job.n) IN
    /\ InUnit("insert") /\ Unit.text # ""
    /\ IF key \in DOMAIN docs
         THEN NextUnit(FALSE) /\ UNCHANGED docs
         ELSE /\ docs' = Put(key, Row(IF Insertable(key, Unit.text) THEN Unit.text ELSE None))
              /\ job' = [job EXCEPT !.pc = "meta"]
    /\ UNCHANGED <<bios, feasts, script, written, clean, known, jobs, failures>>

\* INSERT OR IGNORE: the first source to describe a document has the last word.
UpsertMeta(key, meta) ==
    docs' = [docs EXCEPT ![key].meta = IF @ = NoMeta THEN meta ELSE @]

DescribeUnit ==
    /\ InUnit("meta")
    /\ UpsertMeta(Key(job.parser, job.n), UnitRow(job.parser, job.n).meta)
    /\ job' = [job EXCEPT !.pc = "embed"]
    /\ UNCHANGED <<bios, feasts, script, written, clean, known, jobs, failures>>

EmbedUnit ==
    LET key == Key(job.parser, job.n) IN
    /\ InUnit("embed")
    /\ docs' = [docs EXCEPT ![key] = Embedded(@, UnitRow(job.parser, job.n).header, Unit.text)]
    /\ NextUnit(TRUE)
    /\ UNCHANGED <<bios, feasts, script, written, clean, known, jobs, failures>>

\* A locked database, Ollama down or its circuit open: what was committed of the
\* unit stays.
UnitFails ==
    /\ Fails
    /\ \E pc \in {"insert", "meta", "embed"} : InUnit(pc)
    /\ NextUnit(FALSE)
    /\ UNCHANGED <<tables, script, written, clean, known, jobs>>

EndParser ==
    /\ Bcp("insert") /\ job.n > Len(Pages[job.parser])
    /\ clean' = IF job.clean THEN clean \cup {job.parser} ELSE clean
    /\ job' = [pc |-> "parse", left |-> job.left]
    /\ UNCHANGED <<tables, script, written, known, jobs, failures>>

EndBcp ==
    /\ Bcp("parse") /\ job.left = <<>>
    /\ job' = NoJob
    /\ UNCHANGED <<tables, script, written, clean, known, jobs, failures>>

JobDies ==
    /\ Fails
    /\ job # NoJob
    /\ job' = NoJob
    /\ UNCHANGED <<tables, script, written, clean, known, jobs>>

-----------------------------------------------------------------------------
(* handle_liturgy_lff_ingest: one transaction per saint, which every       *)
(* embed_document in it commits.                                           *)

\* _build_feast_slug_map, read once.
StartLff ==
    /\ job = NoJob /\ jobs < MaxJobs
    /\ jobs' = jobs + 1
    /\ job' = [pc |-> "saint", n |-> 1, item |-> 0, clean |-> TRUE,
               map |-> {slug \in DOMAIN feasts : feasts[slug].tradition = "anglican"}]
    /\ UNCHANGED <<tables, script, written, clean, known, failures>>

InSaint == job.pc = "saint" /\ job.n <= Len(Saints)
Saint == Saints[job.n]
HasFeast == Saint.slug \in job.map
NextItem == job' = [job EXCEPT !.item = @ + 1]

\* _upsert_document: the row of the same name, or else of the same text.
Target(key, text) ==
    IF key \in DOMAIN docs \/ Insertable(key, text) THEN key
    ELSE CHOOSE k \in RowsWith(text) : TRUE

RowOf(key, text) == IF Insertable(key, text) THEN Row(text) ELSE docs[Target(key, text)]

\* A bio without a feast is left for a later run.
SkipBio ==
    /\ InSaint /\ job.item = 0 /\ (Saint.bio = "" \/ ~HasFeast)
    /\ NextItem
    /\ UNCHANGED <<tables, script, written, clean, known, jobs, failures>>

IngestBio ==
    LET key == BioKey(Saint)
    IN  /\ InSaint /\ job.item = 0 /\ Saint.bio # "" /\ HasFeast
        /\ docs' = Put(Target(key, Saint.bio), Embedded(RowOf(key, Saint.bio), "prose", Saint.bio))
        /\ bios' = [bios EXCEPT ![job.n] = @ + 1]
        /\ NextItem
        /\ UNCHANGED <<feasts, script, written, clean, known, jobs, failures>>

InCollect == InSaint /\ job.item \in 1 .. Len(Saint.collects)
Collect == Saint.collects[job.item]

IngestCollect ==
    LET key == CollectKey(Saint, Collect.rite)
        row == RowOf(key, Collect.text)
        meta == [source |-> "lff_2024", genre |-> "collect", register |-> Collect.rite,
                 office |-> "eucharist", anchor |-> IF HasFeast THEN Saint.slug ELSE None]
    IN  /\ InCollect
        /\ docs' = Put(Target(key, Collect.text),
                       Embedded([row EXCEPT !.meta = IF @ = NoMeta THEN meta ELSE @],
                                SaintHeader(Saint, Collect.rite), Collect.text))
        /\ NextItem
        /\ UNCHANGED <<bios, feasts, script, written, clean, known, jobs, failures>>

NextSaint(isClean) == job' = [job EXCEPT !.n = @ + 1, !.item = 0, !.clean = @ /\ isClean]

\* The open transaction is rolled back, the items before it stay.
SaintFails ==
    /\ Fails
    /\ InCollect \/ (InSaint /\ job.item = 0 /\ Saint.bio # "" /\ HasFeast)
    /\ NextSaint(FALSE)
    /\ UNCHANGED <<tables, script, written, clean, known, jobs>>

SaintDone ==
    /\ InSaint /\ job.item > Len(Saint.collects)
    /\ NextSaint(TRUE)
    /\ UNCHANGED <<tables, script, written, clean, known, jobs, failures>>

EndLff ==
    /\ job.pc = "saint" /\ job.n > Len(Saints)
    /\ clean' = IF job.clean THEN clean \cup {"lff"} ELSE clean
    /\ known' = IF job.clean THEN known \cup job.map ELSE known
    /\ job' = NoJob
    /\ UNCHANGED <<tables, script, written, jobs, failures>>

-----------------------------------------------------------------------------
(* feasts.yaml and feast_import.py.                                        *)

\* validate_feasts: one bad entry refuses the file.
ValidEntry(entry) ==
    /\ entry.rule # "malformed"
    /\ \A s \in entry.subjects : s \in Subjects \/ s = "_other"

\* The file is as its editor left it.
StartImport(file, ignoreMissing) ==
    /\ script = NotRunning
    /\ \A n \in DOMAIN file : ValidEntry(file[n])
    /\ script' = [pc |-> "rows", file |-> file, ignore |-> ignoreMissing]
    /\ written' = NoFile
    /\ UNCHANGED <<tables, job, clean, known, jobs, failures>>

Entries(file) == ToSet(file)
Slugs(file) == {entry.slug : entry \in Entries(file)}

\* What the entry says but for its cross reference. Of two entries of one name
\* the later is what the row says in the end.
EntryOf(file, slug) ==
    file[Max({n \in DOMAIN file : file[n].slug = slug})]

Upserted(file, slug) ==
    LET e == EntryOf(file, slug)
    IN  [tradition |-> e.tradition, rule |-> e.rule, subjects |-> e.subjects,
         xref |-> IF slug \in DOMAIN feasts THEN feasts[slug].xref ELSE None]

\* Pass 1, committed; rows of entries no longer in the file stay.
UpsertFeasts ==
    /\ script.pc = "rows"
    /\ feasts' = [slug \in DOMAIN feasts \cup Slugs(script.file) |->
                    IF slug \in Slugs(script.file) THEN Upserted(script.file, slug)
                    ELSE feasts[slug]]
    /\ script' = [script EXCEPT !.pc = "references"]
    /\ UNCHANGED <<docs, bios, job, written, clean, known, jobs, failures>>

Unresolved(file) ==
    {entry \in Entries(file) : entry.xref # None /\ entry.xref \notin Slugs(file)}

\* An entry without a reference leaves the row its old one.
Referring(file, slug) ==
    LET given == {n \in DOMAIN file : file[n].slug = slug /\ file[n].xref \in Slugs(file)}
    IN  IF given = {} THEN feasts[slug].xref ELSE file[Max(given)].xref

\* Pass 2, committed although the script may then fail.
ResolveReferences ==
    /\ script.pc = "references"
    /\ feasts' = [slug \in DOMAIN feasts |->
                    [feasts[slug] EXCEPT !.xref = Referring(script.file, slug)]]
    /\ written' = IF Unresolved(script.file) = {} \/ script.ignore THEN script.file ELSE NoFile
    /\ script' = NotRunning
    /\ UNCHANGED <<docs, bios, job, clean, known, jobs, failures>>

ImportDies ==
    /\ Fails
    /\ script # NotRunning
    /\ script' = NotRunning
    /\ UNCHANGED <<tables, job, written, clean, known, jobs>>

-----------------------------------------------------------------------------
BcpNext ==
    \/ StartBcp \/ ParserFails \/ ParsePages
    \/ SkipEmptyPsalm \/ UpsertUnit \/ DescribeUnit \/ EmbedUnit \/ UnitFails
    \/ EndParser \/ EndBcp

LffNext ==
    \/ StartLff \/ SkipBio \/ IngestBio \/ IngestCollect
    \/ SaintFails \/ SaintDone \/ EndLff

\* Of a job only StartLff looks at the feasts: the script's steps commute with
\* all others, and are taken between jobs.
FeastNext ==
    /\ job = NoJob
    /\ \/ \E file \in FeastFiles, i \in BOOLEAN : StartImport(file, i)
       \/ UpsertFeasts
       \/ ResolveReferences
       \/ ImportDies

LitNext == BcpNext \/ LffNext \/ JobDies \/ FeastNext

LitSpec == LitInit /\ [][LitNext]_litVars
-----------------------------------------------------------------------------
Findable(text) == \E key \in DOMAIN docs : docs[key].chunk = text

\* A job that reports no error has done all of its work, whatever failed, died or
\* shared a text before it: every unit of the prayer book that the run found
\* missing has a row of its own, described and embedded under its own header;
\* every collect of a saint can be found; and every bio, if its feast was there. And
\* after an import of the feasts that ended in success each reads as the file has it,
\* its cross reference too, whatever earlier versions said and however many imports
\* failed or died between their two passes.
CleanRunIsComplete ==
    /\ \A p \in clean \ {"lff"} : \A n \in DOMAIN Pages[p] :
          LET text == Pages[p][n].text row == UnitRow(p, n) key == Key(p, n) IN
          text # "" =>
              /\ key \in DOMAIN docs /\ docs[key].chunk = text
              /\ docs[key].vector = <<row.header, text>> /\ docs[key].meta = row.meta
    /\ "lff" \in clean =>
          \A n \in DOMAIN Saints :
              /\ \A c \in ToSet(Saints[n].collects) : Findable(c.text)
              /\ Saints[n].slug \in known /\ Saints[n].bio # "" =>
                    bios[n] > 0 /\ Findable(Saints[n].bio)
    /\ \A slug \in Slugs(written) :
          LET e == EntryOf(written, slug) row == feasts[slug]
          IN  /\ row.rule = e.rule /\ row.subjects = e.subjects
              /\ e.xref \in Slugs(written) => row.xref = e.xref

\* liturgy_lff.py:31: "Re-running is a no-op on already-ingested rows".
RerunIsNoOp ==
    [][IngestBio /\ bios[job.n] > 0 /\ Findable(Saint.bio) => UNCHANGED tables]_litVars
=============================================================================
